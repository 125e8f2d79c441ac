------------------------- MODULE TrainingJobsProofs -------------------------
(***************************************************************************)
(* Proofs about TrainingJobs for every number of jobs, requests, tasks,    *)
(* spans and versions: type correctness, that a completed job names a      *)
(* version trained for it, that spans are consumed on behalf of versions,  *)
(* and, for the one worker process the deployment runs, the retry guard    *)
(* and the accounting of consumed spans.                                   *)
(***************************************************************************)
EXTENDS TrainingJobs, FiniteSetTheorems, WellFoundedInduction, TLAPS

\* Every set of naturals that is not empty has a least element.
LEMMA LeastNat ==
    ASSUME NEW T \in SUBSET Nat, T # {}
    PROVE  \E n \in T : \A m \in T : n <= m
<1> DEFINE R == OpToRel(<, Nat)
<1>1. IsWellFoundedOn(R, Nat)
  BY NatLessThanWellFounded
<1>2. PICK n \in T : \A m \in T : <<m, n>> \notin R
  <2> HIDE DEF R
  <2>1. QED
    BY <1>1, WFMin
<1>3. \A m \in T : ~ (m < n)
  BY <1>2 DEF OpToRel
<1>4. QED
  BY <1>3

-----------------------------------------------------------------------------
(* Version numbers.                                                        *)

Rows == {v \in Versions : version[v] # NoRow}

\* No number is above the count of the rows, and the number an execution has in
\* hand is at most one above it.
NumbersOK ==
    /\ \A v \in Versions : version[v].number <= Cardinality(Rows)
    /\ \A w \in Workers : worker[w].number <= Cardinality(Rows) + 1

LEMMA RowsFinite ==
    IsFiniteSet(Rows) /\ Cardinality(Rows) \in Nat /\ Cardinality(Rows) <= Cardinality(Versions)
<1>1. Rows \in SUBSET Versions
  BY DEF Rows
<1>2. QED
  BY <1>1, VersionsFinite, FS_Subset, FS_CardinalityType

\* What NextNumber is: above every number, positive, and one above the rows at
\* most.
LEMMA NextNumberIs ==
    ASSUME \A v \in Versions : version[v].number \in Nat, NumbersOK
    PROVE  /\ NextNumber \in 1..Cardinality(Rows) + 1
           /\ \A v \in Versions : version[v].number < NextNumber
<1> DEFINE C == Cardinality(Rows)
           Above(n) == \A v \in Versions : version[v].number < n
           T == {n \in Nat : n >= 1 /\ Above(n)}
           Least(n) == Above(n) /\ \A m \in 1..n - 1 : \E v \in Versions : version[v].number >= m
<1>1. C \in Nat /\ Cardinality(Versions) \in Nat /\ C <= Cardinality(Versions)
  BY RowsFinite, VersionsFinite, FS_CardinalityType
<1>2. C + 1 \in T
  <2>1. ASSUME NEW v \in Versions PROVE version[v].number < C + 1
    BY <1>1 DEF NumbersOK
  <2>2. QED
    BY <1>1, <2>1
<1>3. PICK n \in T : \A m \in T : n <= m
  BY <1>2, LeastNat
<1>4. n \in 1..Cardinality(Versions) + 1 /\ n <= C + 1
  BY <1>1, <1>2, <1>3
<1>5. Least(n)
  <2>1. ASSUME NEW m \in 1..n - 1 PROVE \E v \in Versions : version[v].number >= m
    <3>1. m \in Nat /\ m >= 1 /\ ~ (n <= m)
      BY <1>4, <2>1, <1>1
    <3>2. m \notin T
      BY <1>3, <3>1
    <3>3. PICK v \in Versions : ~ (version[v].number < m)
      BY <3>1, <3>2
    <3>4. QED
      BY <3>1, <3>3
  <2>2. QED
    BY <1>3, <2>1
<1>6. \A k \in 1..Cardinality(Versions) + 1 : Least(k) => k <= n
  <2>1. SUFFICES ASSUME NEW k \in 1..Cardinality(Versions) + 1, Least(k), ~ (k <= n)
                 PROVE  FALSE
    OBVIOUS
  <2>2. n \in 1..k - 1
    BY <1>1, <1>4, <2>1
  <2>3. PICK v \in Versions : version[v].number >= n
    BY <2>1, <2>2
  <2>4. version[v].number < n /\ version[v].number \in Nat /\ n \in Nat
    BY <1>3
  <2>5. QED
    BY <2>3, <2>4
<1>7. NextNumber \in 1..Cardinality(Versions) + 1 /\ Least(NextNumber)
  <2>1. NextNumber = CHOOSE k \in 1..Cardinality(Versions) + 1 : Least(k)
    BY DEF NextNumber
  <2> HIDE DEF Least
  <2>2. QED
    BY <1>4, <1>5, <2>1
<1>8. NextNumber <= n
  BY <1>6, <1>7
<1>9. QED
  BY <1>1, <1>4, <1>7, <1>8

-----------------------------------------------------------------------------
(* What every action is shown to preserve; TypeOK is its conjunction.      *)

Held == {"complete", "record", "end"}
RequestRow == [stage : {"idle", "approve", "reject", "cancel", "done"},
               job : Jobs \cup {NoJob}, task : Tasks \cup {NoTask}]

JobOK == job \in [Jobs -> JobRow]
VersionOK == version \in [Versions -> VersionRow]
Conditions == {"unborn", "readable", "textless", "deleted"}
SpanOK == consumed \in [Spans -> Nat] /\ spans \in [Spans -> Conditions]
Asks(q) == /\ q.stage \in {"approve", "reject", "cancel"} => q.job \in Jobs
           /\ q.stage = "approve" => q.task \in Tasks
ReqOK == req \in [Requests -> RequestRow] /\ \A r \in Requests : Asks(req[r])
BrokerOK == /\ task \in [Tasks -> Jobs \cup {NoJob}]
            /\ queue \subseteq Tasks /\ revoked \subseteq Tasks
            /\ \A t \in queue : task[t] \in Jobs
Sent(jobs) == {t \in Tasks : jobs[t] \in Jobs}
Works(e, sent) == /\ e.stage # "free" => e.task \in sent
                  /\ e.stage \in Held => e.version \in Versions
WorkerOK == worker \in [Workers -> Execution] /\ \A w \in Workers : Works(worker[w], Sent(task))
HistoryOK == /\ overtaken \subseteq Jobs /\ dataset \in [Versions -> SUBSET Spans]
             /\ blinked \subseteq Spans /\ unclosed \subseteq Versions

LEMMA TypeParts ==
    /\ TypeOK <=> JobOK /\ VersionOK /\ SpanOK /\ ReqOK /\ BrokerOK /\ WorkerOK /\ HistoryOK
    /\ TypeOK' <=> /\ JobOK' /\ VersionOK' /\ SpanOK' /\ ReqOK' /\ BrokerOK' /\ WorkerOK'
                   /\ HistoryOK'
<1>1. TypeOK <=> JobOK /\ VersionOK /\ SpanOK /\ ReqOK /\ BrokerOK /\ WorkerOK /\ HistoryOK
  BY DEF TypeOK, JobOK, VersionOK, SpanOK, Conditions, ReqOK, RequestRow, Asks, BrokerOK, WorkerOK, Works,
         Sent, JobOf, Held, HistoryOK
<1>2. TypeOK' <=> /\ JobOK' /\ VersionOK' /\ SpanOK' /\ ReqOK' /\ BrokerOK' /\ WorkerOK'
                  /\ HistoryOK'
  BY DEF TypeOK, JobOK, VersionOK, SpanOK, Conditions, ReqOK, RequestRow, Asks, BrokerOK, WorkerOK, Works,
         Sent, JobOf, Held, HistoryOK
<1>3. QED
  BY <1>1, <1>2

LEMMA FreeType == Free \in Execution /\ Free.stage = "free" /\ Free.number = 0
BY DEF Free, Execution, Stages

LEMMA InitTypeOK == Init => TypeOK /\ NumbersOK
<1> SUFFICES ASSUME Init PROVE TypeOK /\ NumbersOK
  OBVIOUS
<1>1. JobOK
  BY DEF Init, JobOK, JobRow, Statuses, Scopes
<1>2. VersionOK
  BY DEF Init, VersionOK, VersionRow, NoRow
<1>3. SpanOK
  BY DEF Init, SpanOK, Conditions
<1>4. ReqOK
  BY DEF Init, ReqOK, RequestRow, Asks, Idle, Request
<1>5. BrokerOK
  BY DEF Init, BrokerOK
<1>6. WorkerOK
  BY FreeType DEF Init, WorkerOK, Works, Held
<1>7. HistoryOK
  BY DEF Init, HistoryOK
<1>8. NumbersOK
  BY RowsFinite, FreeType DEF Init, NumbersOK, NoRow
<1>9. QED
  BY <1>1, <1>2, <1>3, <1>4, <1>5, <1>6, <1>7, <1>8, TypeParts

-----------------------------------------------------------------------------
(* A step on one row, one request, one execution.                          *)

\* What a step leaves alone stays well-formed.
LEMMA Frames ==
    /\ JobOK /\ UNCHANGED job => JobOK'
    /\ VersionOK /\ UNCHANGED version => VersionOK' /\ Rows' = Rows
    /\ SpanOK /\ UNCHANGED <<consumed, spans>> => SpanOK'
    /\ ReqOK /\ UNCHANGED req => ReqOK'
    /\ BrokerOK /\ UNCHANGED broker => BrokerOK'
    /\ WorkerOK /\ UNCHANGED <<worker, task>> => WorkerOK'
    /\ HistoryOK /\ UNCHANGED history => HistoryOK'
    /\ NumbersOK /\ UNCHANGED <<version, worker>> => NumbersOK'
<1>1. JobOK /\ UNCHANGED job => JobOK'
  BY DEF JobOK
<1>2. VersionOK /\ UNCHANGED version => VersionOK' /\ Rows' = Rows
  BY DEF VersionOK, Rows
<1>3. SpanOK /\ UNCHANGED <<consumed, spans>> => SpanOK'
  BY DEF SpanOK
<1>4. ReqOK /\ UNCHANGED req => ReqOK'
  BY DEF ReqOK, Asks
<1>5. BrokerOK /\ UNCHANGED broker => BrokerOK'
  BY DEF BrokerOK, broker
<1>6. WorkerOK /\ UNCHANGED <<worker, task>> => WorkerOK'
  BY DEF WorkerOK, Works, Sent
<1>7. HistoryOK /\ UNCHANGED history => HistoryOK'
  BY DEF HistoryOK, history
<1>8. NumbersOK /\ UNCHANGED <<version, worker>> => NumbersOK'
  BY DEF NumbersOK, Rows
<1>9. QED
  BY <1>1, <1>2, <1>3, <1>4, <1>5, <1>6, <1>7, <1>8

LEMMA StatusWritten ==
    ASSUME JobOK, NEW j \in Jobs, NEW status \in Statuses, SetStatus(j, status)
    PROVE  JobOK'
BY DEF JobOK, JobRow, SetStatus

\* A request moves: it asks for what exists, or is done.
LEMMA RequestMoves ==
    ASSUME ReqOK, NEW r \in Requests, NEW q \in RequestRow, Asks(q),
           req' = [req EXCEPT ![r] = q]
    PROVE  ReqOK'
<1>1. req' \in [Requests -> RequestRow]
  BY DEF ReqOK
<1>2. \A p \in Requests : req'[p] = IF p = r THEN q ELSE req[p]
  BY DEF ReqOK
<1>3. QED
  BY <1>1, <1>2 DEF ReqOK

LEMMA RequestAnswered ==
    ASSUME ReqOK, NEW r \in Requests, req' = Answered(r)
    PROVE  ReqOK'
<1>1. Request("done", NoJob, NoTask) \in RequestRow /\ Asks(Request("done", NoJob, NoTask))
  BY DEF Request, RequestRow, Asks
<1>2. QED
  BY <1>1, RequestMoves DEF Answered

\* An execution moves with a task that was sent, a version that was inserted
\* and a number that was taken.
LEMMA WorkerMoves ==
    ASSUME WorkerOK, NumbersOK, UNCHANGED <<task, version>>, NEW w \in Workers,
           NEW e \in Execution, Works(e, Sent(task)), e.number <= Cardinality(Rows) + 1,
           worker' = [worker EXCEPT ![w] = e]
    PROVE  WorkerOK' /\ NumbersOK'
<1>1. worker' \in [Workers -> Execution]
  BY DEF WorkerOK
<1>2. \A u \in Workers : worker'[u] = IF u = w THEN e ELSE worker[u]
  BY DEF WorkerOK
<1>3. Sent(task') = Sent(task) /\ Rows' = Rows
  BY DEF Rows
<1>4. \A u \in Workers : Works(worker'[u], Sent(task')) /\ worker'[u].number <= Cardinality(Rows) + 1
  BY <1>2, <1>3 DEF WorkerOK, NumbersOK
<1>5. QED
  BY <1>1, <1>3, <1>4 DEF WorkerOK, NumbersOK, Works

LEMMA WorkerEnds ==
    ASSUME WorkerOK, NumbersOK, UNCHANGED <<task, version>>, NEW w \in Workers, Ends(w)
    PROVE  WorkerOK' /\ NumbersOK'
<1>1. Works(Free, Sent(task)) /\ Free \in Execution /\ Free.number <= Cardinality(Rows) + 1
  BY FreeType, RowsFinite DEF Works, Held
<1>2. QED
  BY <1>1, WorkerMoves DEF Ends

LEMMA WorkerGoes ==
    ASSUME WorkerOK, NumbersOK, UNCHANGED <<task, version>>, NEW w \in Workers,
           NEW stage \in Stages, Goes(w, stage), worker[w].stage # "free",
           stage \in Held => worker[w].stage \in Held
    PROVE  WorkerOK' /\ NumbersOK'
<1> DEFINE e == [worker[w] EXCEPT !.stage = stage]
<1>1. worker[w] \in Execution /\ Works(worker[w], Sent(task))
  BY DEF WorkerOK
<1>2. /\ e \in Execution /\ e.stage = stage /\ e.task = worker[w].task
      /\ e.version = worker[w].version /\ e.number = worker[w].number
  BY <1>1 DEF Execution
<1>3. Works(e, Sent(task)) /\ e.number <= Cardinality(Rows) + 1
  BY <1>1, <1>2 DEF Works, NumbersOK
<1>4. worker' = [worker EXCEPT ![w] = e]
  BY DEF Goes
<1> HIDE DEF e
<1>5. QED
  BY <1>2, <1>3, <1>4, WorkerMoves

\* The job an execution works for.
LEMMA WorksFor ==
    ASSUME WorkerOK, NEW w \in Workers, worker[w].stage # "free"
    PROVE  JobOf(w) \in Jobs /\ worker[w].task \in Tasks
BY DEF WorkerOK, Works, Sent, JobOf

-----------------------------------------------------------------------------
(* Type correctness, action by action.                                     *)

TypeInv == TypeOK /\ NumbersOK

LEMMA SubmitType ==
    ASSUME TypeInv, NEW j \in Jobs, NEW scope \in RequestedScopes, Submit(j, scope)
    PROVE  TypeInv'
<1>1. JobOK'
  BY ScopeAssumption, TypeParts DEF TypeInv, Submit, JobOK, JobRow, Statuses
<1>2. QED
  BY <1>1, TypeParts, Frames DEF TypeInv, Submit, broker

\* What can happen to a span.
SpanMoves(s) == Confirm(s) \/ DeleteSpan(s) \/ PurgeText(s) \/ StoreText(s)

LEMMA SpanType ==
    ASSUME TypeInv, NEW s \in Spans, SpanMoves(s)
    PROVE  TypeInv'
<1>1. /\ UNCHANGED <<job, version, broker, req, worker, overtaken, dataset, unclosed>>
      /\ consumed' \in {consumed, [consumed EXCEPT ![s] = 0]}
      /\ spans' \in {[spans EXCEPT ![s] = c] : c \in Conditions}
      /\ blinked' \in {blinked, blinked \cup {s}}
  BY DEF SpanMoves, Confirm, DeleteSpan, PurgeText, StoreText, history, Conditions
<1>2. SpanOK' /\ HistoryOK'
  BY <1>1, TypeParts DEF TypeInv, SpanOK, HistoryOK
<1>3. QED
  BY <1>1, <1>2, TypeParts, Frames DEF TypeInv, broker

LEMMA DiscardType ==
    ASSUME TypeInv, NEW t \in Tasks, Discard(t)
    PROVE  TypeInv'
<1>1. BrokerOK'
  BY TypeParts DEF TypeInv, Discard, BrokerOK
<1>2. QED
  BY <1>1, TypeParts, Frames DEF TypeInv, Discard, tables

\* Approval sends a task that was sent for no job before.
LEMMA ApproveSendType ==
    ASSUME TypeInv, NEW r \in Requests, NEW j \in Jobs, ApproveSend(r, j)
    PROVE  TypeInv'
<1>1. ReqOK /\ BrokerOK /\ WorkerOK /\ NumbersOK
  BY TypeParts DEF TypeInv
<1>2. PICK t \in Tasks : /\ task[t] = NoJob
                         /\ task' = [task EXCEPT ![t] = j]
                         /\ queue' = queue \cup {t}
                         /\ req' = [req EXCEPT ![r] = Request("approve", j, t)]
  BY DEF ApproveSend
<1>3. UNCHANGED <<tables, revoked, worker, history>>
  BY DEF ApproveSend
<1>4. \A u \in Tasks : task'[u] = IF u = t THEN j ELSE task[u]
  BY <1>1, <1>2 DEF BrokerOK
<1>5. BrokerOK'
  BY <1>1, <1>2, <1>3, <1>4 DEF BrokerOK
<1>6. Sent(task) \subseteq Sent(task')
  BY <1>4 DEF Sent
<1>7. WorkerOK' /\ NumbersOK'
  BY <1>1, <1>3, <1>6, Frames DEF WorkerOK, Works, tables
<1>8. ReqOK'
  <2>1. Request("approve", j, t) \in RequestRow /\ Asks(Request("approve", j, t))
    BY DEF Request, RequestRow, Asks
  <2>2. QED
    BY <1>1, <1>2, <2>1, RequestMoves
<1>9. QED
  BY <1>3, <1>5, <1>7, <1>8, TypeParts, Frames DEF TypeInv, tables

LEMMA EndpointType ==
    ASSUME TypeInv, NEW r \in Requests, Endpoint(r)
    PROVE  TypeInv'
<1>1. JobOK /\ ReqOK /\ BrokerOK /\ HistoryOK
  BY TypeParts DEF TypeInv
<1>2. ASSUME NEW j \in Jobs, RejectRead(r, j) \/ CancelRevoke(r, j)
      PROVE  TypeInv'
  <2>1. ReqOK'
    <3>1. \E stage \in {"reject", "cancel"} : req' = [req EXCEPT ![r] = Request(stage, j, NoTask)]
      BY <1>2 DEF RejectRead, CancelRevoke
    <3>2. ASSUME NEW stage \in {"reject", "cancel"}
          PROVE  Request(stage, j, NoTask) \in RequestRow /\ Asks(Request(stage, j, NoTask))
      BY DEF Request, RequestRow, Asks
    <3>3. QED
      BY <1>1, <3>1, <3>2, RequestMoves
  <2>2. BrokerOK'
    BY <1>1, <1>2 DEF RejectRead, CancelRevoke, BrokerOK, broker, JobOK, JobRow
  <2>3. UNCHANGED <<tables, task, worker, history>>
    BY <1>2 DEF RejectRead, CancelRevoke, broker
  <2>4. QED
    BY <2>1, <2>2, <2>3, TypeParts, Frames DEF TypeInv, tables
<1>3. CASE ApproveWrite(r) \/ RejectWrite(r) \/ CancelWrite(r) \/ RequestDies(r)
  <2>1. /\ req[r].stage \in {"approve", "reject", "cancel"} /\ req' = Answered(r)
        /\ UNCHANGED <<version, consumed, spans, broker, worker, dataset, blinked, unclosed>>
    BY <1>3 DEF ApproveWrite, RejectWrite, CancelWrite, RequestDies, tables, history
  <2>2. req[r].job \in Jobs /\ (req[r].stage = "approve" => req[r].task \in Tasks)
    BY <1>1, <2>1 DEF ReqOK, Asks
  <2>3. JobOK'
    BY <1>1, <1>3, <2>2
       DEF ApproveWrite, RejectWrite, CancelWrite, RequestDies, JobOK, JobRow, Statuses, Terminal,
           tables
  <2>4. HistoryOK'
    BY <1>1, <1>3, <2>2
       DEF ApproveWrite, RejectWrite, CancelWrite, RequestDies, Overtaken, HistoryOK, history
  <2>5. ReqOK'
    BY <1>1, <2>1, RequestAnswered
  <2>6. QED
    BY <2>1, <2>3, <2>4, <2>5, TypeParts, Frames DEF TypeInv, broker
<1>4. QED
  BY <1>2, <1>3, ApproveSendType DEF Endpoint

\* A message taken, delivered again, or lost with its process.
LEMMA DeliveryType ==
    ASSUME TypeInv, NEW w \in Workers,
           (\E t \in Tasks : Pick(w, t)) \/ Redeliver(w) \/ Killed(w) \/ Postpone(w)
    PROVE  TypeInv'
<1>1. BrokerOK /\ WorkerOK /\ NumbersOK
  BY TypeParts DEF TypeInv
<1>2. UNCHANGED <<tables, task, revoked, req, history>>
  BY DEF Pick, Redeliver, Killed, Postpone
<1>3. ASSUME NEW t \in Tasks, Pick(w, t) PROVE TypeInv'
  <2> DEFINE e == [Free EXCEPT !.stage = "start", !.task = t]
  <2>1. e \in Execution /\ e.stage = "start" /\ e.task = t /\ e.number = 0
    BY DEF Free, Execution, Stages
  <2>2. worker' = [worker EXCEPT ![w] = e] /\ queue' = queue \ {t}
    BY <1>3 DEF Pick
  <2> HIDE DEF e
  <2>3. Works(e, Sent(task)) /\ e.number <= Cardinality(Rows) + 1
    <3>1. t \in Sent(task)
      BY <1>1, <1>3 DEF Pick, BrokerOK, Sent
    <3>2. Works(e, Sent(task))
      BY <2>1, <3>1 DEF Works, Held
    <3>3. QED
      BY <2>1, <3>2, RowsFinite
  <2>4. WorkerOK' /\ NumbersOK'
    BY <1>1, <1>2, <2>1, <2>2, <2>3, WorkerMoves DEF tables
  <2>5. BrokerOK'
    BY <1>1, <1>2, <2>2 DEF BrokerOK
  <2>6. QED
    BY <1>2, <2>4, <2>5, TypeParts, Frames DEF TypeInv, tables
<1>4. CASE Redeliver(w) \/ Killed(w) \/ Postpone(w)
  <2>1. JobOf(w) \in Jobs /\ worker[w].task \in Tasks
    BY <1>1, <1>4, WorksFor DEF Redeliver, Killed, Postpone
  <2>2. queue' \subseteq queue \cup {worker[w].task}
    BY <1>4 DEF Redeliver, Killed, Postpone
  <2>3. BrokerOK'
    BY <1>1, <1>2, <2>1, <2>2 DEF BrokerOK, JobOf
  <2>4. WorkerOK' /\ NumbersOK'
    <3>1. CASE Redeliver(w)
      BY <1>1, <1>2, <3>1, Frames DEF Redeliver, tables
    <3>2. CASE Killed(w) \/ Postpone(w)
      BY <1>1, <1>2, <3>2, WorkerEnds DEF Killed, Postpone, Ends, tables
    <3>3. QED
      BY <1>4, <3>1, <3>2
  <2>5. QED
    BY <1>2, <2>3, <2>4, TypeParts, Frames DEF TypeInv, tables
<1>5. QED
  BY <1>3, <1>4

\* The steps of an execution that only move it on, or end it, and may write a
\* status.
LEMMA MovesType ==
    ASSUME TypeInv, NEW w \in Workers,
           \/ ReadStatus(w) \/ ReadFails(w) \/ GivesUp(w) \/ MarkRunning(w)
           \/ Complete(w) \/ EndRun(w) \/ Raises(w) \/ FailJob(w)
    PROVE  TypeInv'
<1>1. JobOK /\ WorkerOK /\ NumbersOK
  BY TypeParts DEF TypeInv
<1>2. UNCHANGED <<version, consumed, spans, broker, req>>
  BY DEF ReadStatus, ReadFails, GivesUp, MarkRunning, Complete, EndRun, Raises, FailJob, tables
<1>3. worker[w].stage # "free"
  BY DEF ReadStatus, ReadFails, GivesUp, MarkRunning, Complete, EndRun, Raises, FailJob, InTry
<1>4. JobOf(w) \in Jobs
  BY <1>1, <1>3, WorksFor
<1>5. WorkerOK' /\ NumbersOK'
  <2>1. CASE Ends(w)
    BY <1>1, <1>2, <2>1, WorkerEnds DEF broker
  <2>2. CASE \E stage \in {"run", "export", "failing", "failing_version"} : Goes(w, stage)
    BY <1>1, <1>2, <1>3, <2>2, WorkerGoes DEF broker, Stages, InTry, Held
  <2>3. CASE Complete(w)
    BY <1>1, <1>2, <1>3, <2>3, WorkerGoes DEF Complete, broker, Stages, InTry, Held
  <2>4. QED
    BY <2>1, <2>2, <2>3
       DEF ReadStatus, ReadFails, GivesUp, MarkRunning, EndRun, Raises, FailJob
<1>6. JobOK'
  <2>1. CASE \E status \in Statuses : SetStatus(JobOf(w), status)
    BY <1>1, <1>4, <2>1, StatusWritten
  <2>2. CASE UNCHANGED job
    BY <1>1, <2>2, Frames
  <2>3. CASE Complete(w)
    <3>1. worker[w].version \in Versions
      BY <1>1, <2>3 DEF Complete, WorkerOK, Works, Held
    <3>2. QED
      BY <1>1, <1>4, <2>3, <3>1 DEF Complete, JobOK, JobRow, Statuses, Terminal
  <2>4. QED
    BY <2>1, <2>2, <2>3
       DEF ReadStatus, ReadFails, GivesUp, MarkRunning, EndRun, Raises, FailJob, tables,
           Statuses, Terminal
<1>7. HistoryOK'
  <2>1. CASE Raises(w)
    <3>1. worker[w].stage = "end" => worker[w].version \in Versions
      BY <1>1 DEF WorkerOK, Works, Held
    <3>2. QED
      BY <2>1, <3>1, TypeParts DEF TypeInv, Raises, HistoryOK
  <2>2. CASE UNCHANGED history
    BY <2>2, TypeParts, Frames DEF TypeInv
  <2>3. QED
    BY <2>1, <2>2 DEF ReadStatus, ReadFails, GivesUp, MarkRunning, Complete, EndRun, FailJob
<1>8. QED
  BY <1>2, <1>5, <1>6, <1>7, TypeParts, Frames DEF TypeInv, broker

\* The steps that load data or take a number.
LEMMA LoadsType ==
    ASSUME TypeInv, NEW w \in Workers, Export(w) \/ CaptureIds(w) \/ TakeNumber(w)
    PROVE  TypeInv'
<1>1. JobOK /\ VersionOK /\ SpanOK /\ WorkerOK /\ NumbersOK /\ worker[w] \in Execution
  BY TypeParts DEF TypeInv, WorkerOK
<1>2. UNCHANGED <<tables, broker, req, history>>
  BY DEF Export, CaptureIds, TakeNumber
<1>3. Works(worker[w], Sent(task)) /\ worker[w].number <= Cardinality(Rows) + 1
  BY <1>1 DEF WorkerOK, NumbersOK
<1>4. PICK e \in Execution :
          /\ worker' = [worker EXCEPT ![w] = e] /\ e.stage \notin Held /\ e.task = worker[w].task
          /\ e.number <= Cardinality(Rows) + 1 /\ worker[w].stage # "free"
  <2>1. CASE Export(w)
    <3> DEFINE e == [worker[w] EXCEPT !.stage = "ids", !.dataset = Exported(job[JobOf(w)].scope)]
    <3>1. Exported(job[JobOf(w)].scope) \subseteq Spans
      <4>1. job[JobOf(w)].scope \in Scopes
        BY <1>1, <2>1, WorksFor DEF Export, JobOK, JobRow
      <4>2. QED
        BY <1>1, <4>1 DEF Exported, Readable, Scopes
    <3>2. e \in Execution
      BY <1>1, <3>1 DEF Execution, Stages, InTry
    <3>3. /\ e.stage = "ids" /\ e.task = worker[w].task /\ e.number = worker[w].number
          /\ worker' = [worker EXCEPT ![w] = e]
      BY <1>1, <2>1 DEF Execution, Export
    <3> HIDE DEF e
    <3>4. QED
      BY <1>3, <2>1, <3>2, <3>3 DEF Held, Export
  <2>2. CASE CaptureIds(w)
    <3> DEFINE e == [worker[w] EXCEPT !.stage = "train", !.ids = Readable]
    <3>1. e \in Execution
      BY <1>1 DEF Execution, Stages, InTry, Readable
    <3>2. /\ e.stage = "train" /\ e.task = worker[w].task /\ e.number = worker[w].number
          /\ worker' = [worker EXCEPT ![w] = e]
      BY <1>1, <2>2 DEF Execution, CaptureIds
    <3> HIDE DEF e
    <3>3. QED
      BY <1>3, <2>2, <3>1, <3>2 DEF Held, CaptureIds
  <2>3. CASE TakeNumber(w)
    <3> DEFINE e == [worker[w] EXCEPT !.stage = "insert", !.number = NextNumber]
    <3>1. NextNumber \in Nat /\ NextNumber <= Cardinality(Rows) + 1
      BY <1>1, NextNumberIs, RowsFinite DEF VersionOK, VersionRow
    <3>2. e \in Execution
      BY <1>1, <3>1 DEF Execution, Stages, InTry
    <3>3. /\ e.stage = "insert" /\ e.task = worker[w].task /\ e.number = NextNumber
          /\ worker' = [worker EXCEPT ![w] = e]
      BY <1>1, <2>3 DEF Execution, TakeNumber
    <3> HIDE DEF e
    <3>4. QED
      BY <2>3, <3>1, <3>2, <3>3 DEF Held, TakeNumber
  <2>4. QED
    BY <2>1, <2>2, <2>3
<1>5. Works(e, Sent(task))
  BY <1>3, <1>4 DEF Works
<1>6. WorkerOK' /\ NumbersOK'
  BY <1>1, <1>2, <1>4, <1>5, WorkerMoves DEF broker, tables
<1>7. QED
  BY <1>2, <1>6, TypeParts, Frames DEF TypeInv, tables

\* Inserting a row makes the count of rows one more.
LEMMA InsertType ==
    ASSUME TypeInv, NEW w \in Workers, InsertVersion(w)
    PROVE  TypeInv'
<1>1. VersionOK /\ WorkerOK /\ NumbersOK /\ HistoryOK /\ worker[w] \in Execution
  BY TypeParts DEF TypeInv, WorkerOK
<1>2. PICK v \in Versions :
          /\ version[v] = NoRow
          /\ version' = [version EXCEPT ![v] = [job |-> JobOf(w), status |-> "training",
                                                number |-> worker[w].number]]
          /\ dataset' = [dataset EXCEPT ![v] = worker[w].dataset]
          /\ worker' = [worker EXCEPT ![w].stage = "complete", ![w].version = v]
  BY DEF InsertVersion
<1>3. UNCHANGED <<job, consumed, spans, broker, req, overtaken, blinked, unclosed>>
  BY DEF InsertVersion
<1>4. JobOf(w) \in Jobs /\ Works(worker[w], Sent(task)) /\ worker[w].stage # "free"
  BY <1>1, WorksFor DEF InsertVersion, WorkerOK
<1>5. VersionOK'
  BY <1>1, <1>2, <1>4 DEF VersionOK, VersionRow, Execution
<1>6. HistoryOK'
  BY <1>1, <1>2, <1>3 DEF HistoryOK, Execution
<1>7. Rows' = Rows \cup {v} /\ v \notin Rows
  <2>1. [job |-> JobOf(w), status |-> "training", number |-> worker[w].number] # NoRow
    BY DEF NoRow
  <2>2. \A u \in Versions : version'[u] = IF u = v
            THEN [job |-> JobOf(w), status |-> "training", number |-> worker[w].number]
            ELSE version[u]
    BY <1>1, <1>2 DEF VersionOK
  <2>3. QED
    BY <1>2, <2>1, <2>2 DEF Rows
<1>8. Cardinality(Rows') = Cardinality(Rows) + 1 /\ Cardinality(Rows) \in Nat
  BY <1>7, RowsFinite, FS_AddElement
<1>9. worker' \in [Workers -> Execution] /\ \A u \in Workers :
          /\ worker'[u].number = worker[u].number
          /\ Works(worker'[u], Sent(task))
  <2>1. worker' \in [Workers -> Execution]
    BY <1>1, <1>2 DEF WorkerOK, Execution, Stages, InTry
  <2>2. ASSUME NEW u \in Workers
        PROVE  worker'[u].number = worker[u].number /\ Works(worker'[u], Sent(task))
    <3>1. worker[u] \in Execution /\ Works(worker[u], Sent(task))
      BY <1>1 DEF WorkerOK
    <3>2. CASE u = w
      BY <1>1, <1>2, <1>4, <3>1, <3>2 DEF WorkerOK, Execution, Works
    <3>3. CASE u # w
      BY <1>1, <1>2, <3>1, <3>3 DEF WorkerOK
    <3>4. QED
      BY <3>2, <3>3
  <2>3. QED
    BY <2>1, <2>2
<1>10. WorkerOK'
  BY <1>3, <1>9 DEF WorkerOK, broker, Works, Sent
<1>11. NumbersOK'
  <2>1. ASSUME NEW u \in Versions PROVE version'[u].number <= Cardinality(Rows) + 1
    <3>1. version[u].number \in Nat /\ version[u].number <= Cardinality(Rows)
      BY <1>1 DEF VersionOK, VersionRow, NumbersOK
    <3>2. worker[w].number <= Cardinality(Rows) + 1 /\ worker[w].number \in Nat
      BY <1>1 DEF NumbersOK, Execution
    <3>3. version'[u].number \in {version[u].number, worker[w].number}
      BY <1>1, <1>2 DEF VersionOK
    <3>4. QED
      BY <1>8, <3>1, <3>2, <3>3
  <2>2. ASSUME NEW u \in Workers PROVE worker'[u].number <= Cardinality(Rows) + 2
    <3>1. worker[u].number <= Cardinality(Rows) + 1 /\ worker[u].number \in Nat
      BY <1>1 DEF NumbersOK, WorkerOK, Execution
    <3>2. QED
      BY <1>8, <1>9, <3>1
  <2>3. QED
    BY <1>8, <2>1, <2>2 DEF NumbersOK
<1>12. QED
  BY <1>3, <1>5, <1>6, <1>10, <1>11, TypeParts, Frames DEF TypeInv, broker

\* Only the status of a version's row is written.
LEMMA VersionWritten ==
    ASSUME VersionOK, NEW v \in Versions, NEW status \in {"completed", "failed"},
           version' = [version EXCEPT ![v].status = status]
    PROVE  /\ VersionOK'
           /\ \A u \in Versions : /\ version'[u].job = version[u].job
                                 /\ version'[u].number = version[u].number
                                 /\ version'[u].status = (IF u = v THEN status ELSE version[u].status)
                                 /\ u # v => version'[u] = version[u]
<1>1. \A u \in Versions : version[u] \in VersionRow
  BY DEF VersionOK
<1>2. VersionOK'
  BY DEF VersionOK, VersionRow
<1>3. QED
  BY <1>1, <1>2 DEF VersionOK, VersionRow

\* The record and the failure of a version write a status on its row.
LEMMA OutcomeType ==
    ASSUME TypeInv, NEW w \in Workers, Record(w) \/ FailVersion(w)
    PROVE  TypeInv'
<1>1. VersionOK /\ SpanOK /\ WorkerOK /\ NumbersOK /\ worker[w] \in Execution
  BY TypeParts DEF TypeInv, WorkerOK
<1>2. UNCHANGED <<job, spans, broker, req, history>>
  BY DEF Record, FailVersion
<1>3. \/ UNCHANGED version
      \/ \E v \in Versions, status \in {"completed", "failed"} :
              version' = [version EXCEPT ![v].status = status]
  <2>1. CASE Record(w)
    <3>1. worker[w].version \in Versions
      BY <1>1, <2>1 DEF Record, WorkerOK, Works, Held
    <3>2. QED
      BY <2>1, <3>1 DEF Record
  <2>2. CASE FailVersion(w)
    BY <1>1, <2>2 DEF FailVersion, Execution
  <2>3. QED
    BY <2>1, <2>2
<1>4. VersionOK' /\ \A u \in Versions : version'[u].number = version[u].number
  <2>1. CASE UNCHANGED version
    BY <1>1, <2>1, Frames
  <2>2. ASSUME NEW v \in Versions, NEW status \in {"completed", "failed"},
               version' = [version EXCEPT ![v].status = status]
        PROVE  VersionOK' /\ \A u \in Versions : version'[u].number = version[u].number
    <3>1. VersionOK
      BY <1>1
    <3>2. VersionOK'
      BY <2>2, <3>1, VersionWritten
    <3>3. ASSUME NEW u \in Versions PROVE version'[u].number = version[u].number
      BY <2>2, <3>1, VersionWritten
    <3>4. QED
      BY <3>2, <3>3
  <2>3. QED
    BY <1>3, <2>1, <2>2
<1>5. Cardinality(Rows) <= Cardinality(Rows')
  <2>1. Rows \subseteq Rows'
    <3>1. ASSUME NEW v \in Versions, NEW status \in {"completed", "failed"},
                 version' = [version EXCEPT ![v].status = status],
                 NEW u \in Versions, version[u] # NoRow
          PROVE  version'[u] # NoRow
      BY <1>1, <3>1, VersionWritten DEF NoRow
    <3>2. QED
      BY <1>3, <3>1 DEF Rows
  <2>2. IsFiniteSet(Rows')
    <3>1. Rows' \in SUBSET Versions
      BY DEF Rows
    <3>2. QED
      BY <3>1, VersionsFinite, FS_Subset
  <2>3. QED
    BY <2>1, <2>2, FS_Subset
<1>6. Cardinality(Rows) \in Nat /\ Cardinality(Rows') \in Nat
  <2>1. Rows' \in SUBSET Versions
    BY DEF Rows
  <2>2. QED
    BY <2>1, RowsFinite, VersionsFinite, FS_Subset, FS_CardinalityType
<1>7. PICK e \in Execution : /\ worker' = [worker EXCEPT ![w] = e]
                            /\ Works(e, Sent(task)) /\ e.number <= worker[w].number
  <2>1. CASE Record(w)
    <3> DEFINE e == [worker[w] EXCEPT !.stage = "end"]
    <3>1. Works(worker[w], Sent(task)) /\ worker[w].stage = "record"
      BY <1>1, <2>1 DEF WorkerOK, Record
    <3>2. /\ e \in Execution /\ e.stage = "end" /\ e.task = worker[w].task
          /\ e.version = worker[w].version /\ e.number = worker[w].number
      BY <1>1 DEF Execution, Stages, InTry
    <3>3. worker' = [worker EXCEPT ![w] = e]
      BY <2>1 DEF Record, Goes
    <3> HIDE DEF e
    <3>4. Works(e, Sent(task)) /\ e.number <= worker[w].number
      BY <1>1, <3>1, <3>2 DEF Works, Held, Execution
    <3>5. QED
      BY <3>2, <3>3, <3>4
  <2>2. CASE FailVersion(w)
    <3>1. Works(Free, Sent(task)) /\ Free.number <= worker[w].number
      BY <1>1, FreeType DEF Works, Held, Execution
    <3>2. QED
      BY <2>2, <3>1, FreeType DEF FailVersion, Ends
  <2>3. QED
    BY <2>1, <2>2
<1>8. /\ worker' \in [Workers -> Execution]
      /\ \A u \in Workers : worker'[u].number <= worker[u].number
      /\ \A u \in Workers : Works(worker'[u], Sent(task))
  <2>1. \A u \in Workers : worker[u].number \in Nat /\ Works(worker[u], Sent(task))
    BY <1>1 DEF WorkerOK, Execution
  <2>2. \A u \in Workers : worker'[u] = IF u = w THEN e ELSE worker[u]
    BY <1>1, <1>7 DEF WorkerOK
  <2>3. worker' \in [Workers -> Execution]
    BY <1>1, <1>7 DEF WorkerOK
  <2>4. QED
    BY <1>7, <2>1, <2>2, <2>3
<1>9. WorkerOK'
  BY <1>2, <1>8 DEF WorkerOK, broker, Works, Sent
<1>10. NumbersOK'
  <2>1. ASSUME NEW v \in Versions PROVE version'[v].number <= Cardinality(Rows')
    <3>1. version[v].number \in Nat /\ version[v].number <= Cardinality(Rows)
      BY <1>1 DEF VersionOK, VersionRow, NumbersOK
    <3>2. QED
      BY <1>4, <1>5, <1>6, <3>1
  <2>2. ASSUME NEW u \in Workers PROVE worker'[u].number <= Cardinality(Rows') + 1
    <3>1. worker[u].number \in Nat /\ worker[u].number <= Cardinality(Rows) + 1
      BY <1>1 DEF WorkerOK, Execution, NumbersOK
    <3>2. worker'[u].number \in Nat /\ worker'[u].number <= worker[u].number
      BY <1>8 DEF Execution
    <3>3. QED
      BY <1>5, <1>6, <3>1, <3>2
  <2>3. QED
    BY <2>1, <2>2 DEF NumbersOK
<1>11. SpanOK'
  BY <1>1, <1>2 DEF Record, FailVersion, Consumption, SpanOK, Execution
<1>12. QED
  BY <1>2, <1>4, <1>9, <1>10, <1>11, TypeParts, Frames DEF TypeInv

LEMMA StepTypeInv == TypeInv /\ [Next]_vars => TypeInv'
<1> SUFFICES ASSUME TypeInv, [Next]_vars PROVE TypeInv'
  OBVIOUS
<1>1. CASE UNCHANGED vars
  BY <1>1, TypeParts, Frames DEF TypeInv, vars, tables, broker
<1>2. ASSUME NEW s \in Spans, SpanMoves(s) PROVE TypeInv'
  BY <1>2, SpanType
<1>3. ASSUME NEW j \in Jobs, NEW scope \in RequestedScopes, Submit(j, scope) PROVE TypeInv'
  BY <1>3, SubmitType
<1>4. ASSUME NEW r \in Requests, Endpoint(r) PROVE TypeInv'
  BY <1>4, EndpointType
<1>5. ASSUME NEW t \in Tasks, Discard(t) PROVE TypeInv'
  BY <1>5, DiscardType
<1>6. ASSUME NEW w \in Workers, Work(w) PROVE TypeInv'
  BY <1>6, DeliveryType, MovesType, LoadsType, InsertType, OutcomeType DEF Work
<1>7. QED
  BY <1>1, <1>2, <1>3, <1>4, <1>5, <1>6 DEF Next, SpanMoves

\* Type correctness: what an execution has in hand is a task that was sent for
\* a job and, once inserted, a version. It needs the bound on the numbers, for
\* MAX(version_number) + 1 is a number only when some number is above them all.
THEOREM TypeCorrect == Spec => []TypeOK
<1>1. Init => TypeInv
  BY InitTypeOK DEF TypeInv
<1>2. TypeInv => TypeOK
  BY DEF TypeInv
<1>3. QED
  BY <1>1, <1>2, StepTypeInv, PTL DEF Spec

-----------------------------------------------------------------------------
(* What a step can do to a job, a version, a span, a task, an execution.   *)

LEMMA JobStep ==
    ASSUME TypeInv, [Next]_vars, NEW j \in Jobs
    PROVE  \/ job'[j] = job[j]
           \/ /\ job[j].status = "absent" /\ job'[j].status = "pending_approval"
              /\ job'[j].version = job[j].version
           \/ /\ job'[j].status \in {"queued", "rejected"} /\ job'[j].version = job[j].version
              /\ job[j].status = "pending_approval" \/ j \in overtaken'
           \/ /\ job'[j].status \in {"cancelled", "failed"} /\ job'[j].version = job[j].version
           \/ \E w \in Workers : /\ MarkRunning(w) /\ JobOf(w) = j
                                 /\ job'[j].version = job[j].version
           \/ \E w \in Workers : /\ Complete(w) /\ JobOf(w) = j
                                 /\ job'[j].status = "completed"
                                 /\ job'[j].version = worker[w].version
<1> SUFFICES ASSUME job'[j] # job[j]
             PROVE  \/ /\ job[j].status = "absent" /\ job'[j].status = "pending_approval"
                       /\ job'[j].version = job[j].version
                    \/ /\ job'[j].status \in {"queued", "rejected"}
                       /\ job'[j].version = job[j].version
                       /\ job[j].status = "pending_approval" \/ j \in overtaken'
                    \/ /\ job'[j].status \in {"cancelled", "failed"}
                       /\ job'[j].version = job[j].version
                    \/ \E w \in Workers : /\ MarkRunning(w) /\ JobOf(w) = j
                                          /\ job'[j].version = job[j].version
                    \/ \E w \in Workers : /\ Complete(w) /\ JobOf(w) = j
                                          /\ job'[j].status = "completed"
                                          /\ job'[j].version = worker[w].version
  OBVIOUS
<1>1. job \in [Jobs -> JobRow] /\ job[j] \in JobRow
  BY TypeParts DEF TypeInv, JobOK
<1>2. ~ UNCHANGED job
  OBVIOUS
<1>3. ASSUME NEW i \in Jobs, NEW scope \in RequestedScopes, Submit(i, scope)
      PROVE  /\ job[j].status = "absent" /\ job'[j].status = "pending_approval"
             /\ job'[j].version = job[j].version
  BY <1>1, <1>3 DEF Submit, JobRow
<1>4. ASSUME NEW r \in Requests, ApproveWrite(r) \/ RejectWrite(r)
      PROVE  /\ job'[j].status \in {"queued", "rejected"} /\ job'[j].version = job[j].version
             /\ job[j].status = "pending_approval" \/ j \in overtaken'
  BY <1>1, <1>4 DEF ApproveWrite, RejectWrite, Overtaken, JobRow
<1>5. ASSUME NEW r \in Requests, CancelWrite(r)
      PROVE  /\ job'[j].status \in {"cancelled", "failed"} /\ job'[j].version = job[j].version
  BY <1>1, <1>5 DEF CancelWrite, JobRow
<1>6. ASSUME NEW w \in Workers, ReadFails(w) \/ FailJob(w)
      PROVE  /\ job'[j].status \in {"cancelled", "failed"} /\ job'[j].version = job[j].version
  BY <1>1, <1>6 DEF ReadFails, FailJob, SetStatus, JobRow
<1>7. ASSUME NEW w \in Workers, MarkRunning(w)
      PROVE  JobOf(w) = j /\ job'[j].version = job[j].version
  BY <1>1, <1>7 DEF MarkRunning, SetStatus, JobRow
<1>8. ASSUME NEW w \in Workers, Complete(w)
      PROVE  /\ JobOf(w) = j /\ job'[j].status = "completed"
             /\ job'[j].version = worker[w].version
  BY <1>1, <1>8 DEF Complete, JobRow
<1>9. ASSUME NEW r \in Requests, Endpoint(r)
      PROVE  ApproveWrite(r) \/ RejectWrite(r) \/ CancelWrite(r)
  BY <1>2, <1>9 DEF Endpoint, ApproveSend, RejectRead, CancelRevoke, RequestDies, tables
<1>10. ASSUME NEW w \in Workers, Work(w)
       PROVE  ReadFails(w) \/ FailJob(w) \/ MarkRunning(w) \/ Complete(w)
  BY <1>2, <1>10
     DEF Work, Pick, Redeliver, Killed, ReadStatus, Postpone, GivesUp, Export, CaptureIds,
         TakeNumber, InsertVersion, Record, EndRun, Raises, FailVersion, tables
<1>11. QED
  BY <1>2, <1>3, <1>4, <1>5, <1>6, <1>7, <1>8, <1>9, <1>10
     DEF Next, vars, tables, Confirm, DeleteSpan, PurgeText, StoreText,
         Discard

\* A version's row and what it was trained on.
LEMMA VersionStep ==
    ASSUME TypeInv, [Next]_vars, NEW v \in Versions
    PROVE  \/ version'[v] = version[v] /\ dataset'[v] = dataset[v]
           \/ \E w \in Workers :
                 /\ InsertVersion(w) /\ version[v] = NoRow /\ worker'[w].version = v
                 /\ version'[v] = [job |-> JobOf(w), status |-> "training",
                                   number |-> worker[w].number]
                 /\ dataset'[v] = worker[w].dataset
           \/ /\ version'[v].job = version[v].job /\ version'[v].number = version[v].number
              /\ dataset'[v] = dataset[v]
              /\ \/ /\ version'[v].status = "failed"
                    /\ \E w \in Workers : FailVersion(w) /\ worker[w].version = v
                 \/ /\ version'[v].status = "completed"
                    /\ \E w \in Workers : Record(w) /\ worker[w].version = v
<1>1. /\ version \in [Versions -> VersionRow] /\ version[v] \in VersionRow
      /\ worker \in [Workers -> Execution] /\ dataset \in [Versions -> SUBSET Spans]
  BY TypeParts DEF TypeInv, VersionOK, WorkerOK, HistoryOK
<1>2. CASE UNCHANGED <<version, dataset>>
  BY <1>2
<1>3. ASSUME NEW w \in Workers, InsertVersion(w), version'[v] # version[v] \/ dataset'[v] # dataset[v]
      PROVE  /\ version[v] = NoRow /\ worker'[w].version = v
             /\ version'[v] = [job |-> JobOf(w), status |-> "training",
                               number |-> worker[w].number]
             /\ dataset'[v] = worker[w].dataset
  BY <1>1, <1>3 DEF InsertVersion, Execution
<1>4. ASSUME NEW w \in Workers, Record(w), version'[v] # version[v]
      PROVE  /\ version'[v].job = version[v].job /\ version'[v].number = version[v].number
             /\ dataset'[v] = dataset[v] /\ version'[v].status = "completed"
             /\ worker[w].version = v
  BY <1>1, <1>4 DEF Record, VersionRow, history
<1>5. ASSUME NEW w \in Workers, FailVersion(w), version'[v] # version[v]
      PROVE  /\ version'[v].job = version[v].job /\ version'[v].number = version[v].number
             /\ dataset'[v] = dataset[v] /\ version'[v].status = "failed"
             /\ worker[w].version = v
  BY <1>1, <1>5 DEF FailVersion, VersionRow, history
<1>6. ASSUME NEW w \in Workers, Record(w) \/ FailVersion(w) PROVE dataset'[v] = dataset[v]
  BY <1>6 DEF Record, FailVersion, history
<1>7. ASSUME NEW r \in Requests, Endpoint(r) PROVE UNCHANGED <<version, dataset>>
  BY <1>7 DEF Endpoint, ApproveSend, RejectRead, CancelRevoke, ApproveWrite, RejectWrite,
              CancelWrite, RequestDies, tables, history
<1>8. ASSUME NEW w \in Workers, Work(w)
      PROVE  \/ InsertVersion(w) \/ Record(w) \/ FailVersion(w)
             \/ UNCHANGED <<version, dataset>>
  BY <1>8 DEF Work, Pick, Redeliver, Killed, ReadStatus, ReadFails, Postpone, GivesUp,
              MarkRunning, Export, CaptureIds, TakeNumber, Complete, EndRun, Raises, FailJob,
              tables, history
<1>9. QED
  BY <1>2, <1>3, <1>4, <1>5, <1>6, <1>7, <1>8
     DEF Next, vars, tables, history, Confirm, DeleteSpan, PurgeText, StoreText,
         Submit, Discard

\* A span is consumed by the execution that records its version, until it is deleted.
LEMMA ConsumedStep ==
    ASSUME TypeInv, [Next]_vars, NEW s \in Spans
    PROVE  \/ consumed'[s] = consumed[s]
           \/ \E w \in Workers : /\ Record(w) /\ s \in worker[w].ids /\ consumed[s] = 0
                                 /\ consumed'[s] = worker[w].number
           \/ consumed'[s] = 0 /\ spans'[s] = "deleted"
<1>1. CASE UNCHANGED consumed
  BY <1>1
<1>2. ASSUME NEW w \in Workers, Record(w), consumed'[s] # consumed[s]
      PROVE  s \in worker[w].ids /\ consumed[s] = 0 /\ consumed'[s] = worker[w].number
  BY <1>2 DEF Record, Consumption
<1>3. ASSUME NEW r \in Requests, Endpoint(r) PROVE UNCHANGED consumed
  BY <1>3 DEF Endpoint, ApproveSend, RejectRead, CancelRevoke, ApproveWrite, RejectWrite,
              CancelWrite, RequestDies, tables
<1>4. ASSUME NEW w \in Workers, Work(w) PROVE Record(w) \/ UNCHANGED consumed
  BY <1>4 DEF Work, Pick, Redeliver, Killed, ReadStatus, ReadFails, Postpone, GivesUp,
              MarkRunning, Export, CaptureIds, TakeNumber, InsertVersion, Complete, EndRun,
              Raises, FailJob, FailVersion, tables
<1>5. ASSUME NEW t \in Spans, DeleteSpan(t)
      PROVE  consumed'[s] = consumed[s] \/ (consumed'[s] = 0 /\ spans'[s] = "deleted")
  BY <1>5, TypeParts DEF TypeInv, SpanOK, DeleteSpan
<1>6. QED
  BY <1>1, <1>2, <1>3, <1>4, <1>5
     DEF Next, vars, tables, Confirm, PurgeText, StoreText, Submit, Discard

\* One execution moves at a time.
LEMMA WorkerStep ==
    ASSUME TypeInv, [Next]_vars
    PROVE  \/ UNCHANGED worker
           \/ \E w \in Workers : Work(w) /\ \A u \in Workers \ {w} : worker'[u] = worker[u]
<1>1. worker \in [Workers -> Execution]
  BY TypeParts DEF TypeInv, WorkerOK
<1>2. ASSUME NEW w \in Workers, Work(w)
      PROVE  \A u \in Workers \ {w} : worker'[u] = worker[u]
  BY <1>1, <1>2
     DEF Work, Pick, Redeliver, Killed, ReadStatus, ReadFails, Postpone, GivesUp,
         MarkRunning, Export, CaptureIds, TakeNumber, InsertVersion, Complete, Record, EndRun,
         Raises, FailJob, FailVersion, Ends, Goes
<1>3. ASSUME NEW r \in Requests, Endpoint(r) PROVE UNCHANGED worker
  BY <1>3 DEF Endpoint, ApproveSend, RejectRead, CancelRevoke, ApproveWrite, RejectWrite,
              CancelWrite, RequestDies
<1>4. QED
  BY <1>2, <1>3 DEF Next, vars, Confirm, DeleteSpan, PurgeText, StoreText,
         Submit, Discard

\* A task is sent for one job; what overtook, blinked or was left open stays so.
LEMMA SteadyStep ==
    ASSUME TypeInv, [Next]_vars
    PROVE  /\ \A t \in Sent(task) : task'[t] = task[t]
           /\ overtaken \subseteq overtaken'
           /\ blinked \subseteq blinked' /\ unclosed \subseteq unclosed'
<1>1. \A t \in Sent(task) : task'[t] = task[t]
  <2>1. CASE UNCHANGED task
    BY <2>1
  <2>2. ASSUME NEW r \in Requests, NEW j \in Jobs, ApproveSend(r, j)
        PROVE  \A t \in Sent(task) : task'[t] = task[t]
    BY <2>2, IdentityAssumption, TypeParts DEF TypeInv, ApproveSend, BrokerOK, Sent
  <2>3. ASSUME NEW r \in Requests, Endpoint(r), ~ UNCHANGED task
        PROVE  \E j \in Jobs : ApproveSend(r, j)
    BY <2>3 DEF Endpoint, RejectRead, CancelRevoke, ApproveWrite, RejectWrite, CancelWrite,
                RequestDies, broker
  <2>4. ASSUME NEW w \in Workers, Work(w) PROVE UNCHANGED task
    BY <2>4 DEF Work, Pick, Redeliver, Killed, ReadStatus, ReadFails, Postpone, GivesUp,
                MarkRunning, Export, CaptureIds, TakeNumber, InsertVersion, Complete, Record,
                EndRun, Raises, FailJob, FailVersion, broker
  <2>5. QED
    BY <2>1, <2>2, <2>3, <2>4 DEF Next, vars, broker, Confirm, DeleteSpan, PurgeText, StoreText,
         Submit, Discard
<1>2. /\ overtaken \subseteq overtaken'
      /\ blinked \subseteq blinked' /\ unclosed \subseteq unclosed'
  <2>1. ASSUME NEW r \in Requests, Endpoint(r)
        PROVE  overtaken \subseteq overtaken' /\ UNCHANGED <<blinked, unclosed>>
    BY <2>1 DEF Endpoint, ApproveSend, RejectRead, CancelRevoke, ApproveWrite, RejectWrite,
                CancelWrite, RequestDies, Overtaken, history
  <2>2. ASSUME NEW w \in Workers, Work(w)
        PROVE  UNCHANGED <<overtaken, blinked>> /\ unclosed \subseteq unclosed'
    BY <2>2 DEF Work, Pick, Redeliver, Killed, ReadStatus, ReadFails, Postpone, GivesUp,
                MarkRunning, Export, CaptureIds, TakeNumber, InsertVersion, Complete, Record,
                EndRun, Raises, FailJob, FailVersion, history
  <2>3. ASSUME NEW t \in Spans, SpanMoves(t)
        PROVE  UNCHANGED <<overtaken, unclosed>> /\ blinked \subseteq blinked'
    BY <2>3 DEF SpanMoves, Confirm, DeleteSpan, PurgeText, StoreText, history
  <2>4. QED
    BY <2>1, <2>2, <2>3 DEF Next, vars, history, SpanMoves, Submit, Discard
<1>3. QED
  BY <1>1, <1>2

\* A span is confirmed, deleted for good, or keeps being there; its text goes when it
\* is purged.
LEMMA SpanStep ==
    ASSUME TypeInv, [Next]_vars, NEW s \in Spans
    PROVE  \/ spans'[s] = spans[s]
           \/ spans[s] = "unborn" /\ spans'[s] = "readable"
           \/ spans[s] # "unborn" /\ spans'[s] = "deleted"
           \/ spans[s] = "textless" /\ spans'[s] = "readable"
           \/ spans[s] = "readable" /\ spans'[s] = "textless" /\ PurgeText(s)
<1>1. ASSUME NEW t \in Spans, SpanMoves(t), spans'[s] # spans[s]
      PROVE  \/ spans[s] = "unborn" /\ spans'[s] = "readable"
             \/ spans[s] # "unborn" /\ spans'[s] = "deleted"
             \/ spans[s] = "textless" /\ spans'[s] = "readable"
             \/ spans[s] = "readable" /\ spans'[s] = "textless" /\ PurgeText(s)
  BY <1>1, TypeParts
     DEF TypeInv, SpanOK, SpanMoves, Confirm, DeleteSpan, PurgeText, StoreText, Existing, Readable
<1>2. ASSUME NEW r \in Requests, Endpoint(r) PROVE UNCHANGED spans
  BY <1>2 DEF Endpoint, ApproveSend, RejectRead, CancelRevoke, ApproveWrite, RejectWrite,
              CancelWrite, RequestDies, tables
<1>3. ASSUME NEW w \in Workers, Work(w) PROVE UNCHANGED spans
  BY <1>3 DEF Work, Pick, Redeliver, Killed, ReadStatus, ReadFails, Postpone, GivesUp,
              MarkRunning, Export, CaptureIds, TakeNumber, InsertVersion, Complete, Record,
              EndRun, Raises, FailJob, FailVersion, tables
<1>4. QED
  BY <1>1, <1>2, <1>3 DEF Next, vars, tables, SpanMoves, Submit, Discard

\* How an execution gets from one stage of its try block to the next.
Advance(u) ==
    LET e == worker[u]  f == worker'[u]
    IN  \/ ReadStatus(u) /\ f.stage = "run" /\ ~ Skips(JobOf(u))
        \/ MarkRunning(u) /\ f.stage = "export"
        \/ Export(u) /\ f.stage = "ids" /\ f.dataset = Exported(job[JobOf(u)].scope)
        \/ CaptureIds(u) /\ f.stage = "train" /\ f.dataset = e.dataset /\ f.ids = Readable
        \/ /\ TakeNumber(u) /\ f.stage = "insert" /\ f.dataset = e.dataset /\ f.ids = e.ids
           /\ f.number = NextNumber
        \/ /\ f.dataset = e.dataset /\ f.ids = e.ids /\ f.number = e.number
           /\ \/ InsertVersion(u) /\ f.stage = "complete"
              \/ Complete(u) /\ f.stage = "record" /\ f.version = e.version
              \/ Record(u) /\ f.stage = "end" /\ f.version = e.version

Quiet == {"free", "start", "failing", "failing_version"}

LEMMA HandStep ==
    ASSUME TypeInv, [Next]_vars, NEW u \in Workers
    PROVE  \/ worker'[u].stage \in Quiet
           \/ /\ worker[u].stage # "free" /\ worker'[u].task = worker[u].task
              /\ worker'[u] = worker[u] \/ Advance(u)
<1>1. worker \in [Workers -> Execution] /\ worker[u] \in Execution
  BY TypeParts DEF TypeInv, WorkerOK
<1>2. CASE worker'[u] = worker[u]
  BY <1>2 DEF Quiet
<1>3. CASE Work(u)
  <2>1. CASE \/ \E t \in Tasks : Pick(u, t)
             \/ Killed(u) \/ ReadFails(u) \/ Postpone(u) \/ GivesUp(u) \/ EndRun(u)
             \/ Raises(u) \/ FailJob(u) \/ FailVersion(u)
    <3>1. CASE \E t \in Tasks : Pick(u, t)
      BY <1>1, <3>1 DEF Pick, Free, Quiet
    <3>2. CASE Raises(u) \/ FailJob(u)
      BY <1>1, <3>2 DEF Raises, FailJob, Goes, Quiet, Execution
    <3>3. CASE worker' = [worker EXCEPT ![u] = Free]
      BY <1>1, <3>3 DEF Free, Quiet
    <3>4. QED
      BY <2>1, <3>1, <3>2, <3>3
         DEF Killed, ReadFails, Postpone, GivesUp, EndRun, FailVersion, Ends
  <2>2. CASE Redeliver(u)
    BY <2>2 DEF Redeliver
  <2>3. CASE ReadStatus(u)
    BY <1>1, <2>3 DEF ReadStatus, Ends, Goes, Free, Quiet, Execution, Advance
  <2>4. CASE MarkRunning(u)
    BY <1>1, <2>4 DEF MarkRunning, Goes, Execution, Advance
  <2>5. CASE Export(u)
    BY <1>1, <2>5 DEF Export, Execution, Advance
  <2>6. CASE CaptureIds(u)
    BY <1>1, <2>6 DEF CaptureIds, Execution, Advance
  <2>7. CASE TakeNumber(u)
    BY <1>1, <2>7 DEF TakeNumber, Execution, Advance
  <2>8. CASE InsertVersion(u)
    <3>1. /\ worker'[u].stage = "complete" /\ worker'[u].task = worker[u].task
          /\ worker'[u].dataset = worker[u].dataset /\ worker'[u].ids = worker[u].ids
          /\ worker'[u].number = worker[u].number
      BY <1>1, <2>8 DEF InsertVersion, Execution
    <3>2. QED
      BY <2>8, <3>1 DEF InsertVersion, Advance
  <2>9. CASE Complete(u)
    BY <1>1, <2>9 DEF Complete, Goes, Execution, Advance
  <2>10. CASE Record(u)
    BY <1>1, <2>10 DEF Record, Goes, Execution, Advance
  <2>11. QED
    BY <1>3, <2>1, <2>2, <2>3, <2>4, <2>5, <2>6, <2>7, <2>8, <2>9, <2>10 DEF Work
<1>4. QED
  BY <1>2, <1>3, WorkerStep

\* The job of an execution stays the same while it holds its task.
LEMMA SameJob ==
    ASSUME TypeInv, [Next]_vars, NEW u \in Workers,
           worker[u].stage # "free", worker'[u].task = worker[u].task
    PROVE  JobOf(u)' = JobOf(u) /\ JobOf(u) \in Jobs
<1>1. worker[u].task \in Sent(task) /\ task[worker[u].task] \in Jobs
  BY TypeParts DEF TypeInv, WorkerOK, Works, Sent
<1>2. QED
  BY <1>1, SteadyStep DEF JobOf

-----------------------------------------------------------------------------
(* Jobs, their versions and what these consumed.                           *)

\* An execution that holds a version holds its row, under its job and number,
\* and its job names a version once the execution says so.
HeldInv ==
    \A w \in Workers :
        /\ worker[w].stage \in Held =>
              /\ version[worker[w].version].job = JobOf(w)
              /\ version[worker[w].version].number = worker[w].number
        /\ worker[w].stage \in {"record", "end"} => job[JobOf(w)].version # NoVersion
\* A number belongs to a row, and a row to a job.
OwnedInv == \A v \in Versions : version[v].number # 0 => version[v].job \in Jobs
\* A version is in one hand at most, from its insertion on; it completes there once,
\* and what then fails after it is known (unclosed).
InHand == Held \cup {"failing", "failing_version"}
HandInv ==
    /\ \A w \in Workers : worker[w].version # NoVersion =>
          LET v == worker[w].version
          IN  /\ worker[w].stage \in InHand /\ version[v] # NoRow
              /\ worker[w].stage \in {"complete", "record"} => version[v].status # "completed"
              /\ worker[w].stage \in {"failing", "failing_version"} =>
                    (version[v].status = "completed" => v \in unclosed)
    /\ \A u, w \in Workers :
          worker[u].version # NoVersion /\ worker[u].version = worker[w].version => u = w
LinkInv == HeldInv /\ HandInv /\ OwnedInv /\ CompletedJobNamesItsVersion /\ ConsumptionIsEarned

LEMMA InitLink == Init => LinkInv
BY DEF Init, LinkInv, HeldInv, HandInv, OwnedInv, NoRow, Held, Free,
       CompletedJobNamesItsVersion, ConsumptionIsEarned

\* A version that has a job keeps its job and its number; a job that names a
\* version goes on naming one.
LEMMA RowsStick ==
    ASSUME TypeInv, [Next]_vars
    PROVE  /\ \A v \in Versions : version[v].job # NoJob =>
                 version'[v].job = version[v].job /\ version'[v].number = version[v].number
           /\ \A j \in Jobs : job[j].version # NoVersion => job'[j].version # NoVersion
<1>1. ASSUME NEW v \in Versions, version[v].job # NoJob
      PROVE  version'[v].job = version[v].job /\ version'[v].number = version[v].number
  <2>1. version[v] # NoRow
    BY <1>1 DEF NoRow
  <2>2. QED
    BY <2>1, VersionStep
<1>2. ASSUME NEW j \in Jobs, job[j].version # NoVersion
      PROVE  job'[j].version # NoVersion
  <2>1. ASSUME NEW w \in Workers, Complete(w) PROVE worker[w].version # NoVersion
    BY <2>1, TypeParts, IdentityAssumption DEF TypeInv, WorkerOK, Works, Held, Complete
  <2>2. QED
    BY <1>2, <2>1, JobStep
<1>3. QED
  BY <1>1, <1>2

LEMMA StepHeld ==
    ASSUME TypeInv, HeldInv, [Next]_vars
    PROVE  HeldInv'
<1> SUFFICES ASSUME NEW w \in Workers, worker'[w].stage \in Held
             PROVE  /\ version'[worker'[w].version].job = JobOf(w)'
                    /\ version'[worker'[w].version].number = worker'[w].number
                    /\ worker'[w].stage \in {"record", "end"} => job'[JobOf(w)'].version # NoVersion
  BY DEF HeldInv, Held
<1>1. /\ worker[w].stage # "free" /\ worker'[w].task = worker[w].task
      /\ worker'[w] = worker[w] \/ Advance(w)
  BY HandStep DEF Held, Quiet
<1>2. JobOf(w)' = JobOf(w) /\ JobOf(w) \in Jobs /\ JobOf(w) # NoJob
  BY <1>1, SameJob, IdentityAssumption
<1>3. \/ /\ worker[w].stage \in Held /\ worker'[w].version = worker[w].version
         /\ worker'[w].number = worker[w].number
         /\ \/ worker'[w].stage = worker[w].stage
            \/ Complete(w) \/ Record(w)
      \/ InsertVersion(w) /\ worker'[w].stage = "complete" /\ worker'[w].number = worker[w].number
  BY <1>1 DEF Advance, Held, Complete, Record
<1>4. CASE worker[w].stage \in Held /\ worker'[w].version = worker[w].version
           /\ worker'[w].number = worker[w].number
  <2>1. /\ worker[w].version \in Versions /\ version[worker[w].version].job = JobOf(w)
        /\ version[worker[w].version].number = worker[w].number
    BY <1>4, TypeParts DEF TypeInv, WorkerOK, Works, HeldInv
  <2>2. /\ version'[worker[w].version].job = JobOf(w)
        /\ version'[worker[w].version].number = worker[w].number
    BY <1>2, <2>1, RowsStick
  <2>3. ASSUME worker'[w].stage \in {"record", "end"} PROVE job'[JobOf(w)].version # NoVersion
    <3>1. CASE worker[w].stage \in {"record", "end"}
      BY <1>2, <3>1, RowsStick DEF HeldInv
    <3>2. CASE Complete(w)
      <4>1. job'[JobOf(w)].version = worker[w].version
        BY <1>2, <3>2, TypeParts DEF TypeInv, JobOK, JobRow, Complete
      <4>2. QED
        BY <2>1, <4>1, IdentityAssumption
    <3>3. QED
      BY <1>3, <1>4, <2>3, <3>1, <3>2 DEF Record, InsertVersion, Held
  <2>4. QED
    BY <1>2, <1>4, <2>2, <2>3
<1>5. CASE InsertVersion(w) /\ worker'[w].stage = "complete" /\ worker'[w].number = worker[w].number
  <2>1. PICK v \in Versions :
            /\ version' = [version EXCEPT ![v] = [job |-> JobOf(w), status |-> "training",
                                                  number |-> worker[w].number]]
            /\ worker' = [worker EXCEPT ![w].stage = "complete", ![w].version = v]
    BY <1>5 DEF InsertVersion
  <2>2. worker'[w].version = v
    BY <2>1, TypeParts DEF TypeInv, WorkerOK, Execution
  <2>3. version'[v].job = JobOf(w) /\ version'[v].number = worker[w].number
    BY <2>1, TypeParts DEF TypeInv, VersionOK
  <2>4. QED
    BY <1>2, <1>5, <2>2, <2>3
<1>6. QED
  BY <1>3, <1>4, <1>5

LEMMA StepOwned ==
    ASSUME TypeInv, OwnedInv, [Next]_vars
    PROVE  OwnedInv'
<1> SUFFICES ASSUME NEW v \in Versions, version'[v].number # 0
             PROVE  version'[v].job \in Jobs
  BY DEF OwnedInv
<1>1. CASE version'[v].job = version[v].job /\ version'[v].number = version[v].number
  BY <1>1 DEF OwnedInv
<1>2. ASSUME NEW w \in Workers, InsertVersion(w), version'[v].job = JobOf(w)
      PROVE  version'[v].job \in Jobs
  <2>1. worker[w].stage # "free"
    BY <1>2 DEF InsertVersion
  <2>2. QED
    BY <1>2, <2>1, TypeParts, WorksFor DEF TypeInv
<1>3. \/ version'[v].job = version[v].job /\ version'[v].number = version[v].number
      \/ \E w \in Workers : InsertVersion(w) /\ version'[v].job = JobOf(w)
  <2>1. CASE version'[v] = version[v]
    BY <2>1
  <2>2. CASE \E w \in Workers :
                /\ InsertVersion(w)
                /\ version'[v] = [job |-> JobOf(w), status |-> "training",
                                  number |-> worker[w].number]
    BY <2>2
  <2>3. QED
    BY <2>1, <2>2, VersionStep
<1>4. QED
  BY <1>1, <1>2, <1>3

LEMMA StepNames ==
    ASSUME TypeInv, LinkInv, [Next]_vars
    PROVE  CompletedJobNamesItsVersion'
<1> SUFFICES ASSUME NEW j \in Jobs
             PROVE  /\ job'[j].status = "completed" => job'[j].version # NoVersion
                    /\ job'[j].version # NoVersion => version'[job'[j].version].job = j
  BY DEF CompletedJobNamesItsVersion
<1>1. job[j].version \in Versions \cup {NoVersion} /\ j # NoJob
  BY TypeParts, IdentityAssumption DEF TypeInv, JobOK, JobRow
<1>2. CASE job'[j].version = job[j].version /\ (job'[j].status = "completed" => job[j].status = "completed")
  BY <1>1, <1>2, RowsStick DEF LinkInv, CompletedJobNamesItsVersion
<1>3. ASSUME NEW w \in Workers, Complete(w), JobOf(w) = j, job'[j].version = worker[w].version
      PROVE  job'[j].version # NoVersion /\ version'[job'[j].version].job = j
  <2>1. worker[w].version \in Versions /\ version[worker[w].version].job = j
    BY <1>3, TypeParts DEF TypeInv, WorkerOK, Works, Held, Complete, LinkInv, HeldInv
  <2>2. QED
    BY <1>1, <1>3, <2>1, RowsStick, IdentityAssumption
<1>4. ASSUME NEW w \in Workers, MarkRunning(w), JobOf(w) = j PROVE job'[j].status = "running"
  BY <1>4, TypeParts DEF TypeInv, JobOK, JobRow, MarkRunning, SetStatus
<1>5. QED
  BY <1>2, <1>3, <1>4, JobStep

\* What a step does to the version an execution has in hand.
LEMMA HandMoves ==
    ASSUME TypeInv, HandInv, [Next]_vars, NEW u \in Workers, worker'[u].version # NoVersion
    PROVE  \/ worker'[u] = worker[u]
           \/ /\ InsertVersion(u) /\ worker'[u].stage = "complete"
              /\ version[worker'[u].version] = NoRow
           \/ /\ worker'[u].version = worker[u].version
              /\ \/ Complete(u) /\ worker'[u].stage = "record"
                 \/ Record(u) /\ worker'[u].stage = "end"
                 \/ Raises(u) /\ worker'[u].stage = "failing"
                 \/ FailJob(u) /\ worker'[u].stage = "failing_version"
<1>1. worker \in [Workers -> Execution] /\ worker[u] \in Execution
  BY TypeParts DEF TypeInv, WorkerOK
<1>2. CASE Work(u)
  <2>1. CASE \/ \E t \in Tasks : Pick(u, t)
             \/ Killed(u) \/ ReadFails(u) \/ Postpone(u) \/ GivesUp(u) \/ EndRun(u)
             \/ FailVersion(u)
    <3>1. CASE \E t \in Tasks : Pick(u, t)
      BY <1>1, <3>1 DEF Pick, Free
    <3>2. CASE worker' = [worker EXCEPT ![u] = Free]
      BY <1>1, <3>2 DEF Free
    <3>3. QED
      BY <2>1, <3>1, <3>2 DEF Killed, ReadFails, Postpone, GivesUp, EndRun, FailVersion, Ends
  <2>2. CASE Redeliver(u)
    BY <2>2 DEF Redeliver
  <2>3. CASE \/ ReadStatus(u) \/ MarkRunning(u) \/ Export(u) \/ CaptureIds(u) \/ TakeNumber(u)
    <3>1. worker[u].stage \notin InHand
      BY <2>3 DEF ReadStatus, MarkRunning, Export, CaptureIds, TakeNumber, InHand, Held
    <3>2. worker[u].version = NoVersion
      BY <3>1 DEF HandInv
    <3>3. worker'[u].version \in {worker[u].version, NoVersion}
      BY <1>1, <2>3 DEF ReadStatus, MarkRunning, Export, CaptureIds, TakeNumber, Ends, Goes,
                        Free, Execution
    <3>4. QED
      BY <3>2, <3>3
  <2>4. CASE InsertVersion(u)
    <3>1. PICK n \in Versions :
              /\ version[n] = NoRow
              /\ worker' = [worker EXCEPT ![u].stage = "complete", ![u].version = n]
      BY <2>4 DEF InsertVersion
    <3>2. worker'[u].version = n /\ worker'[u].stage = "complete"
      BY <1>1, <3>1 DEF Execution
    <3>3. QED
      BY <2>4, <3>1, <3>2
  <2>5. CASE Complete(u) \/ Record(u) \/ Raises(u) \/ FailJob(u)
    <3>1. \/ Complete(u) /\ Goes(u, "record")
          \/ Record(u) /\ Goes(u, "end")
          \/ Raises(u) /\ Goes(u, "failing")
          \/ FailJob(u) /\ Goes(u, "failing_version")
      BY <2>5 DEF Complete, Record, Raises, FailJob
    <3>2. ASSUME NEW stage, Goes(u, stage)
          PROVE  worker'[u].stage = stage /\ worker'[u].version = worker[u].version
      BY <1>1, <3>2 DEF Goes, Execution
    <3>3. QED
      BY <3>1, <3>2
  <2>6. QED
    BY <1>2, <2>1, <2>2, <2>3, <2>4, <2>5 DEF Work
<1>3. QED
  BY <1>2, WorkerStep

LEMMA StepHand ==
    ASSUME TypeInv, HandInv, [Next]_vars
    PROVE  HandInv'
<1>1. \A u \in Workers : worker[u] \in Execution
  BY TypeParts DEF TypeInv, WorkerOK
<1>2. \A v \in Versions : version[v] # NoRow => version'[v] # NoRow
  <2>1. ASSUME NEW v \in Versions, version[v] # NoRow, version'[v] # version[v]
        PROVE  version'[v].status \in {"failed", "completed"}
    BY <2>1, VersionStep
  <2>2. \A row : row.status \in {"failed", "completed"} => row # NoRow
    BY DEF NoRow
  <2>3. QED
    BY <2>1, <2>2
<1>3. ASSUME NEW u \in Workers, worker'[u].version # NoVersion
      PROVE  LET v == worker'[u].version
             IN  /\ worker'[u].stage \in InHand /\ version'[v] # NoRow
                 /\ worker'[u].stage \in {"complete", "record"} => version'[v].status # "completed"
                 /\ worker'[u].stage \in {"failing", "failing_version"} =>
                       (version'[v].status = "completed" => v \in unclosed')
  <2> DEFINE v == worker'[u].version
  <2>1. CASE worker'[u] = worker[u]
    <3>1. v \in Versions /\ version[v] # NoRow /\ worker[u].stage \in InHand
      BY <1>1, <1>3, <2>1 DEF HandInv, Execution
    <3>2. ASSUME NEW w \in Workers, Record(w), worker[w].version = v
          PROVE  worker'[u].stage = "end"
      <4>1. w = u
        BY <1>3, <2>1, <3>2 DEF HandInv
      <4>2. QED
        BY <1>1, <3>2, <4>1, TypeParts DEF TypeInv, WorkerOK, Record, Goes, Execution
    <3>3. version'[v].status = "completed" => \/ version[v].status = "completed"
                                              \/ worker'[u].stage = "end"
      <4>1. \/ version'[v] = version[v]
            \/ version'[v].status \in {"training", "failed"}
            \/ \E w \in Workers : Record(w) /\ worker[w].version = v
        BY <3>1, VersionStep
      <4>2. QED
        BY <3>2, <4>1
    <3>4. unclosed \subseteq unclosed'
      BY SteadyStep
    <3>5. QED
      BY <1>2, <1>3, <2>1, <3>1, <3>3, <3>4 DEF HandInv
  <2>2. CASE InsertVersion(u) /\ worker'[u].stage = "complete" /\ version[v] = NoRow
    <3>1. PICK n \in Versions :
              /\ version' = [version EXCEPT ![n] = [job |-> JobOf(u), status |-> "training",
                                                    number |-> worker[u].number]]
              /\ worker' = [worker EXCEPT ![u].stage = "complete", ![u].version = n]
      BY <2>2 DEF InsertVersion
    <3>2. v = n /\ version'[n].status = "training"
      BY <3>1, TypeParts DEF TypeInv, WorkerOK, VersionOK, Execution
    <3>3. QED
      BY <2>2, <3>2 DEF InHand, Held, NoRow
  <2>3. CASE worker'[u].version = worker[u].version
             /\ \/ Complete(u) /\ worker'[u].stage = "record"
                \/ Record(u) /\ worker'[u].stage = "end"
                \/ Raises(u) /\ worker'[u].stage = "failing"
                \/ FailJob(u) /\ worker'[u].stage = "failing_version"
    <3>1. v \in Versions /\ version[v] # NoRow
      BY <1>1, <1>3, <2>3 DEF HandInv, Execution
    <3>2. CASE Record(u) /\ worker'[u].stage = "end"
      BY <1>2, <3>1, <3>2 DEF InHand, Held
    <3>3. CASE Complete(u) /\ worker'[u].stage = "record"
      BY <1>3, <2>3, <3>1, <3>3 DEF HandInv, Complete, InHand, Held
    <3>4. CASE Raises(u) /\ worker'[u].stage = "failing"
      <4>1. worker[u].stage \in {"complete", "record", "end"} /\ UNCHANGED version
        BY <1>3, <2>3, <3>4 DEF HandInv, Raises, InTry, InHand, Held, tables
      <4>2. worker[u].stage = "end" => v \in unclosed'
        BY <2>3, <3>4 DEF Raises
      <4>3. QED
        BY <1>3, <2>3, <3>1, <3>4, <4>1, <4>2 DEF HandInv, InHand
    <3>5. CASE FailJob(u) /\ worker'[u].stage = "failing_version"
      BY <1>3, <2>3, <3>1, <3>5 DEF HandInv, FailJob, InHand, history
    <3>6. QED
      BY <2>3, <3>2, <3>3, <3>4, <3>5
  <2>4. QED
    BY <1>3, <2>1, <2>2, <2>3, HandMoves
<1>4. ASSUME NEW u \in Workers, NEW w \in Workers, worker'[u].version # NoVersion,
             worker'[u].version = worker'[w].version, u # w
      PROVE  FALSE
  <2>1. \A n \in {u, w} : worker'[n].version = worker[n].version \/ InsertVersion(n)
    BY <1>4, HandMoves
  <2>2. ASSUME NEW m \in {u, w}, NEW n \in {u, w}, m # n, InsertVersion(m) PROVE FALSE
    <3>1. worker'[n] = worker[n]
      BY <1>1, <2>2, TypeParts DEF TypeInv, WorkerOK, InsertVersion
    <3>2. version[worker'[m].version] = NoRow
      BY <2>2, TypeParts DEF TypeInv, WorkerOK, InsertVersion, Execution
    <3>3. version[worker[n].version] # NoRow
      BY <1>4, <3>1 DEF HandInv
    <3>4. QED
      BY <1>4, <2>2, <3>1, <3>2, <3>3
  <2>3. QED
    BY <1>4, <2>1, <2>2 DEF HandInv
<1>5. QED
  BY <1>3, <1>4 DEF HandInv

LEMMA StepEarned ==
    ASSUME TypeInv, LinkInv, [Next]_vars
    PROVE  ConsumptionIsEarned'
<1> SUFFICES ASSUME NEW s \in Spans, consumed'[s] # 0
             PROVE  \E v \in Versions : /\ version'[v].number = consumed'[s]
                                        /\ version'[v].status = "completed" \/ v \in unclosed'
                                        /\ job'[version'[v].job].version # NoVersion
  BY DEF ConsumptionIsEarned, Consumer
<1>1. CASE consumed'[s] = consumed[s]
  <2>1. PICK v \in Versions : /\ version[v].number = consumed[s]
                              /\ version[v].status = "completed" \/ v \in unclosed
                              /\ job[version[v].job].version # NoVersion
    BY <1>1 DEF LinkInv, ConsumptionIsEarned, Consumer
  <2>2. version[v] # NoRow
    BY <1>1, <2>1 DEF NoRow
  <2>3. version'[v].job = version[v].job /\ version'[v].number = version[v].number
    BY <2>2, VersionStep
  <2>4. version'[v].status = "completed" \/ v \in unclosed'
    <3>1. ASSUME NEW w \in Workers, FailVersion(w), worker[w].version = v,
                 version[v].status = "completed"
          PROVE  v \in unclosed
      BY <3>1, IdentityAssumption DEF LinkInv, HandInv, FailVersion
    <3>2. unclosed \subseteq unclosed'
      BY SteadyStep
    <3>3. QED
      BY <2>1, <2>2, <3>1, <3>2, VersionStep
  <2>5. version[v].job \in Jobs
    BY <1>1, <2>1 DEF LinkInv, OwnedInv
  <2>6. QED
    BY <1>1, <2>1, <2>3, <2>4, <2>5, RowsStick
<1>2. ASSUME NEW w \in Workers, Record(w), consumed'[s] = worker[w].number
      PROVE  \E v \in Versions : /\ version'[v].number = consumed'[s]
                                 /\ version'[v].status = "completed" \/ v \in unclosed'
                                 /\ job'[version'[v].job].version # NoVersion
  <2> DEFINE v == worker[w].version
  <2>1. /\ v \in Versions /\ version[v].job = JobOf(w) /\ version[v].number = worker[w].number
        /\ job[JobOf(w)].version # NoVersion /\ JobOf(w) \in Jobs
    BY <1>2, TypeParts, WorksFor DEF TypeInv, WorkerOK, Works, Held, Record, LinkInv, HeldInv
  <2>2. /\ version'[v].job = version[v].job /\ version'[v].number = version[v].number
        /\ version'[v].status = "completed"
    BY <1>2, <2>1, TypeParts DEF TypeInv, VersionOK, VersionRow, Record
  <2>3. UNCHANGED job
    BY <1>2 DEF Record
  <2>4. QED
    BY <1>2, <2>1, <2>2, <2>3
<1>3. QED
  BY <1>1, <1>2, ConsumedStep

LEMMA StepLink == TypeInv /\ LinkInv /\ [Next]_vars => LinkInv'
BY StepHeld, StepHand, StepOwned, StepNames, StepEarned DEF LinkInv

LEMMA LinkHolds == Spec => [](TypeInv /\ LinkInv)
<1>1. Init => TypeInv
  BY InitTypeOK DEF TypeInv
<1>2. QED
  BY <1>1, InitLink, StepTypeInv, StepLink, PTL DEF Spec

\* A completed job names a version and the version was trained for it, whatever
\* requests, redeliveries and crashes come between (fine_tune_model).
THEOREM CompletedNames == Spec => []CompletedJobNamesItsVersion
<1>1. TypeInv /\ LinkInv => CompletedJobNamesItsVersion
  BY DEF LinkInv
<1>2. QED
  BY <1>1, LinkHolds, PTL

\* A span is consumed on behalf of a version that completed (and failed later only
\* where its MLflow run could not be closed) and whose job names a version
\* (record_consumed_spans), with any number of workers.
THEOREM ConsumptionEarned == Spec => []ConsumptionIsEarned
<1>1. TypeInv /\ LinkInv => ConsumptionIsEarned
  BY DEF LinkInv
<1>2. QED
  BY <1>1, LinkHolds, PTL

-----------------------------------------------------------------------------
(* The retry guard, for the deployment's one worker process.               *)

\* docker-compose runs one Celery worker with --concurrency=1.
OneWorker == \A v, w \in Workers : v = w

DoneFor(v, j) == version[v].job = j /\ version[v].status = "completed"
Training == InTry \ {"end"}

\* Unless a decision overtook it, a job with a completed version is over, and an
\* execution that trains or records works for a job without one; the job of an
\* execution about to record is over already.
GuardInv ==
    /\ \A j \in Jobs \ overtaken, v \in Versions :
          DoneFor(v, j) => job[j].status \in Terminal
    /\ \A w \in Workers : worker[w].stage \in Training /\ JobOf(w) \notin overtaken =>
          \A v \in Versions : ~ DoneFor(v, JobOf(w))
    /\ \A w \in Workers : worker[w].stage = "record" /\ JobOf(w) \notin overtaken =>
          job[JobOf(w)].status \in Terminal
    /\ \A j \in Jobs \ overtaken, u, v \in Versions : DoneFor(u, j) /\ DoneFor(v, j) => u = v

LEMMA InitGuard == Init => GuardInv
BY DEF Init, GuardInv, DoneFor, NoRow, Free, Training, InTry

\* A version is completed by the execution that holds it.
LEMMA DoneStep ==
    ASSUME TypeInv, LinkInv, [Next]_vars, NEW v \in Versions, NEW j \in Jobs, DoneFor(v, j)'
    PROVE  \/ DoneFor(v, j)
           \/ \E w \in Workers : Record(w) /\ worker[w].version = v /\ JobOf(w) = j
<1>1. version'[v].job = j /\ version'[v].status = "completed"
  BY DEF DoneFor
<1>2. CASE version'[v] = version[v]
  BY <1>1, <1>2 DEF DoneFor
<1>3. CASE version'[v].status # "completed"
  BY <1>1, <1>3
<1>4. ASSUME NEW w \in Workers, Record(w), worker[w].version = v,
             version'[v].job = version[v].job
      PROVE  JobOf(w) = j
  BY <1>1, <1>4 DEF LinkInv, HeldInv, Held, Record
<1>5. \/ version'[v] = version[v] \/ version'[v].status # "completed"
      \/ \E w \in Workers : /\ Record(w) /\ worker[w].version = v
                            /\ version'[v].job = version[v].job
  <2>1. [job |-> NoJob, status |-> "training", number |-> 0].status # "completed"
    OBVIOUS
  <2>2. ASSUME NEW w \in Workers,
               version'[v] = [job |-> JobOf(w), status |-> "training",
                              number |-> worker[w].number]
        PROVE  version'[v].status # "completed"
    BY <2>2
  <2>3. QED
    BY <2>2, VersionStep
<1>6. QED
  BY <1>2, <1>3, <1>4, <1>5

\* Recording ends the try block.
LEMMA RecordEnds ==
    ASSUME TypeInv, NEW w \in Workers, Record(w)
    PROVE  worker'[w].stage = "end" /\ UNCHANGED <<job, task>>
BY TypeParts DEF TypeInv, WorkerOK, Execution, Record, Goes, broker

LEMMA StepGuard ==
    ASSUME OneWorker, TypeInv, LinkInv, GuardInv, [Next]_vars
    PROVE  GuardInv'
<1>1. \A j : j \notin overtaken' => j \notin overtaken
  BY SteadyStep
<1>2. ASSUME NEW j \in Jobs \ overtaken', NEW v \in Versions, DoneFor(v, j)'
      PROVE  job'[j].status \in Terminal
  <2>1. ASSUME DoneFor(v, j) PROVE job'[j].status \in Terminal
    <3>1. job[j].status \in Terminal
      BY <1>1, <1>2, <2>1 DEF GuardInv
    <3>2. ASSUME NEW w \in Workers, MarkRunning(w), JobOf(w) = j PROVE FALSE
      BY <1>1, <1>2, <2>1, <3>2 DEF GuardInv, MarkRunning, Training, InTry
    <3>3. QED
      BY <1>2, <3>1, <3>2, JobStep DEF Terminal
  <2>2. ASSUME NEW w \in Workers, Record(w), JobOf(w) = j PROVE job'[j].status \in Terminal
    BY <1>1, <1>2, <2>2, RecordEnds DEF GuardInv, Record
  <2>3. QED
    BY <1>2, <2>1, <2>2, DoneStep
<1>3. ASSUME NEW w \in Workers, worker'[w].stage \in Training, JobOf(w)' \notin overtaken'
      PROVE  \A v \in Versions : ~ (DoneFor(v, JobOf(w))')
  <2>1. /\ worker[w].stage # "free" /\ worker'[w].task = worker[w].task
        /\ worker'[w] = worker[w] \/ Advance(w)
    BY <1>3, HandStep DEF Training, InTry, Quiet
  <2>2. JobOf(w)' = JobOf(w) /\ JobOf(w) \in Jobs /\ JobOf(w) \notin overtaken
    BY <1>1, <1>3, <2>1, SameJob
  <2>3. \A u \in Workers : ~ Record(u)
    BY <1>3, RecordEnds DEF OneWorker, Training
  <2>4. \A v \in Versions : ~ DoneFor(v, JobOf(w))
    <3>1. CASE worker[w].stage \in Training
      BY <2>2, <3>1 DEF GuardInv
    <3>2. CASE ReadStatus(w) /\ ~ Skips(JobOf(w))
      BY <2>2, <3>2 DEF GuardInv, Skips
    <3>3. QED
      BY <1>3, <2>1, <3>1, <3>2
         DEF Advance, MarkRunning, Export, CaptureIds, TakeNumber, InsertVersion, Complete,
             Record, Training, InTry
  <2>5. ASSUME NEW v \in Versions, DoneFor(v, JobOf(w))' PROVE FALSE
    <3> DEFINE j == JobOf(w)
    <3>1. version'[v].job = j /\ version'[v].status = "completed"
      BY <2>2, <2>5 DEF DoneFor
    <3>2. \A i \in Jobs : version'[v].job = i => DoneFor(v, i)
      BY <2>3, <3>1, DoneStep DEF DoneFor
    <3>3. QED
      BY <2>2, <2>4, <3>1, <3>2
  <2>6. QED
    BY <2>5
<1>4. ASSUME NEW w \in Workers, worker'[w].stage = "record", JobOf(w)' \notin overtaken'
      PROVE  job'[JobOf(w)'].status \in Terminal
  <2>1. /\ worker[w].stage # "free" /\ worker'[w].task = worker[w].task
        /\ worker'[w] = worker[w] \/ Advance(w)
    BY <1>4, HandStep DEF Quiet
  <2>2. JobOf(w)' = JobOf(w) /\ JobOf(w) \in Jobs /\ JobOf(w) \notin overtaken
    BY <1>1, <1>4, <2>1, SameJob
  <2>3. CASE Complete(w)
    BY <2>2, <2>3, TypeParts DEF TypeInv, JobOK, JobRow, Complete, Terminal
  <2>4. CASE worker'[w] = worker[w]
    <3>1. job[JobOf(w)].status \in Terminal
      BY <1>4, <2>2, <2>4 DEF GuardInv
    <3>2. \A u \in Workers : ~ MarkRunning(u)
      BY <1>4, <2>4 DEF OneWorker, MarkRunning
    <3>3. QED
      BY <1>4, <2>2, <3>1, <3>2, JobStep DEF Terminal
  <2>5. QED
    BY <1>4, <2>1, <2>3, <2>4 DEF Advance
<1>5. ASSUME NEW j \in Jobs \ overtaken', NEW u \in Versions, NEW v \in Versions,
             DoneFor(u, j)', DoneFor(v, j)'
      PROVE  u = v
  <2>1. CASE DoneFor(u, j) /\ DoneFor(v, j)
    BY <1>1, <1>5, <2>1 DEF GuardInv
  <2>2. ASSUME NEW w \in Workers, Record(w), JobOf(w) = j
        PROVE  ~ DoneFor(u, j) /\ ~ DoneFor(v, j)
    BY <1>1, <1>5, <2>2 DEF GuardInv, Record, Training, InTry
  <2>3. QED
    BY <1>5, <2>1, <2>2, DoneStep DEF OneWorker
<1>6. QED
  BY <1>2, <1>3, <1>4, <1>5 DEF GuardInv

\* With one worker process a job that no decision overtook gets one completed
\* version at most, however often its messages are redelivered, its worker
\* killed and its runs failed (the status read that opens fine_tune_model).
THEOREM RetryGuarded == OneWorker => (Spec => []RetryGuard)
<1> SUFFICES ASSUME OneWorker PROVE Spec => []RetryGuard
  OBVIOUS
<1>1. GuardInv => RetryGuard
  <2> SUFFICES ASSUME GuardInv, NEW j \in Jobs \ overtaken
               PROVE  Cardinality({v \in Versions : DoneFor(v, j)}) <= 1
    BY DEF RetryGuard, DoneFor
  <2> DEFINE D == {v \in Versions : DoneFor(v, j)}
  <2>1. CASE D = {}
    BY <2>1, FS_EmptySet
  <2>2. CASE D # {}
    <3>1. PICK v \in Versions : v \in D
      BY <2>2
    <3>2. D = {v}
      BY <3>1 DEF GuardInv
    <3>3. Cardinality({v}) = 1
      BY FS_Singleton
    <3>4. QED
      BY <3>2, <3>3
  <2>3. QED
    BY <2>1, <2>2
<1>2. Init => TypeInv
  BY InitTypeOK DEF TypeInv
<1>3. TypeInv /\ LinkInv /\ GuardInv /\ [Next]_vars => GuardInv'
  BY StepGuard
<1>4. QED
  BY <1>1, <1>2, <1>3, InitLink, InitGuard, StepTypeInv, StepLink, PTL DEF Spec

-----------------------------------------------------------------------------
(* The accounting of consumed spans, for one worker process.               *)

\* The spans that count: those that are there and kept their text between the export
\* and the ids.
Counting == Existing \ blinked
WithData == {"train", "insert", "complete", "record"}

\* What an execution trains on are spans that were confirmed, and those that count are
\* among the ids it will record; its version was trained on what it has in hand; its
\* number is positive, above every number before its row is inserted, and not below
\* one afterwards.
DataInv ==
    /\ \A w \in Workers :
        /\ worker[w].stage \in WithData \cup {"ids"} =>
              \A s \in worker[w].dataset : spans[s] # "unborn"
        /\ worker[w].stage = "ids" => worker[w].dataset \cap Counting \subseteq Readable
        /\ worker[w].stage \in WithData => worker[w].dataset \cap Counting \subseteq worker[w].ids
        /\ worker[w].stage \in {"complete", "record"} =>
              dataset[worker[w].version] = worker[w].dataset
        /\ worker[w].stage \in {"insert", "complete", "record"} => worker[w].number >= 1
        /\ worker[w].stage = "insert" =>
              \A v \in Versions : version[v].number < worker[w].number
        /\ worker[w].stage \in {"complete", "record"} =>
              \A v \in Versions : version[v].number <= worker[w].number
    /\ \A v \in Versions : \A s \in dataset[v] : spans[s] # "unborn"

LEMMA InitData == Init => DataInv /\ TrainedIsConsumed
BY DEF Init, DataInv, WithData, Free, TrainedIsConsumed, NoRow

\* Only inserting gives a version a number.
LEMMA NumberStep ==
    ASSUME TypeInv, [Next]_vars, NEW v \in Versions
    PROVE  \/ version'[v].number = version[v].number
           \/ \E w \in Workers : InsertVersion(w) /\ version'[v].number = worker[w].number
<1>1. CASE version'[v] = version[v]
  BY <1>1
<1>2. CASE \E w \in Workers : /\ InsertVersion(w)
                              /\ version'[v] = [job |-> JobOf(w), status |-> "training",
                                                number |-> worker[w].number]
  BY <1>2
<1>3. QED
  BY <1>1, <1>2, VersionStep

\* A span that was confirmed counts after a step only if it counted before.
LEMMA BornStep ==
    ASSUME TypeInv, [Next]_vars, NEW s \in Spans, spans[s] # "unborn"
    PROVE  spans'[s] # "unborn" /\ (s \in Counting' => s \in Counting)
<1>1. spans'[s] # "unborn"
  BY SpanStep
<1>2. ASSUME s \in Counting' PROVE s \in Counting
  <2>1. spans'[s] \in {"readable", "textless"} /\ s \notin blinked
    BY <1>2, SteadyStep DEF Counting, Existing
  <2>2. spans[s] \in {"readable", "textless"}
    BY <2>1, SpanStep
  <2>3. QED
    BY <2>1, <2>2 DEF Counting, Existing
<1>3. QED
  BY <1>1, <1>2

\* The part of DataInv that an execution's stage asks for, after a step.
LEMMA StepData ==
    ASSUME OneWorker, TypeInv, LinkInv, DataInv, [Next]_vars
    PROVE  DataInv'
<1>0. \A v \in Versions : \A s \in dataset'[v] : spans'[s] # "unborn"
  <2> SUFFICES ASSUME NEW v \in Versions, NEW s \in dataset'[v] PROVE spans'[s] # "unborn"
    OBVIOUS
  <2>1. CASE dataset'[v] = dataset[v]
    BY <2>1, BornStep, TypeParts DEF DataInv, TypeInv, HistoryOK
  <2>2. ASSUME NEW w \in Workers, InsertVersion(w), dataset'[v] = worker[w].dataset
        PROVE  spans'[s] # "unborn"
    <3>1. s \in worker[w].dataset /\ worker[w].stage = "insert"
      BY <2>2 DEF InsertVersion
    <3>2. s \in Spans /\ spans[s] # "unborn"
      BY <3>1, TypeParts DEF DataInv, WithData, TypeInv, WorkerOK, Execution
    <3>3. QED
      BY <3>2, BornStep
  <2>3. QED
    BY <2>1, <2>2, VersionStep
<1> SUFFICES ASSUME NEW w \in Workers, worker'[w].stage \notin Quiet
             PROVE
        /\ worker'[w].stage \in WithData \cup {"ids"} =>
              \A s \in worker'[w].dataset : spans'[s] # "unborn"
        /\ worker'[w].stage = "ids" => worker'[w].dataset \cap Counting' \subseteq Readable'
        /\ worker'[w].stage \in WithData =>
              worker'[w].dataset \cap Counting' \subseteq worker'[w].ids
        /\ worker'[w].stage \in {"complete", "record"} =>
              dataset'[worker'[w].version] = worker'[w].dataset
        /\ worker'[w].stage \in {"insert", "complete", "record"} => worker'[w].number >= 1
        /\ worker'[w].stage = "insert" =>
              \A v \in Versions : version'[v].number < worker'[w].number
        /\ worker'[w].stage \in {"complete", "record"} =>
              \A v \in Versions : version'[v].number <= worker'[w].number
  BY <1>0 DEF DataInv, Quiet, WithData
<1>1. worker'[w] = worker[w] \/ Advance(w)
  BY HandStep
<1>2. /\ worker[w] \in Execution /\ \A v \in Versions : version[v].number \in Nat
      /\ worker[w].stage \in Held => worker[w].version \in Versions
  BY TypeParts DEF TypeInv, WorkerOK, Works, VersionOK, VersionRow
<1>3. ASSUME worker[w].stage \in WithData \cup {"ids"}
      PROVE  /\ \A s \in worker[w].dataset : spans'[s] # "unborn"
             /\ worker[w].dataset \cap Counting' \subseteq Counting
  <2>1. worker[w].dataset \subseteq Spans /\ \A s \in worker[w].dataset : spans[s] # "unborn"
    BY <1>2, <1>3 DEF DataInv, Execution
  <2>2. QED
    BY <2>1, BornStep
<1>4. ASSUME ~ InsertVersion(w) PROVE \A v \in Versions : version'[v].number = version[v].number
  BY <1>4, NumberStep DEF OneWorker
<1>5. ASSUME worker[w].stage \in {"complete", "record"}
      PROVE  dataset'[worker[w].version] = dataset[worker[w].version]
  <2>1. \A u \in Workers : ~ InsertVersion(u)
    BY <1>5 DEF OneWorker, InsertVersion
  <2>2. QED
    BY <1>2, <1>5, <2>1, VersionStep DEF Held
<1>6. CASE worker'[w] = worker[w]
  <2>1. ~ InsertVersion(w)
    <3>1. InsertVersion(w) => worker'[w].stage = "complete" /\ worker[w].stage = "insert"
      BY TypeParts DEF TypeInv, WorkerOK, InsertVersion, Execution
    <3>2. QED
      BY <1>6, <3>1
  <2>2. QED
    <3>1. CASE worker[w].stage = "ids"
      <4>1. ASSUME NEW s \in worker[w].dataset \cap Counting' PROVE s \in Readable'
        <5>1. s \in Spans /\ spans[s] = "readable" /\ s \in Counting'
          BY <1>2, <1>3, <3>1, <4>1 DEF DataInv, Readable, Execution
        <5>2. ~ PurgeText(s)
          BY <3>1, <4>1 DEF PurgeText, Counting
        <5>3. spans'[s] \in {"readable", "textless"}
          BY <4>1 DEF Counting, Existing
        <5>4. QED
          BY <5>1, <5>2, <5>3, SpanStep DEF Readable
      <4>2. QED
        BY <1>3, <1>6, <3>1, <4>1 DEF WithData
    <3>2. CASE worker[w].stage # "ids"
      BY <1>3, <1>4, <1>5, <1>6, <2>1, <3>2 DEF DataInv, WithData
    <3>3. QED
      BY <3>1, <3>2
<1>7. CASE Advance(w)
  <2>1. CASE Export(w) /\ worker'[w].stage = "ids" /\ worker'[w].dataset = Exported(job[JobOf(w)].scope)
    <3>1. worker[w].stage = "export"
      BY <2>1 DEF Export
    <3>2. job[JobOf(w)].scope \in Scopes
      BY <3>1, TypeParts, WorksFor DEF TypeInv, JobOK, JobRow
    <3>3. Exported(job[JobOf(w)].scope) \subseteq Readable /\ UNCHANGED spans
      BY <2>1, <3>2 DEF Exported, Scopes, Export, tables
    <3>4. Readable' = Readable
      BY <3>3 DEF Readable
    <3>5. QED
      BY <2>1, <3>3, <3>4 DEF Readable, WithData
  <2>2. CASE /\ CaptureIds(w) /\ worker'[w].stage = "train"
             /\ worker'[w].dataset = worker[w].dataset /\ worker'[w].ids = Readable
    BY <1>3, <2>2 DEF CaptureIds, DataInv, WithData
  <2>3. CASE /\ TakeNumber(w) /\ worker'[w].stage = "insert" /\ worker'[w].ids = worker[w].ids
             /\ worker'[w].dataset = worker[w].dataset /\ worker'[w].number = NextNumber
    <3>1. /\ \A v \in Versions : version[v].number < NextNumber
          /\ NextNumber >= 1
      BY <1>2, NextNumberIs, RowsFinite DEF TypeInv
    <3>2. UNCHANGED version /\ worker[w].stage = "train"
      BY <2>3 DEF TakeNumber, tables
    <3>3. QED
      BY <1>3, <2>3, <3>1, <3>2 DEF DataInv, WithData
  <2>4. CASE /\ InsertVersion(w) /\ worker'[w].stage = "complete"
             /\ worker'[w].dataset = worker[w].dataset /\ worker'[w].ids = worker[w].ids
             /\ worker'[w].number = worker[w].number
    <3>1. PICK v \in Versions :
              /\ version' = [version EXCEPT ![v] = [job |-> JobOf(w), status |-> "training",
                                                    number |-> worker[w].number]]
              /\ dataset' = [dataset EXCEPT ![v] = worker[w].dataset]
              /\ worker' = [worker EXCEPT ![w].stage = "complete", ![w].version = v]
      BY <2>4 DEF InsertVersion
    <3>2. worker'[w].version = v /\ dataset'[v] = worker[w].dataset
      BY <3>1, TypeParts DEF TypeInv, WorkerOK, Execution, HistoryOK
    <3>3. /\ worker[w].stage = "insert" /\ worker[w].number >= 1 /\ worker[w].number \in Nat
          /\ \A u \in Versions : version[u].number < worker[w].number
          /\ worker[w].dataset \cap Counting \subseteq worker[w].ids
      BY <1>2, <2>4 DEF InsertVersion, DataInv, WithData, Execution
    <3>4. ASSUME NEW u \in Versions PROVE version'[u].number <= worker[w].number
      <4>1. version'[u].number \in {version[u].number, worker[w].number}
        BY <3>1, TypeParts DEF TypeInv, VersionOK
      <4>2. QED
        BY <1>2, <3>3, <4>1
    <3>5. QED
      BY <1>3, <2>4, <3>2, <3>3, <3>4 DEF WithData
  <2>5. CASE /\ Complete(w) /\ worker'[w].stage = "record" /\ worker'[w].version = worker[w].version
             /\ worker'[w].dataset = worker[w].dataset /\ worker'[w].ids = worker[w].ids
             /\ worker'[w].number = worker[w].number
    <3>1. worker[w].stage = "complete" /\ ~ InsertVersion(w)
      BY <2>5 DEF Complete, InsertVersion
    <3>2. QED
      BY <1>3, <1>4, <1>5, <2>5, <3>1 DEF DataInv, WithData
  <2>6. QED
    BY <1>7, <2>1, <2>2, <2>3, <2>4, <2>5 DEF Advance, WithData
<1>8. QED
  BY <1>1, <1>6, <1>7

LEMMA StepTrained ==
    ASSUME OneWorker, TypeInv, LinkInv, DataInv, TrainedIsConsumed, [Next]_vars
    PROVE  TrainedIsConsumed'
<1> SUFFICES ASSUME NEW v \in Versions, version'[v].status = "completed",
                    NEW s \in dataset'[v], s \in Counting'
             PROVE  consumed'[s] \in 1..version'[v].number
  BY DEF TrainedIsConsumed, Counting
<1>1. /\ \A t \in Spans : consumed[t] \in Nat
      /\ version[v].number \in Nat /\ dataset[v] \subseteq Spans
  BY TypeParts DEF TypeInv, SpanOK, VersionOK, VersionRow, HistoryOK
<1>2. \/ version[v].status = "completed"
      \/ \E w \in Workers : Record(w) /\ worker[w].version = v
  <2>1. ASSUME NEW w \in Workers,
               version'[v] = [job |-> JobOf(w), status |-> "training",
                              number |-> worker[w].number]
        PROVE  FALSE
    BY <2>1
  <2>2. QED
    BY <2>1, VersionStep
<1>3. version'[v].number = version[v].number /\ dataset'[v] = dataset[v]
  <2>1. ASSUME NEW w \in Workers, InsertVersion(w),
               version'[v] = [job |-> JobOf(w), status |-> "training",
                              number |-> worker[w].number]
        PROVE  FALSE
    BY <2>1
  <2>2. QED
    BY <2>1, VersionStep
<1>8. s \in Spans /\ s \in Counting
  <2>1. s \in dataset[v] /\ s \in Spans
    BY <1>1, <1>3
  <2>2. spans[s] # "unborn"
    BY <2>1 DEF DataInv
  <2>3. QED
    BY <2>1, <2>2, BornStep
<1>4. CASE version[v].status = "completed"
  <2>1. s \in Spans /\ consumed[s] \in 1..version[v].number
    BY <1>3, <1>4, <1>8 DEF TrainedIsConsumed, Counting
  <2>2. consumed'[s] = consumed[s]
    BY <2>1, ConsumedStep DEF Counting, Existing
  <2>3. QED
    BY <1>3, <2>1, <2>2
<1>5. ASSUME NEW w \in Workers, Record(w), worker[w].version = v
      PROVE  consumed'[s] \in 1..version'[v].number
  <2>1. worker[w].stage = "record"
    BY <1>5 DEF Record
  <2>2. /\ s \in worker[w].ids /\ s \in Spans /\ worker[w].number = version[v].number
        /\ version[v].number >= 1
    BY <1>1, <1>3, <1>5, <1>8, <2>1 DEF DataInv, WithData, LinkInv, HeldInv, Held
  <2>3. CASE consumed[s] = 0
    <3>1. consumed'[s] = worker[w].number
      BY <1>5, <2>2, <2>3 DEF Record, Consumption
    <3>2. QED
      BY <1>1, <1>3, <2>2, <3>1
  <2>4. CASE consumed[s] # 0
    <3>1. PICK u \in Versions : version[u].number = consumed[s]
      BY <2>2, <2>4 DEF LinkInv, ConsumptionIsEarned, Consumer
    <3>2. consumed[s] <= version[v].number
      BY <2>1, <2>2, <3>1 DEF DataInv
    <3>3. consumed'[s] = consumed[s]
      BY <1>5, <2>2, <2>4 DEF Record, Consumption
    <3>4. QED
      BY <1>1, <1>3, <2>2, <2>4, <3>2, <3>3
  <2>5. QED
    BY <2>3, <2>4
<1>6. QED
  BY <1>2, <1>4, <1>5

\* With one worker process, what a completed version was trained on counts as
\* consumed, by it or by a version before it, for as long as the span is there,
\* whichever spans are confirmed, deleted or without text while it is trained and
\* however often its job is run (_DATASET_SPAN_IDS_SQL, record_consumed_spans); but
\* for a span whose text was purged between the export and the query for the ids.
THEOREM TrainedConsumed == OneWorker => (Spec => []TrainedIsConsumed)
<1> SUFFICES ASSUME OneWorker PROVE Spec => []TrainedIsConsumed
  OBVIOUS
<1>1. Init => TypeInv
  BY InitTypeOK DEF TypeInv
<1>2. TypeInv /\ LinkInv /\ DataInv /\ [Next]_vars => DataInv'
  BY StepData
<1>3. TypeInv /\ LinkInv /\ DataInv /\ TrainedIsConsumed /\ [Next]_vars => TrainedIsConsumed'
  BY StepTrained
<1>4. QED
  BY <1>1, <1>2, <1>3, InitLink, InitData, StepTypeInv, StepLink, PTL DEF Spec
=============================================================================
