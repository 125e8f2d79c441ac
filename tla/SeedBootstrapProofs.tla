------------------------ MODULE SeedBootstrapProofs ------------------------
(***************************************************************************)
(* Proofs about SeedBootstrap for every number of documents, batches,      *)
(* requests, suggestions and reviews: type correctness, that no suggestion *)
(* is lost, that the suggestions an accepted review promotes were given a  *)
(* verdict, and that a completed batch's state adds up and is promoted     *)
(* once.                                                                   *)
(***************************************************************************)
EXTENDS SeedBootstrap, FiniteSetTheorems, WellFoundedInduction, TLAPS

-----------------------------------------------------------------------------
(* What the operators of the model return.                                 *)

\* A run finds nothing or one suggestion, of its document and with a new number.
LEMMA FindsIs ==
    ASSUME made \in 0..MaxMade, NEW d \in Docs, NEW found \in Finds(d)
    PROVE  /\ found \subseteq Suggestion
           /\ \A s \in found : s.n = made + 1
           /\ made + Cardinality(found) \in made..MaxMade
<1>1. CASE found = {}
  <2>1. Cardinality(found) = 0
    BY <1>1, FS_EmptySet
  <2>2. QED
    BY <1>1, <2>1, BoundsAssumption
<1>2. CASE found # {}
  <2>1. PICK n \in {made + 1} \cap 1..MaxMade : found = {[doc |-> d, n |-> n]}
    BY <1>2 DEF Finds
  <2>2. Cardinality(found) = 1
    BY <2>1, FS_Singleton
  <2>3. QED
    BY <2>1, <2>2, BoundsAssumption DEF Suggestion
<1>3. QED
  BY <1>1, <1>2

\* A set of naturals up to m that is not empty has a greatest element.
LEMMA Greatest ==
    ASSUME NEW m \in Nat, NEW S \in SUBSET (1..m), S # {}
    PROVE  \E v \in S : \A u \in S : u <= v
<1> DEFINE R == OpToRel(<, Nat)
           T == {n \in Nat : \A u \in S : u <= n}
<1>1. IsWellFoundedOn(R, Nat)
  BY NatLessThanWellFounded
<1>2. m \in T
  OBVIOUS
<1>3. PICK n \in T : \A k \in T : <<k, n>> \notin R
  <2> HIDE DEF R
  <2>1. T \subseteq Nat /\ T # {}
    BY <1>2
  <2>2. QED
    BY <1>1, <2>1, WFMin
<1>4. \A k \in T : ~ (k < n)
  BY <1>3 DEF OpToRel
<1>5. n \in S
  <2>1. SUFFICES ASSUME n \notin S PROVE FALSE
    OBVIOUS
  <2>2. n >= 1 /\ n \in Nat
    <3>1. PICK u \in S : TRUE
      OBVIOUS
    <3>2. u \in 1..m /\ u <= n /\ n \in Nat
      BY <1>3
    <3>3. QED
      BY <3>2
  <2>3. ASSUME NEW u \in S PROVE u <= n - 1
    <3>1. u \in 1..m /\ u <= n /\ n \in Nat /\ u # n
      BY <1>3, <2>1
    <3>2. QED
      BY <3>1
  <2>4. n - 1 \in T
    BY <2>2, <2>3
  <2>5. QED
    BY <1>4, <2>2, <2>4
<1>6. QED
  BY <1>3, <1>5

\* The latest review of a batch that has one.
LEMMA LatestIs ==
    ASSUME NEW b, ReviewsOf(b) # {}
    PROVE  Latest(b) \in Reviews /\ review[Latest(b)] # NoReview /\ review[Latest(b)].batch = b
<1>1. ReviewsOf(b) \in SUBSET (1..MaxReviews)
  BY DEF ReviewsOf, Reviews
<1>2. \E v \in ReviewsOf(b) : \A u \in ReviewsOf(b) : u <= v
  BY <1>1, Greatest, BoundsAssumption
<1>3. Latest(b) \in ReviewsOf(b)
  BY <1>2 DEF Latest
<1>4. QED
  BY <1>3 DEF ReviewsOf

-----------------------------------------------------------------------------
(* What every action is shown to preserve; TypeOK is its conjunction.      *)

SuggOK == /\ sugg \subseteq Suggestion /\ made \in 0..MaxMade
          /\ spans \subseteq Span
BatchOK == batch \in [Batches -> BatchRow] /\ autos \in [Large -> Nat] /\ queue \subseteq Batches
OutcomeOK == /\ outcome = [b \in Batches |-> outcome[b]]
             /\ \A b \in Batches : outcome[b] \in [batch[b].docs -> {"pending", "succeeded", "failed"}]
ReviewOK == review \in [Reviews -> {NoReview} \cup Verdict] /\ stamped \in 0..MaxReviews

\* The locals of a request, by the stage it is in.
Judging == {"gather", "reject", "accept"}
ReqRow(q) ==
    /\ q.stage \in {"idle", "prelabel", "promote", "draw"} \cup Judging
    /\ q.stage = "prelabel" => q.doc \in Docs /\ q.seen \subseteq Suggestion
    /\ q.stage = "promote" => q.suggestion \in Suggestion
    /\ q.stage \in {"draw"} \cup Judging => q.batch \in Initial /\ q.review \in Reviews
    /\ q.stage \in Judging =>
          /\ q.gate.reviewed \subseteq Suggestion /\ q.gate.asOf \in Nat
    /\ q.stage = "accept" => q.seen \subseteq Suggestion
ReqOK == req = [r \in Requests |-> req[r]] /\ \A r \in Requests : ReqRow(req[r])

\* A review that is being decided is there.
JudgesOK == \A r \in Requests : req[r].stage \in Judging => review[req[r].review] # NoReview

\* The locals of the worker.
LoopRow == [stage : {"loop"}, batch : Batches, todo : SUBSET Docs, succeeded : Nat, failed : Nat]
ReplaceRow == [stage : {"replace"}, batch : Batches, todo : SUBSET Docs, succeeded : Nat,
               failed : Nat, doc : Docs, seen : SUBSET Suggestion]
PromoteRow == [stage : {"promote"}, batch : Batches, todo : SUBSET Suggestion, succeeded : Nat,
               failed : Nat]
WorkerOK == worker \in {Free} \cup LoopRow \cup ReplaceRow \cup PromoteRow

TypeInv == SuggOK /\ BatchOK /\ OutcomeOK /\ ReviewOK /\ ReqOK /\ JudgesOK /\ WorkerOK

LEMMA TypeParts == TypeInv => TypeOK
BY DEF TypeInv, TypeOK, SuggOK, BatchOK, OutcomeOK, ReviewOK

LEMMA Constants ==
    /\ Absent \in BatchRow /\ Absent.docs = {} /\ Absent.status = "absent"
    /\ Free.stage = "free" /\ Idle.stage = "idle" /\ ReqRow(Idle)
BY DEF Absent, BatchRow, Free, Idle, ReqRow, Judging

\* The stage the worker is in says which locals it has.
LEMMA WorkerIs ==
    ASSUME WorkerOK
    PROVE  /\ worker.stage = "loop" => worker \in LoopRow
           /\ worker.stage = "replace" => worker \in ReplaceRow
           /\ worker.stage = "promote" => worker \in PromoteRow
           /\ worker # Free => worker.batch \in Batches
                               /\ worker.stage \in {"loop", "replace", "promote"}
BY Constants DEF WorkerOK, LoopRow, ReplaceRow, PromoteRow

LEMMA InitType == Init => TypeInv
<1> SUFFICES ASSUME Init PROVE TypeInv
  OBVIOUS
<1>1. SuggOK
  BY BoundsAssumption DEF Init, SuggOK
<1>2. BatchOK
  BY Constants DEF Init, BatchOK
<1>3. OutcomeOK
  BY Constants DEF Init, OutcomeOK
<1>4. ReviewOK
  BY BoundsAssumption DEF Init, ReviewOK
<1>5. ReqOK
  BY Constants DEF Init, ReqOK
<1>6. JudgesOK
  BY Constants DEF Init, JudgesOK, Judging
<1>7. QED
  BY <1>1, <1>2, <1>3, <1>4, <1>5, <1>6 DEF Init, TypeInv, WorkerOK

-----------------------------------------------------------------------------
(* The types.                                                              *)

LEMMA Replaced ==
    ASSUME SuggOK, NEW d \in Docs, NEW seen, NEW found \in Finds(d), Replace(seen, found),
           spans' = spans
    PROVE  SuggOK'
<1>1. /\ found \subseteq Suggestion /\ made + Cardinality(found) \in made..MaxMade
      /\ made \in 0..MaxMade
  BY FindsIs DEF SuggOK
<1>2. made' \in 0..MaxMade
  BY <1>1, BoundsAssumption DEF Replace
<1>3. sugg' \subseteq Suggestion
  BY <1>1 DEF Replace, SuggOK
<1>4. QED
  BY <1>2, <1>3 DEF SuggOK

LEMMA Promoted ==
    ASSUME SuggOK, NEW seen \in SUBSET Suggestion, NEW by \in {Hand, AutoPromoted} \cup Reviews,
           Promote(seen, by), made' = made
    PROVE  SuggOK'
<1>1. {[of |-> s, by |-> by] : s \in seen} \subseteq Span
  BY DEF Span
<1>2. QED
  BY <1>1 DEF Promote, SuggOK

\* The actions of a request that only read.
Reads(r) == \/ \E d \in Docs : Prelabel(r, d)
            \/ \E s \in sugg : PromoteOne(r, s)
            \/ \E b \in Initial : Accept(r, b)
            \/ Gather(r) \/ RequestDies(r)

\* The actions that change neither rows nor reviews.
Stops == Raises \/ Dies \/ Redeliver

LEMMA Steps ==
    Next <=> \/ \E b \in Batches : Begin(b)
             \/ \E d \in Docs : DocumentFails(d) \/ Extract(d)
             \/ ExtractWrite \/ Finish \/ FinishPromote \/ Stops
             \/ \E b \in Batches, docs \in (SUBSET Docs) \ {{}} : Create(b, docs)
             \/ \E b \in Initial : Submit(b)
             \/ \E r \in Requests :
                   \/ Reads(r) \/ PrelabelWrite(r) \/ PromoteOneWrite(r)
                   \/ \E b \in Initial : Start(r, b)
                   \/ Draw(r) \/ Reject(r) \/ AcceptWrite(r)
BY DEF Next, Work, Request, Reads, Stops

LEMMA ReadsLeave ==
    ASSUME NEW r \in Requests, Reads(r)
    PROVE  UNCHANGED <<sugg, spans, batch, outcome, review, autos, queue, worker, stamped, made>>
BY DEF Reads, Prelabel, PromoteOne, Accept, Gather, RequestDies, tables, clocks

LEMMA StopsLeave ==
    ASSUME Stops
    PROVE  UNCHANGED <<sugg, spans, batch, outcome, review, autos, req, stamped, made>>
BY DEF Stops, Raises, Dies, Redeliver, tables, clocks

LEMMA StepSugg == TypeInv /\ [Next]_vars => SuggOK'
<1> SUFFICES ASSUME TypeInv, [Next]_vars PROVE SuggOK'
  OBVIOUS
<1>1. SuggOK /\ ReqOK /\ WorkerOK /\ \A r \in Requests : ReqRow(req[r])
  BY DEF TypeInv, ReqOK
<1>2. ASSUME UNCHANGED <<sugg, spans, made>> PROVE SuggOK'
  BY <1>1, <1>2 DEF SuggOK
<1>3. CASE UNCHANGED vars
  BY <1>2, <1>3 DEF vars, tables, clocks
<1>4. CASE Next
  <2>1. CASE ExtractWrite
    <3>1. worker.doc \in Docs /\ spans' = spans
      BY <1>1, <2>1, WorkerIs DEF ExtractWrite, ReplaceRow
    <3>2. PICK found \in Finds(worker.doc) : Replace(worker.seen, found)
      BY <2>1 DEF ExtractWrite
    <3>3. QED
      BY <1>1, <3>1, <3>2, Replaced
  <2>2. CASE FinishPromote
    <3>1. worker.todo \in SUBSET Suggestion /\ Promote(worker.todo, AutoPromoted) /\ made' = made
      BY <1>1, <2>2, WorkerIs DEF FinishPromote, PromoteRow, clocks
    <3>2. QED
      BY <1>1, <3>1, Promoted
  <2>3. ASSUME NEW r \in Requests, PrelabelWrite(r) PROVE SuggOK'
    <3>1. req[r].doc \in Docs /\ spans' = spans
      BY <1>1, <2>3 DEF PrelabelWrite, ReqRow
    <3>2. PICK found \in Finds(req[r].doc) : Replace(req[r].seen, found)
      BY <2>3 DEF PrelabelWrite
    <3>3. QED
      BY <1>1, <3>1, <3>2, Replaced
  <2>4. ASSUME NEW r \in Requests, PromoteOneWrite(r) PROVE SuggOK'
    <3>1. req[r].suggestion \in Suggestion /\ Promote({req[r].suggestion}, Hand) /\ made' = made
      BY <1>1, <2>4 DEF PromoteOneWrite, ReqRow, clocks
    <3>2. QED
      BY <1>1, <3>1, Promoted
  <2>5. ASSUME NEW r \in Requests, AcceptWrite(r) PROVE SuggOK'
    <3>1. /\ req[r].seen \in SUBSET Suggestion /\ req[r].review \in Reviews /\ made' = made
          /\ Promote(req[r].seen, req[r].review)
      BY <1>1, <2>5 DEF AcceptWrite, ReqRow, Judging, clocks
    <3>2. QED
      BY <1>1, <3>1, Promoted
  <2>6. ASSUME NEW r \in Requests, Reads(r) PROVE SuggOK'
    BY <1>2, <2>6, ReadsLeave
  <2>7. CASE Stops
    BY <1>2, <2>7, StopsLeave
  <2>8. CASE \/ \E b \in Batches : Begin(b)
             \/ \E d \in Docs : DocumentFails(d) \/ Extract(d)
             \/ Finish
             \/ \E b \in Batches, docs \in (SUBSET Docs) \ {{}} : Create(b, docs)
    BY <1>2, <2>8 DEF Begin, DocumentFails, Extract, Finish, Create, tables, clocks
  <2>9. CASE \/ \E b \in Initial : Submit(b)
             \/ \E r \in Requests : (\E b \in Initial : Start(r, b)) \/ Draw(r) \/ Reject(r)
    BY <1>2, <2>9 DEF Submit, Start, Draw, Reject, tables, clocks
  <2>10. QED
    BY <1>4, <2>1, <2>2, <2>3, <2>4, <2>5, <2>6, <2>7, <2>8, <2>9, Steps
<1>5. QED
  BY <1>3, <1>4

\* One document's outcome is written.
LEMMA Marks ==
    ASSUME TypeInv, batch' = batch, NEW d,
           NEW status \in {"pending", "succeeded", "failed"},
           worker # Free, outcome' = Marked(d, status)
    PROVE  /\ OutcomeOK'
           /\ \A b \in Batches : \A e \in batch[b].docs :
                 b # worker.batch \/ e # d => outcome'[b][e] = outcome[b][e]
           /\ d \in batch[worker.batch].docs => outcome'[worker.batch][d] = status
<1>1. OutcomeOK /\ worker.batch \in Batches
  BY WorkerIs DEF TypeInv
<1>2. outcome' = [outcome EXCEPT ![worker.batch] = [outcome[worker.batch] EXCEPT ![d] = status]]
  BY DEF Marked
<1>3. /\ \A b \in Batches : b # worker.batch => outcome'[b] = outcome[b]
      /\ outcome'[worker.batch] = [outcome[worker.batch] EXCEPT ![d] = status]
      /\ outcome' = [b \in Batches |-> outcome'[b]]
  BY <1>1, <1>2 DEF OutcomeOK
<1>4. outcome[worker.batch] \in [batch[worker.batch].docs -> {"pending", "succeeded", "failed"}]
  BY <1>1 DEF OutcomeOK
<1> DEFINE f == outcome[worker.batch]
           g == [f EXCEPT ![d] = status]
           D == batch[worker.batch].docs
<1>5. f \in [D -> {"pending", "succeeded", "failed"}]
  BY <1>4
<1> HIDE DEF f, D
<1>6. /\ g \in [D -> {"pending", "succeeded", "failed"}]
      /\ d \in D => g[d] = status
      /\ \A e \in D : e # d => g[e] = f[e]
  BY <1>5
<1>7. QED
  BY <1>1, <1>3, <1>6 DEF OutcomeOK, f, D

\* The fields of a batch's row change and its documents do not.
LEMMA Updated ==
    ASSUME OutcomeOK, batch \in [Batches -> BatchRow], NEW b \in Batches, NEW row \in BatchRow,
           row.docs = batch[b].docs, batch' = [batch EXCEPT ![b] = row], outcome' = outcome
    PROVE  batch' \in [Batches -> BatchRow] /\ OutcomeOK'
<1>1. \A a \in Batches : batch'[a].docs = batch[a].docs
  OBVIOUS
<1>2. QED
  BY <1>1 DEF OutcomeOK

LEMMA CompletedIs ==
    ASSUME TypeInv, NEW b \in Batches
    PROVE  /\ Completed(b) \in BatchRow
           /\ [Completed(b) EXCEPT !.eligible = TRUE, !.approved = TRUE] \in BatchRow
           /\ Completed(b).docs = batch[b].docs /\ Completed(b).status = "completed"
           /\ Completed(b).eligible = batch[b].eligible
           /\ Completed(b).state = StateOf(worker.succeeded, worker.failed)
<1>1. batch[b] \in BatchRow
  BY DEF TypeInv, BatchOK
<1>2. StateOf(worker.succeeded, worker.failed) \in {"completed", "partially_completed", "failed"}
  BY DEF StateOf
<1>3. QED
  BY <1>1, <1>2 DEF Completed, BatchRow

\* What Finish and FinishPromote write.
LEMMA FinishIs ==
    ASSUME TypeInv, Finish \/ FinishPromote
    PROVE  /\ worker # Free /\ worker.batch \in Batches
           /\ \/ /\ Finish /\ Claims(worker.batch) /\ batch' = batch /\ autos' = autos
                 /\ worker' = [worker EXCEPT !.stage = "promote",
                                             !.todo = Of(batch[worker.batch].docs)]
              \/ /\ Finish /\ ~Claims(worker.batch) /\ worker' = Free /\ autos' = autos
                 /\ batch' = [batch EXCEPT ![worker.batch] = Completed(worker.batch)]
              \/ /\ FinishPromote /\ worker' = Free
                 /\ autos' = [autos EXCEPT ![worker.batch] = @ + 1]
                 /\ batch' = [batch EXCEPT ![worker.batch] =
                         [Completed(worker.batch) EXCEPT !.eligible = TRUE, !.approved = TRUE]]
           /\ outcome' = outcome /\ queue' = queue
<1>1. worker # Free
  BY Constants DEF Finish, FinishPromote
<1>2. worker.batch \in Batches
  BY <1>1, WorkerIs DEF TypeInv
<1>3. QED
  BY <1>1, <1>2 DEF Finish, FinishPromote

\* The actions that leave the rows of batches and documents alone.
LEMMA RowsLeft ==
    ASSUME Next
    PROVE  \/ \E b \in Batches : Begin(b)
           \/ \E d \in Docs : DocumentFails(d)
           \/ ExtractWrite \/ Finish \/ FinishPromote
           \/ \E b \in Batches, docs \in (SUBSET Docs) \ {{}} : Create(b, docs)
           \/ \E r \in Requests : AcceptWrite(r)
           \/ Stops /\ UNCHANGED <<batch, outcome, autos>>
           \/ UNCHANGED <<batch, outcome, autos, queue>>
<1>1. ASSUME NEW d \in Docs, Extract(d) PROVE UNCHANGED <<batch, outcome, autos, queue>>
  BY <1>1 DEF Extract, tables
<1>2. CASE \E b \in Initial : Submit(b)
  BY <1>2 DEF Submit
<1>3. ASSUME NEW r \in Requests,
             \/ PrelabelWrite(r) \/ PromoteOneWrite(r) \/ (\E b \in Initial : Start(r, b))
             \/ Draw(r) \/ Reject(r)
      PROVE  UNCHANGED <<batch, outcome, autos, queue>>
  BY <1>3 DEF PrelabelWrite, PromoteOneWrite, Start, Draw, Reject, tables
<1>4. ASSUME NEW r \in Requests, Reads(r) PROVE UNCHANGED <<batch, outcome, autos, queue>>
  BY <1>4, ReadsLeave
<1>5. CASE Stops
  BY <1>5, StopsLeave
<1>6. QED
  BY <1>1, <1>2, <1>3, <1>4, <1>5, Steps

LEMMA StepBatch == TypeInv /\ [Next]_vars => BatchOK' /\ OutcomeOK'
<1> SUFFICES ASSUME TypeInv, [Next]_vars PROVE BatchOK' /\ OutcomeOK'
  OBVIOUS
<1>1. BatchOK /\ OutcomeOK /\ ReqOK /\ WorkerOK
  BY DEF TypeInv
<1>2. batch \in [Batches -> BatchRow] /\ autos \in [Large -> Nat] /\ queue \subseteq Batches
  BY <1>1 DEF BatchOK
<1>3. ASSUME UNCHANGED <<batch, outcome, autos>>, queue' \subseteq Batches
      PROVE  BatchOK' /\ OutcomeOK'
  BY <1>1, <1>3 DEF BatchOK, OutcomeOK
<1>4. CASE UNCHANGED vars
  BY <1>2, <1>3, <1>4 DEF vars, tables
<1>5. CASE Next
  <2>1. ASSUME NEW b \in Batches, NEW docs \in SUBSET Docs, Create(b, docs)
        PROVE  BatchOK' /\ OutcomeOK'
    <3> DEFINE row == [Absent EXCEPT !.status = "queued", !.state = "queued", !.docs = docs]
    <3>1. row \in BatchRow /\ row.docs = docs
      BY Constants DEF BatchRow
    <3>2. /\ batch' = [batch EXCEPT ![b] = row] /\ autos' = autos
          /\ outcome' = [outcome EXCEPT ![b] = [d \in docs |-> "pending"]]
          /\ queue' \subseteq queue \cup {b}
      BY <2>1 DEF Create
    <3> HIDE DEF row
    <3>3. BatchOK'
      BY <1>2, <3>1, <3>2 DEF BatchOK
    <3>4. \A a \in Batches : outcome'[a] \in [batch'[a].docs -> {"pending", "succeeded", "failed"}]
      BY <1>1, <1>2, <3>1, <3>2 DEF OutcomeOK
    <3>5. outcome' = [a \in Batches |-> outcome'[a]]
      BY <1>1, <3>2 DEF OutcomeOK
    <3>6. QED
      BY <3>3, <3>4, <3>5 DEF OutcomeOK
  <2>2. ASSUME NEW b \in Batches, Begin(b) PROVE BatchOK' /\ OutcomeOK'
    <3> DEFINE row == [batch[b] EXCEPT !.status = "running", !.state = "processing"]
    <3>1. row \in BatchRow /\ row.docs = batch[b].docs
      BY <1>2 DEF BatchRow
    <3>2. batch' = [batch EXCEPT ![b] = row]
      BY <1>2, <2>2 DEF Begin
    <3> HIDE DEF row
    <3>3. outcome' = outcome /\ autos' = autos /\ queue' = queue \ {b}
      BY <2>2 DEF Begin
    <3>4. QED
      BY <1>1, <1>2, <3>1, <3>2, <3>3, Updated DEF BatchOK
  <2>3. ASSUME NEW d \in Docs, DocumentFails(d) PROVE BatchOK' /\ OutcomeOK'
    <3>1. /\ worker # Free /\ outcome' = Marked(d, "failed")
          /\ UNCHANGED <<batch, autos, queue>>
      BY <2>3, Constants DEF DocumentFails
    <3>2. OutcomeOK'
      BY <3>1, Marks
    <3>3. QED
      BY <1>2, <3>1, <3>2 DEF BatchOK
  <2>4. CASE ExtractWrite
    <3>1. /\ worker # Free /\ outcome' = Marked(worker.doc, "succeeded")
          /\ UNCHANGED <<batch, autos, queue>>
      BY <2>4, Constants DEF ExtractWrite
    <3>2. OutcomeOK'
      BY <3>1, Marks
    <3>3. QED
      BY <1>2, <3>1, <3>2 DEF BatchOK
  <2>5. CASE Finish \/ FinishPromote
    <3> DEFINE b == worker.batch
    <3>1. b \in Batches /\ outcome' = outcome /\ queue' = queue
      BY <2>5, FinishIs
    <3>2. autos' \in [Large -> Nat]
      BY <1>2, <2>5, FinishIs
    <3>3. CASE batch' = batch
      BY <1>2, <1>3, <3>1, <3>2, <3>3 DEF BatchOK, OutcomeOK, TypeInv
    <3>4. CASE batch' = [batch EXCEPT ![b] = Completed(b)]
      BY <1>1, <1>2, <3>1, <3>2, <3>4, Updated, CompletedIs DEF BatchOK
    <3>5. CASE batch' = [batch EXCEPT ![b] = [Completed(b) EXCEPT !.eligible = TRUE,
                                                                 !.approved = TRUE]]
      <4>1. /\ Completed(b) \in BatchRow /\ Completed(b).docs = batch[b].docs
            /\ [Completed(b) EXCEPT !.eligible = TRUE, !.approved = TRUE] \in BatchRow
        BY <3>1, CompletedIs
      <4>2. [Completed(b) EXCEPT !.eligible = TRUE, !.approved = TRUE].docs = batch[b].docs
        BY <4>1 DEF BatchRow
      <4>3. QED
        BY <1>1, <1>2, <3>1, <3>2, <3>5, <4>1, <4>2, Updated DEF BatchOK
    <3>6. QED
      BY <2>5, <3>3, <3>4, <3>5, FinishIs
  <2>6. ASSUME NEW r \in Requests, AcceptWrite(r) PROVE BatchOK' /\ OutcomeOK'
    <3> DEFINE b == req[r].batch
               row == [batch[b] EXCEPT !.approved = TRUE]
    <3>1. b \in Batches
      BY <1>1, <2>6 DEF AcceptWrite, ReqOK, ReqRow, Judging, Batches
    <3>2. row \in BatchRow /\ row.docs = batch[b].docs
      BY <1>2, <3>1 DEF BatchRow
    <3>3. batch' = [batch EXCEPT ![b] = row] /\ UNCHANGED <<outcome, autos, queue>>
      BY <2>6 DEF AcceptWrite
    <3> HIDE DEF row, b
    <3>4. QED
      BY <1>1, <1>2, <3>1, <3>2, <3>3, Updated DEF BatchOK
  <2>7. CASE Stops /\ UNCHANGED <<batch, outcome, autos>>
    <3>1. queue' \subseteq queue \cup {worker.batch} /\ worker # Free
      BY <2>7 DEF Stops, Raises, Dies, Redeliver
    <3>2. QED
      BY <1>1, <1>2, <1>3, <2>7, <3>1, WorkerIs
  <2>8. CASE UNCHANGED <<batch, outcome, autos, queue>>
    BY <1>2, <1>3, <2>8
  <2>9. QED
    BY <1>5, <2>1, <2>2, <2>3, <2>4, <2>5, <2>6, <2>7, <2>8, RowsLeft
<1>6. QED
  BY <1>4, <1>5

\* What is decided or submitted about a review keeps its batch and its sample.
LEMMA Rewritten ==
    ASSUME ReviewOK, NEW v \in Reviews, review[v] # NoReview,
           NEW row, \/ \E decision \in {"rejected", "accepted"} :
                         row = [review[v] EXCEPT !.decision = decision]
                    \/ \E reviewed, agreed \in SUBSET Suggestion :
                         row = [review[v] EXCEPT !.reviewed = reviewed, !.agreed = agreed],
           review' = [review EXCEPT ![v] = row]
    PROVE  /\ review' \in [Reviews -> {NoReview} \cup Verdict]
           /\ \A u \in Reviews : /\ review[u] # NoReview => review'[u] # NoReview
                                 /\ review[u] = NoReview => review'[u] = NoReview
                                 /\ review[u] # NoReview => review'[u].sample = review[u].sample
<1>1. review \in [Reviews -> {NoReview} \cup Verdict] /\ review[v] \in Verdict
  BY DEF ReviewOK
<1>2. row \in Verdict /\ row.sample = review[v].sample
  BY <1>1 DEF Verdict
<1>3. ASSUME NEW x \in Verdict PROVE x # NoReview
  <2>1. x.decision # NoReview.decision
    BY DEF Verdict, NoReview
  <2>2. QED
    BY <2>1
<1>4. QED
  BY <1>1, <1>2, <1>3

\* What a step does to the reviews: one is asked for, one is drawn, or all stay
\* what they were but for verdicts and decisions.
Started == /\ stamped' = stamped + 1 /\ review' = review
           /\ \E r \in Requests : \E b \in Initial : Start(r, b)
Drawn == /\ stamped' = stamped
         /\ \E r \in Requests :
               /\ Draw(r)
               /\ \A u \in Reviews \ {req[r].review} : review'[u] = review[u]
               /\ review'[req[r].review] # NoReview
Kept == /\ stamped' = stamped
        /\ \A u \in Reviews : /\ review[u] # NoReview => review'[u] # NoReview
                              /\ review[u] = NoReview => review'[u] = NoReview
                              /\ review[u] # NoReview => review'[u].sample = review[u].sample

LEMMA ReviewStep ==
    ASSUME TypeInv, [Next]_vars
    PROVE  ReviewOK' /\ (Started \/ Drawn \/ Kept)
<1>1. /\ ReviewOK /\ ReqOK /\ JudgesOK /\ SuggOK /\ BatchOK /\ OutcomeOK
      /\ review \in [Reviews -> {NoReview} \cup Verdict] /\ stamped \in 0..MaxReviews
  BY DEF TypeInv, ReviewOK
<1>2. ASSUME UNCHANGED <<review, stamped>> PROVE ReviewOK' /\ Kept
  BY <1>1, <1>2 DEF ReviewOK, Kept
<1>3. CASE UNCHANGED vars
  BY <1>2, <1>3 DEF vars, tables, clocks
<1>4. CASE Next
  <2>1. ASSUME NEW r \in Requests, NEW b \in Initial, Start(r, b) PROVE ReviewOK' /\ Started
    <3>1. stamped < MaxReviews /\ stamped' = stamped + 1 /\ review' = review
      BY <2>1 DEF Start, tables
    <3>2. stamped' \in 0..MaxReviews
      BY <1>1, <3>1, BoundsAssumption
    <3>3. QED
      BY <1>1, <2>1, <3>1, <3>2 DEF ReviewOK, Started
  <2>2. ASSUME NEW r \in Requests, Draw(r) PROVE ReviewOK' /\ Drawn
    <3> DEFINE row(sample) == [batch |-> req[r].batch, sample |-> sample,
                               decision |-> "in_review", reviewed |-> {}, agreed |-> {}]
    <3>1. req[r].batch \in Initial /\ req[r].review \in Reviews
      BY <1>1, <2>2 DEF Draw, ReqOK, ReqRow
    <3>2. PICK sample \in Samples(batch[req[r].batch].docs) :
             review' = [review EXCEPT ![req[r].review] = row(sample)]
      BY <2>2 DEF Draw
    <3>3. sample \in SUBSET Docs
      BY <1>1, <3>1, <3>2 DEF Samples, BatchOK, BatchRow, Batches
    <3>4. row(sample) \in Verdict /\ row(sample) # NoReview
      BY <3>1, <3>3 DEF Verdict, NoReview
    <3> HIDE DEF row
    <3>5. review' \in [Reviews -> {NoReview} \cup Verdict] /\ stamped' = stamped
      BY <1>1, <2>2, <3>2, <3>4 DEF Draw, clocks
    <3>6. QED
      BY <1>1, <2>2, <3>1, <3>2, <3>4, <3>5 DEF ReviewOK, Drawn
  <2>3. ASSUME NEW b \in Initial, Submit(b) PROVE ReviewOK' /\ Kept
    <3> DEFINE v == Latest(b)
    <3>1. v \in Reviews /\ review[v] # NoReview
      BY <2>3, LatestIs DEF Submit, UnderReview
    <3>2. PICK reviewed \in SUBSET Of(review[v].sample), agreed \in SUBSET Of(review[v].sample) :
             review' = [review EXCEPT ![v].reviewed = reviewed, ![v].agreed = agreed]
      BY <2>3 DEF Submit
    <3>3. reviewed \in SUBSET Suggestion /\ agreed \in SUBSET Suggestion
      BY <1>1 DEF Of, SuggOK
    <3> DEFINE row == [review[v] EXCEPT !.reviewed = reviewed, !.agreed = agreed]
    <3> HIDE DEF v
    <3>4. review' = [review EXCEPT ![v] = row]
      BY <1>1, <3>1, <3>2
    <3>5. stamped' = stamped
      BY <2>3 DEF Submit, clocks
    <3> HIDE DEF row
    <3>6. \E x, y \in SUBSET Suggestion : row = [review[v] EXCEPT !.reviewed = x, !.agreed = y]
      BY <3>3 DEF row
    <3>7. QED
      BY <1>1, <3>1, <3>4, <3>5, <3>6, Rewritten DEF ReviewOK, Kept
  <2>4. ASSUME NEW r \in Requests, Reject(r) \/ AcceptWrite(r) PROVE ReviewOK' /\ Kept
    <3> DEFINE v == req[r].review
    <3>1. v \in Reviews /\ review[v] # NoReview
      BY <1>1, <2>4 DEF Reject, AcceptWrite, ReqOK, ReqRow, Judging, JudgesOK
    <3>2. stamped' = stamped
      BY <2>4 DEF Reject, AcceptWrite, clocks
    <3> HIDE DEF v
    <3>3. PICK decision \in {"rejected", "accepted"} :
             review' = [review EXCEPT ![v].decision = decision]
      BY <2>4 DEF Reject, AcceptWrite, v
    <3> DEFINE row == [review[v] EXCEPT !.decision = decision]
    <3>4. review' = [review EXCEPT ![v] = row]
      BY <1>1, <3>1, <3>3
    <3> HIDE DEF row
    <3>5. \E x \in {"rejected", "accepted"} : row = [review[v] EXCEPT !.decision = x]
      BY DEF row
    <3>6. QED
      BY <1>1, <3>1, <3>2, <3>4, <3>5, Rewritten DEF ReviewOK, Kept
  <2>5. ASSUME NEW r \in Requests, Reads(r) PROVE ReviewOK' /\ Kept
    BY <1>2, <2>5, ReadsLeave
  <2>6. ASSUME Stops PROVE ReviewOK' /\ Kept
    BY <1>2, <2>6, StopsLeave
  <2>7. ASSUME \/ \E b \in Batches : Begin(b)
               \/ \E d \in Docs : DocumentFails(d) \/ Extract(d)
               \/ ExtractWrite \/ Finish \/ FinishPromote
               \/ \E b \in Batches, docs \in (SUBSET Docs) \ {{}} : Create(b, docs)
        PROVE  ReviewOK' /\ Kept
    <3>1. UNCHANGED <<review, stamped>>
      BY <2>7 DEF Begin, DocumentFails, Extract, ExtractWrite, Finish, FinishPromote, Create,
                  tables, clocks
    <3>2. QED
      BY <1>2, <3>1
  <2>8. ASSUME NEW r \in Requests, PrelabelWrite(r) \/ PromoteOneWrite(r)
        PROVE  ReviewOK' /\ Kept
    <3>1. UNCHANGED <<review, stamped>>
      BY <2>8 DEF PrelabelWrite, PromoteOneWrite, clocks
    <3>2. QED
      BY <1>2, <3>1
  <2>9. QED
    BY <1>4, <2>1, <2>2, <2>3, <2>4, <2>5, <2>6, <2>7, <2>8, Steps
<1>5. QED
  BY <1>3, <1>4

\* A review that is there stays.
LEMMA ReviewsStay ==
    ASSUME TypeInv, [Next]_vars, NEW v \in Reviews, review[v] # NoReview
    PROVE  review'[v] # NoReview
<1>1. CASE Drawn
  <2>1. PICK r \in Requests :
           /\ \A u \in Reviews \ {req[r].review} : review'[u] = review[u]
           /\ review'[req[r].review] # NoReview
    BY <1>1 DEF Drawn
  <2>2. v = req[r].review \/ review'[v] = review[v]
    BY <2>1
  <2>3. QED
    BY <2>1, <2>2
<1>2. CASE Started \/ Kept
  BY <1>2 DEF Started, Kept
<1>3. QED
  BY <1>1, <1>2, ReviewStep

LEMMA ReqSet ==
    ASSUME TypeInv, [Next]_vars, NEW r \in Requests, NEW q, ReqRow(q),
           q.stage \in Judging => review[q.review] # NoReview,
           req' = [req EXCEPT ![r] = q]
    PROVE  ReqOK' /\ JudgesOK'
<1>1. ReqOK /\ JudgesOK
  BY DEF TypeInv
<1>2. /\ req' = [p \in Requests |-> req'[p]]
      /\ req'[r] = q /\ \A p \in Requests : p # r => req'[p] = req[p]
  BY <1>1 DEF ReqOK
<1>3. ReqOK'
  <2>1. \A p \in Requests : ReqRow(req'[p])
    BY <1>1, <1>2 DEF ReqOK
  <2>2. \A p \in Requests : ReqRow(req'[p]) <=> ReqRow(req[p])'
    BY DEF ReqRow
  <2>3. QED
    BY <1>2, <2>1, <2>2 DEF ReqOK
<1>4. ASSUME NEW p \in Requests, req'[p].stage \in Judging
      PROVE  review'[req'[p].review] # NoReview
  <2>1. req'[p].review \in Reviews
    BY <1>1, <1>2, <1>4 DEF ReqOK, ReqRow
  <2>2. review[req'[p].review] # NoReview
    BY <1>1, <1>2, <1>4 DEF JudgesOK
  <2>3. QED
    BY <2>1, <2>2, ReviewsStay
<1>5. QED
  BY <1>3, <1>4 DEF JudgesOK, Judging

\* The actions of no request.
Elsewhere == \/ \E b \in Batches : Begin(b)
             \/ \E d \in Docs : DocumentFails(d) \/ Extract(d)
             \/ ExtractWrite \/ Finish \/ FinishPromote \/ Stops
             \/ \E b \in Batches, docs \in (SUBSET Docs) \ {{}} : Create(b, docs)
             \/ \E b \in Initial : Submit(b)

LEMMA ElsewhereLeaves == Elsewhere => req' = req
<1>1. CASE Stops
  BY <1>1, StopsLeave
<1>2. CASE Elsewhere /\ ~Stops
  BY <1>2 DEF Elsewhere, Begin, DocumentFails, Extract, ExtractWrite, Finish, FinishPromote, Create,
              Submit
<1>3. QED
  BY <1>1, <1>2

LEMMA StepReq == TypeInv /\ [Next]_vars => ReqOK' /\ JudgesOK'
<1> SUFFICES ASSUME TypeInv, [Next]_vars PROVE ReqOK' /\ JudgesOK'
  OBVIOUS
<1>1. SuggOK /\ BatchOK /\ ReqOK /\ JudgesOK /\ ReviewOK /\ \A r \in Requests : ReqRow(req[r])
  BY DEF TypeInv, ReqOK
<1>2. ASSUME req' = req PROVE ReqOK' /\ JudgesOK'
  <2>1. ReqOK'
    BY <1>1, <1>2 DEF ReqOK, ReqRow
  <2>2. ASSUME NEW p \in Requests, req'[p].stage \in Judging
        PROVE  review'[req'[p].review] # NoReview
    <3>1. req[p].review \in Reviews /\ review[req[p].review] # NoReview
      BY <1>1, <1>2, <2>2 DEF JudgesOK, ReqRow
    <3>2. QED
      BY <1>2, <3>1, ReviewsStay
  <2>3. QED
    BY <2>1, <2>2 DEF JudgesOK, Judging
<1>3. ASSUME NEW r \in Requests, Answered(r) PROVE ReqOK' /\ JudgesOK'
  <2>1. req' = [req EXCEPT ![r] = Idle]
    BY <1>3 DEF Answered
  <2>2. Idle.stage \notin Judging
    BY Constants DEF Judging
  <2>3. QED
    BY <2>1, <2>2, ReqSet, Constants
<1>4. CASE UNCHANGED vars
  BY <1>2, <1>4 DEF vars
<1>5. CASE Next
  <2>1. ASSUME NEW r \in Requests, NEW d \in Docs, Prelabel(r, d) PROVE ReqOK' /\ JudgesOK'
    <3> DEFINE q == [stage |-> "prelabel", doc |-> d, seen |-> Of({d})]
    <3>1. ReqRow(q) /\ q.stage \notin Judging
      BY <1>1 DEF ReqRow, Judging, Of, SuggOK
    <3>2. req' = [req EXCEPT ![r] = q]
      BY <2>1 DEF Prelabel, Holds
    <3> HIDE DEF q
    <3>3. QED
      BY <3>1, <3>2, ReqSet
  <2>2. ASSUME NEW r \in Requests, NEW s \in sugg, PromoteOne(r, s) PROVE ReqOK' /\ JudgesOK'
    <3> DEFINE q == [stage |-> "promote", suggestion |-> s]
    <3>1. ReqRow(q) /\ q.stage \notin Judging
      BY <1>1 DEF ReqRow, Judging, SuggOK
    <3>2. req' = [req EXCEPT ![r] = q]
      BY <2>2 DEF PromoteOne, Holds
    <3> HIDE DEF q
    <3>3. QED
      BY <3>1, <3>2, ReqSet
  <2>3. ASSUME NEW r \in Requests, NEW b \in Initial, Start(r, b) PROVE ReqOK' /\ JudgesOK'
    <3> DEFINE q == [stage |-> "draw", batch |-> b, review |-> stamped + 1]
    <3>1. stamped + 1 \in Reviews
      BY <1>1, <2>3, BoundsAssumption DEF ReviewOK, Start, Reviews
    <3>2. ReqRow(q) /\ q.stage \notin Judging
      BY <3>1 DEF ReqRow, Judging
    <3>3. req' = [req EXCEPT ![r] = q]
      BY <2>3 DEF Start, Holds
    <3> HIDE DEF q
    <3>4. QED
      BY <3>2, <3>3, ReqSet
  <2>4. ASSUME NEW r \in Requests, NEW b \in Initial, Accept(r, b) PROVE ReqOK' /\ JudgesOK'
    <3> DEFINE v == Latest(b)
               gate == [review |-> v, reviewed |-> review[v].reviewed, asOf |-> made]
               q(stage) == [stage |-> stage, batch |-> b, review |-> v, gate |-> gate]
    <3>1. v \in Reviews /\ review[v] # NoReview
      BY <2>4, LatestIs DEF Accept, UnderReview
    <3>2. review[v].reviewed \subseteq Suggestion
      BY <1>1, <3>1 DEF ReviewOK, Verdict
    <3>3. made \in Nat
      BY <1>1, BoundsAssumption DEF SuggOK
    <3>4. \A stage \in {"gather", "reject"} : ReqRow(q(stage)) /\ q(stage).review = v
      BY <3>1, <3>2, <3>3 DEF ReqRow, Judging
    <3>5. \E stage \in {"gather", "reject"} : req' = [req EXCEPT ![r] = q(stage)]
      BY <2>4 DEF Accept, Holds
    <3> HIDE DEF q, v
    <3>6. QED
      BY <3>1, <3>4, <3>5, ReqSet
  <2>5. ASSUME NEW r \in Requests, Gather(r) PROVE ReqOK' /\ JudgesOK'
    <3> DEFINE q == [stage |-> "accept", batch |-> req[r].batch, review |-> req[r].review,
                     gate |-> req[r].gate, seen |-> Of(batch[req[r].batch].docs)]
    <3>1. req[r].stage = "gather" /\ ReqRow(req[r]) /\ review[req[r].review] # NoReview
      BY <1>1, <2>5 DEF Gather, JudgesOK, Judging
    <3>2. ReqRow(q) /\ review[q.review] # NoReview
      BY <1>1, <3>1 DEF ReqRow, Judging, Of, SuggOK
    <3>3. req' = [req EXCEPT ![r] = q]
      BY <1>1, <2>5 DEF Gather, ReqOK
    <3> HIDE DEF q
    <3>4. QED
      BY <3>2, <3>3, ReqSet
  <2>6. ASSUME NEW r \in Requests,
               \/ RequestDies(r) \/ PrelabelWrite(r) \/ PromoteOneWrite(r)
               \/ Draw(r) \/ Reject(r) \/ AcceptWrite(r)
        PROVE  ReqOK' /\ JudgesOK'
    <3>1. Answered(r)
      BY <2>6 DEF RequestDies, PrelabelWrite, PromoteOneWrite, Draw, Reject, AcceptWrite
    <3>2. QED
      BY <1>3, <3>1
  <2>7. CASE Elsewhere
    BY <1>2, <2>7, ElsewhereLeaves
  <2>8. QED
    BY <1>5, <2>1, <2>2, <2>3, <2>4, <2>5, <2>6, <2>7, Steps DEF Reads, Elsewhere
<1>6. QED
  BY <1>4, <1>5

LEMMA LoopIs ==
    ASSUME NEW b \in Batches, NEW todo \in SUBSET Docs, NEW m \in Nat, NEW n \in Nat
    PROVE  [stage |-> "loop", batch |-> b, todo |-> todo, succeeded |-> m, failed |-> n] \in LoopRow
BY DEF LoopRow

LEMMA LoopExcept ==
    ASSUME NEW w \in LoopRow, NEW todo \in SUBSET Docs, NEW n \in Nat
    PROVE  [w EXCEPT !.todo = todo, !.failed = n] \in LoopRow
BY DEF LoopRow

LEMMA StepWorker == TypeInv /\ [Next]_vars => WorkerOK'
<1> SUFFICES ASSUME TypeInv, [Next]_vars PROVE WorkerOK'
  OBVIOUS
<1>1. SuggOK /\ BatchOK /\ WorkerOK
  BY DEF TypeInv
<1>2. ASSUME worker' = worker PROVE WorkerOK'
  BY <1>1, <1>2 DEF WorkerOK
<1>3. ASSUME worker' = Free PROVE WorkerOK'
  BY <1>3 DEF WorkerOK
<1>4. CASE UNCHANGED vars
  BY <1>2, <1>4 DEF vars
<1>5. CASE Next
  <2>1. ASSUME NEW b \in Batches, Begin(b) PROVE WorkerOK'
    <3>1. batch[b].docs \in SUBSET Docs
      BY <1>1 DEF BatchOK, BatchRow
    <3>2. worker' \in LoopRow
      BY <2>1, <3>1 DEF Begin, LoopRow
    <3>3. QED
      BY <3>2 DEF WorkerOK
  <2>2. ASSUME NEW d \in Docs, DocumentFails(d) PROVE WorkerOK'
    <3>1. worker \in LoopRow /\ worker' = [worker EXCEPT !.todo = @ \ {d}, !.failed = @ + 1]
      BY <1>1, <2>2, WorkerIs DEF DocumentFails
    <3>2. worker.todo \ {d} \in SUBSET Docs /\ worker.failed + 1 \in Nat
      BY <3>1 DEF LoopRow
    <3>3. [worker EXCEPT !.todo = worker.todo \ {d}, !.failed = worker.failed + 1] \in LoopRow
      BY <3>1, <3>2, LoopExcept
    <3>4. worker' \in LoopRow
      BY <3>1, <3>3
    <3>5. QED
      BY <3>4 DEF WorkerOK
  <2>3. ASSUME NEW d \in Docs, Extract(d) PROVE WorkerOK'
    <3>1. worker \in LoopRow
      BY <1>1, <2>3, WorkerIs DEF Extract
    <3>2. Of({d}) \in SUBSET Suggestion
      BY <1>1 DEF Of, SuggOK
    <3>3. worker' \in ReplaceRow
      BY <2>3, <3>1, <3>2 DEF Extract, LoopRow, ReplaceRow
    <3>4. QED
      BY <3>3 DEF WorkerOK
  <2>4. CASE ExtractWrite
    <3>1. worker \in ReplaceRow
      BY <1>1, <2>4, WorkerIs DEF ExtractWrite
    <3>2. /\ worker.batch \in Batches /\ worker.todo \in SUBSET Docs
          /\ worker.succeeded + 1 \in Nat /\ worker.failed \in Nat
      BY <3>1 DEF ReplaceRow
    <3>3. worker' = [stage |-> "loop", batch |-> worker.batch, todo |-> worker.todo,
                     succeeded |-> worker.succeeded + 1, failed |-> worker.failed]
      BY <2>4 DEF ExtractWrite
    <3>4. [stage |-> "loop", batch |-> worker.batch, todo |-> worker.todo,
           succeeded |-> worker.succeeded + 1, failed |-> worker.failed] \in LoopRow
      BY <3>2, LoopIs
    <3>5. worker' \in LoopRow
      BY <3>3, <3>4
    <3>6. QED
      BY <3>5 DEF WorkerOK
  <2>5. CASE Finish \/ FinishPromote
    <3>1. CASE worker' = Free
      BY <1>3, <3>1
    <3>2. CASE Finish /\ worker' = [worker EXCEPT !.stage = "promote",
                                                  !.todo = Of(batch[worker.batch].docs)]
      <4>1. worker \in LoopRow /\ Of(batch[worker.batch].docs) \in SUBSET Suggestion
        BY <1>1, <3>2, WorkerIs DEF Finish, Of, SuggOK
      <4>2. worker' \in PromoteRow
        BY <3>2, <4>1 DEF LoopRow, PromoteRow
      <4>3. QED
        BY <4>2 DEF WorkerOK
    <3>3. QED
      BY <2>5, <3>1, <3>2, FinishIs
  <2>6. CASE Stops
    BY <1>2, <1>3, <2>6 DEF Stops, Raises, Dies, Redeliver
  <2>7. ASSUME NEW r \in Requests, Reads(r) PROVE WorkerOK'
    BY <1>2, <2>7, ReadsLeave
  <2>8. CASE \/ \E b \in Batches, docs \in (SUBSET Docs) \ {{}} : Create(b, docs)
             \/ \E b \in Initial : Submit(b)
    BY <1>2, <2>8 DEF Create, Submit
  <2>9. CASE \E r \in Requests :
                \/ PrelabelWrite(r) \/ PromoteOneWrite(r) \/ (\E b \in Initial : Start(r, b))
                \/ Draw(r) \/ Reject(r) \/ AcceptWrite(r)
    BY <1>2, <2>9 DEF PrelabelWrite, PromoteOneWrite, Start, Draw, Reject, AcceptWrite
  <2>10. QED
    BY <1>5, <2>1, <2>2, <2>3, <2>4, <2>5, <2>6, <2>7, <2>8, <2>9, Steps
<1>6. QED
  BY <1>4, <1>5

LEMMA StepTypeInv == TypeInv /\ [Next]_vars => TypeInv'
BY StepSugg, StepBatch, ReviewStep, StepReq, StepWorker DEF TypeInv

\* The suggestions, the spans made of them, the batches with their outcomes, the
\* reviews and the clocks have their types.
THEOREM TypeCorrect == Spec => []TypeOK
BY InitType, StepTypeInv, TypeParts, PTL DEF Spec

-----------------------------------------------------------------------------
(* Suggestions.                                                            *)

\* The actions that replace or promote suggestions, and no other.
LEMMA SuggestionsLeft ==
    ASSUME [Next]_vars
    PROVE  \/ UNCHANGED <<sugg, spans, made>>
           \/ ExtractWrite \/ FinishPromote
           \/ \E r \in Requests : PrelabelWrite(r) \/ PromoteOneWrite(r) \/ AcceptWrite(r)
<1>1. CASE UNCHANGED vars
  BY <1>1 DEF vars, tables, clocks
<1>2. ASSUME NEW r \in Requests, Reads(r) PROVE UNCHANGED <<sugg, spans, made>>
  BY <1>2, ReadsLeave
<1>3. CASE Stops
  BY <1>3, StopsLeave
<1>4. CASE \/ \E b \in Batches : Begin(b)
           \/ \E d \in Docs : DocumentFails(d) \/ Extract(d)
           \/ Finish
           \/ \E b \in Batches, docs \in (SUBSET Docs) \ {{}} : Create(b, docs)
  BY <1>4 DEF Begin, DocumentFails, Extract, Finish, Create, tables, clocks
<1>5. CASE \/ \E b \in Initial : Submit(b)
           \/ \E r \in Requests : (\E b \in Initial : Start(r, b)) \/ Draw(r) \/ Reject(r)
  BY <1>5 DEF Submit, Start, Draw, Reject, tables, clocks
<1>6. QED
  BY <1>1, <1>2, <1>3, <1>4, <1>5, Steps

\* No suggestion is lost: it goes when a span is made of it or when a later run of
\* its document, which saw it, replaces it, whatever promotes or pre-labels the
\* document meanwhile (replace_suggested_spans, promote_suggested_span, accept_batch).
THEOREM NoneLost == Spec => NothingLost
<1> DEFINE Accounted == \A s \in sugg \ sugg' :
              \/ \E x \in spans' : x.of = s
              \/ worker.stage = "replace" /\ s \in worker.seen
              \/ \E r \in Requests : req[r].stage = "prelabel" /\ s \in req[r].seen
<1>1. [Next]_vars => [Accounted]_vars
  <2> SUFFICES ASSUME [Next]_vars PROVE Accounted
    OBVIOUS
  <2>1. ASSUME NEW seen, NEW by, Promote(seen, by), NEW s \in sugg \ sugg'
        PROVE  \E x \in spans' : x.of = s
    <3>1. s \in seen
      BY <2>1 DEF Promote
    <3>2. [of |-> s, by |-> by] \in spans'
      BY <2>1, <3>1 DEF Promote
    <3>3. QED
      BY <3>2
  <2>2. CASE ExtractWrite
    BY <2>2 DEF ExtractWrite, Replace
  <2>3. CASE FinishPromote
    <3>1. Promote(worker.todo, AutoPromoted)
      BY <2>3 DEF FinishPromote
    <3>2. QED
      BY <2>1, <3>1
  <2>4. ASSUME NEW r \in Requests, PrelabelWrite(r) PROVE Accounted
    BY <2>4 DEF PrelabelWrite, Replace
  <2>5. ASSUME NEW r \in Requests, PromoteOneWrite(r) PROVE Accounted
    <3>1. Promote({req[r].suggestion}, Hand)
      BY <2>5 DEF PromoteOneWrite
    <3>2. QED
      BY <2>1, <3>1
  <2>6. ASSUME NEW r \in Requests, AcceptWrite(r) PROVE Accounted
    <3>1. Promote(req[r].seen, req[r].review)
      BY <2>6 DEF AcceptWrite
    <3>2. QED
      BY <2>1, <3>1
  <2>7. QED
    BY <2>2, <2>3, <2>4, <2>5, <2>6, SuggestionsLeft
<1>2. QED
  BY <1>1, PTL DEF Spec, NothingLost

\* What is new among the suggestions has a new number.
LEMMA NewNumber ==
    ASSUME TypeInv, [Next]_vars
    PROVE  /\ \A s \in sugg' \ sugg : s.n = made + 1
           /\ made' >= made /\ made \in Nat
<1>1. SuggOK /\ made \in Nat
  BY BoundsAssumption DEF TypeInv, SuggOK
<1>2. ASSUME NEW d \in Docs, NEW seen, NEW found \in Finds(d), Replace(seen, found)
      PROVE  (\A s \in sugg' \ sugg : s.n = made + 1) /\ made' >= made
  <2>1. (\A s \in found : s.n = made + 1) /\ made + Cardinality(found) \in made..MaxMade
    BY <1>1, FindsIs DEF SuggOK
  <2>2. QED
    BY <1>1, <2>1, BoundsAssumption, <1>2 DEF Replace
<1>3. CASE ExtractWrite
  <2>1. worker.doc \in Docs
    BY <1>3, WorkerIs DEF TypeInv, ExtractWrite, ReplaceRow
  <2>2. QED
    BY <1>1, <1>2, <1>3, <2>1 DEF ExtractWrite
<1>4. ASSUME NEW r \in Requests, PrelabelWrite(r)
      PROVE  (\A s \in sugg' \ sugg : s.n = made + 1) /\ made' >= made
  <2>1. req[r].doc \in Docs
    BY <1>4 DEF TypeInv, ReqOK, ReqRow, PrelabelWrite
  <2>2. QED
    BY <1>2, <1>4, <2>1 DEF PrelabelWrite
<1>5. ASSUME FinishPromote \/ \E r \in Requests : PromoteOneWrite(r) \/ AcceptWrite(r)
      PROVE  sugg' \subseteq sugg /\ made' = made
  BY <1>5 DEF FinishPromote, PromoteOneWrite, AcceptWrite, Promote, clocks
<1>6. QED
  BY <1>1, <1>3, <1>4, <1>5, SuggestionsLeft

-----------------------------------------------------------------------------
(* The acceptance gate.                                                    *)

\* A review that is there was started, and one that is to be drawn is not there
\* yet, is drawn by one request only and was started.
NumbersOK == \A v \in Reviews : review[v] # NoReview => v <= stamped
DrawOK == \A r \in Requests : req[r].stage = "draw" =>
             /\ review[req[r].review] = NoReview /\ req[r].review <= stamped
             /\ \A q \in Requests \ {r} :
                   req[q].stage = "draw" => req[q].review # req[r].review

\* What a request that has passed the gate may promote.
Looked(r) == IF req[r].stage = "gather" THEN sugg ELSE req[r].seen

\* Of the review's sample, that is what the review gave a verdict or what was made
\* after the gate was read.
Passed(q, s) == s.doc \in review[q.review].sample =>
                   s \in q.gate.reviewed \/ s.n > q.gate.asOf
GateOK == \A r \in Requests :
             /\ req[r].stage \in Judging => req[r].gate.asOf <= made
             /\ req[r].stage \in {"gather", "accept"} => \A s \in Looked(r) : Passed(req[r], s)

GateInv == NumbersOK /\ DrawOK /\ GateOK

LEMMA InitGate == Init => GateInv
<1> SUFFICES ASSUME Init PROVE GateInv
  OBVIOUS
<1>1. \A r \in Requests : req[r].stage = "idle"
  BY Constants DEF Init
<1>2. QED
  BY <1>1 DEF Init, GateInv, NumbersOK, DrawOK, GateOK, Judging

\* What a step does to the locals of each request, as far as reviews go.
LEMMA ReqStep ==
    ASSUME TypeInv, [Next]_vars, NEW r \in Requests
    PROVE  \/ req'[r] = req[r]
           \/ req'[r].stage \in {"idle", "prelabel", "promote"}
           \/ /\ \E b \in Initial : Start(r, b)
              /\ req'[r].stage = "draw" /\ req'[r].review = stamped + 1
              /\ \A q \in Requests \ {r} : req'[q] = req[q]
           \/ \E b \in Initial : Accept(r, b) /\ req'[r].stage \in {"gather", "reject"}
           \/ Gather(r) /\ req'[r].stage = "accept"
<1>1. req = [q \in Requests |-> req[q]]
  BY DEF TypeInv, ReqOK
<1>2. CASE UNCHANGED vars
  BY <1>2 DEF vars
<1>3. ASSUME NEW q \in Requests, NEW locals, req' = [req EXCEPT ![q] = locals]
      PROVE  req'[q] = locals /\ \A p \in Requests \ {q} : req'[p] = req[p]
  BY <1>1, <1>3
<1>4. CASE Elsewhere
  BY <1>4, ElsewhereLeaves
<1>5. ASSUME NEW q \in Requests, Answered(q)
      PROVE  req'[r] = req[r] \/ req'[r].stage = "idle"
  BY <1>3, <1>5, Constants DEF Answered
<1>6. ASSUME NEW q \in Requests,
             \/ RequestDies(q) \/ PrelabelWrite(q) \/ PromoteOneWrite(q)
             \/ Draw(q) \/ Reject(q) \/ AcceptWrite(q)
      PROVE  Answered(q)
  BY <1>6 DEF RequestDies, PrelabelWrite, PromoteOneWrite, Draw, Reject, AcceptWrite
<1>7. ASSUME NEW q \in Requests, NEW d \in Docs, Prelabel(q, d)
      PROVE  req'[r] = req[r] \/ req'[r].stage = "prelabel"
  BY <1>3, <1>7 DEF Prelabel, Holds
<1>8. ASSUME NEW q \in Requests, NEW s \in sugg, PromoteOne(q, s)
      PROVE  req'[r] = req[r] \/ req'[r].stage = "promote"
  BY <1>3, <1>8 DEF PromoteOne, Holds
<1>9. ASSUME NEW q \in Requests, NEW b \in Initial, Start(q, b)
      PROVE  \/ req'[r] = req[r]
             \/ /\ q = r /\ req'[r].stage = "draw" /\ req'[r].review = stamped + 1
                /\ \A p \in Requests \ {r} : req'[p] = req[p]
  BY <1>3, <1>9 DEF Start, Holds
<1>10. ASSUME NEW q \in Requests, NEW b \in Initial, Accept(q, b)
       PROVE  req'[r] = req[r] \/ (q = r /\ req'[r].stage \in {"gather", "reject"})
  BY <1>3, <1>10 DEF Accept, Holds
<1>11. ASSUME NEW q \in Requests, Gather(q)
       PROVE  req'[r] = req[r] \/ (q = r /\ req'[r].stage = "accept")
  BY <1>1, <1>11 DEF Gather
<1>12. QED
  BY <1>2, <1>4, <1>5, <1>6, <1>7, <1>8, <1>9, <1>10, <1>11, Steps DEF Reads, Elsewhere

\* A request that draws a sample is answered.
LEMMA DrawIs ==
    ASSUME TypeInv, NEW p \in Requests, Draw(p)
    PROVE  req[p].stage = "draw" /\ req[p].review \in Reviews /\ req'[p].stage = "idle"
BY Constants DEF TypeInv, ReqOK, ReqRow, Draw, Answered

LEMMA StepNumbers == TypeInv /\ GateInv /\ [Next]_vars => NumbersOK'
<1> SUFFICES ASSUME TypeInv, GateInv, [Next]_vars, NEW v \in Reviews, review'[v] # NoReview
             PROVE  v <= stamped'
  BY DEF NumbersOK
<1>1. stamped \in Nat /\ v \in Nat
  BY DEF TypeInv, ReviewOK, Reviews
<1>2. review[v] # NoReview => v <= stamped
  BY DEF GateInv, NumbersOK
<1>3. CASE Drawn
  <2>1. PICK p \in Requests :
           Draw(p) /\ \A u \in Reviews \ {req[p].review} : review'[u] = review[u]
    BY <1>3 DEF Drawn
  <2>2. v = req[p].review \/ review'[v] = review[v]
    BY <2>1
  <2>3. req[p].review <= stamped
    BY <2>1, DrawIs DEF GateInv, DrawOK
  <2>4. QED
    BY <1>2, <1>3, <2>2, <2>3 DEF Drawn
<1>4. CASE Started
  BY <1>1, <1>2, <1>4 DEF Started
<1>5. CASE Kept
  BY <1>2, <1>5 DEF Kept
<1>6. QED
  BY <1>3, <1>4, <1>5, ReviewStep

LEMMA StepDraw == TypeInv /\ GateInv /\ [Next]_vars => DrawOK'
<1> SUFFICES ASSUME TypeInv, GateInv, [Next]_vars, NEW r \in Requests, req'[r].stage = "draw"
             PROVE  /\ review'[req'[r].review] = NoReview /\ req'[r].review <= stamped'
                    /\ \A q \in Requests \ {r} :
                          req'[q].stage = "draw" => req'[q].review # req'[r].review
  BY DEF DrawOK
<1>1. stamped \in Nat /\ \A u \in Reviews : u \in Nat
  BY DEF TypeInv, ReviewOK, Reviews
<1>2. ASSUME NEW q \in Requests, req[q].stage = "draw"
      PROVE  /\ review[req[q].review] = NoReview /\ req[q].review <= stamped
             /\ req[q].review \in Reviews
             /\ \A p \in Requests \ {q} : req[p].stage = "draw" => req[p].review # req[q].review
  BY <1>2 DEF GateInv, DrawOK, TypeInv, ReqOK, ReqRow
<1>3. ASSUME NEW q \in Requests, req'[q].stage = "draw"
      PROVE  \/ req'[q] = req[q]
             \/ /\ \E b \in Initial : Start(q, b)
                /\ req'[q].review = stamped + 1
                /\ \A p \in Requests \ {q} : req'[p] = req[p]
  BY <1>3, ReqStep DEF Judging
<1>4. CASE req'[r] = req[r]
  <2>1. /\ review[req[r].review] = NoReview /\ req[r].review <= stamped
        /\ req[r].review \in Reviews /\ req[r].stage = "draw"
    BY <1>2, <1>4
  <2>2. review'[req[r].review] = NoReview
    <3>1. CASE Drawn
      <4>1. PICK p \in Requests :
               Draw(p) /\ \A u \in Reviews \ {req[p].review} : review'[u] = review[u]
        BY <3>1 DEF Drawn
      <4>2. p # r /\ req[p].stage = "draw"
        BY <4>1, DrawIs
      <4>3. req[p].review # req[r].review
        BY <1>2, <2>1, <4>2
      <4>4. QED
        BY <2>1, <4>1, <4>3
    <3>2. CASE Started \/ Kept
      BY <2>1, <3>2 DEF Started, Kept
    <3>3. QED
      BY <3>1, <3>2, ReviewStep
  <2>3. stamped' >= stamped
    BY <1>1, ReviewStep DEF Drawn, Started, Kept
  <2>4. req[r].review <= stamped'
    <3>1. stamped' \in Nat
      BY <1>1, ReviewStep DEF Drawn, Started, Kept
    <3>2. QED
      BY <1>1, <2>1, <2>3, <3>1
  <2>5. ASSUME NEW q \in Requests \ {r}, req'[q].stage = "draw"
        PROVE  req'[q].review # req[r].review
    <3>1. CASE req'[q] = req[q]
      BY <1>2, <2>1, <2>5, <3>1
    <3>2. CASE req'[q].review = stamped + 1
      BY <1>1, <2>1, <3>2
    <3>3. QED
      BY <1>3, <2>5, <3>1, <3>2
  <2>6. QED
    BY <1>4, <2>2, <2>4, <2>5
<1>5. ASSUME NEW b \in Initial, Start(r, b), req'[r].review = stamped + 1,
             \A p \in Requests \ {r} : req'[p] = req[p]
      PROVE  /\ review'[req'[r].review] = NoReview /\ req'[r].review <= stamped'
             /\ \A q \in Requests \ {r} :
                   req'[q].stage = "draw" => req'[q].review # req'[r].review
  <2>1. stamped' = stamped + 1 /\ review' = review /\ stamped < MaxReviews
    BY <1>5 DEF Start, tables
  <2>2. stamped + 1 \in Reviews
    BY <1>1, <2>1, BoundsAssumption DEF Reviews
  <2>3. review[stamped + 1] = NoReview
    BY <1>1, <2>2 DEF GateInv, NumbersOK
  <2>4. ASSUME NEW q \in Requests \ {r}, req'[q].stage = "draw"
        PROVE  req'[q].review # stamped + 1
    BY <1>1, <1>2, <1>5, <2>4
  <2>5. QED
    BY <1>1, <1>5, <2>1, <2>3, <2>4
<1>6. QED
  BY <1>3, <1>4, <1>5

LEMMA StepPassed == TypeInv /\ GateInv /\ [Next]_vars => GateOK'
<1> SUFFICES ASSUME TypeInv, GateInv, [Next]_vars, NEW r \in Requests
             PROVE  /\ req'[r].stage \in Judging => req'[r].gate.asOf <= made'
                    /\ req'[r].stage \in {"gather", "accept"} =>
                          \A s \in Looked(r)' : Passed(req[r], s)'
  BY DEF GateOK
<1> DEFINE Goal == /\ req'[r].stage \in Judging => req'[r].gate.asOf <= made'
                   /\ req'[r].stage \in {"gather", "accept"} =>
                          \A s \in Looked(r)' : Passed(req[r], s)'
<1>1. /\ made' >= made /\ made \in Nat /\ made' \in Nat
      /\ \A s \in sugg' \ sugg : s.n = made + 1
  BY NewNumber, StepSugg, BoundsAssumption DEF SuggOK
<1>2. CASE req'[r] = req[r] /\ req[r].stage \in Judging
  <2>1. /\ req[r].gate.asOf \in Nat /\ req[r].gate.asOf <= made /\ req[r].review \in Reviews
        /\ review[req[r].review] # NoReview
    BY <1>2 DEF TypeInv, ReqOK, ReqRow, JudgesOK, GateInv, GateOK
  <2>2. req[r].gate.asOf <= made'
    BY <1>1, <2>1
  <2>3. review'[req[r].review].sample = review[req[r].review].sample
    <3>1. CASE Drawn
      <4>1. PICK p \in Requests :
               Draw(p) /\ \A u \in Reviews \ {req[p].review} : review'[u] = review[u]
        BY <3>1 DEF Drawn
      <4>2. review[req[p].review] = NoReview
        BY <4>1, DrawIs DEF GateInv, DrawOK
      <4>3. QED
        BY <2>1, <4>1, <4>2
    <3>2. CASE Started \/ Kept
      BY <2>1, <3>2 DEF Started, Kept
    <3>3. QED
      BY <3>1, <3>2, ReviewStep
  <2>4. ASSUME NEW s, req[r].stage \in {"gather", "accept"}, s \in Looked(r)'
        PROVE  Passed(req[r], s)'
    <3>1. CASE s \in Looked(r)
      <4>1. Passed(req[r], s)
        BY <2>4, <3>1 DEF GateInv, GateOK
      <4>2. QED
        BY <1>2, <2>3, <4>1 DEF Passed
    <3>2. CASE s \notin Looked(r)
      <4>1. s \in sugg' \ sugg
        BY <1>2, <2>4, <3>2 DEF Looked
      <4>2. s.n > req[r].gate.asOf
        BY <1>1, <2>1, <4>1
      <4>3. QED
        BY <1>2, <4>2 DEF Passed
    <3>3. QED
      BY <3>1, <3>2
  <2>5. QED
    BY <1>2, <2>2, <2>4
<1>3. ASSUME NEW b \in Initial, Accept(r, b) PROVE Goal
  <2> DEFINE v == Latest(b)
  <2>1. UNCHANGED <<sugg, review, made>>
    BY <1>3, ReadsLeave DEF Reads
  <2>2. /\ req'[r].review = v /\ req'[r].stage \in {"gather", "reject"}
        /\ req'[r].gate.reviewed = review[v].reviewed /\ req'[r].gate.asOf = made
    BY <1>3 DEF Accept, Holds, TypeInv, ReqOK
  <2>3. review[v].reviewed = Of(review[v].sample)
    BY <1>3 DEF Accept, Reviewed
  <2>4. ASSUME NEW s \in sugg, s.doc \in review[v].sample PROVE s \in review[v].reviewed
    BY <2>3, <2>4 DEF Of
  <2> HIDE DEF v
  <2>5. QED
    BY <1>1, <2>1, <2>2, <2>4 DEF Looked, Passed
<1>4. CASE Gather(r)
  <2>1. UNCHANGED <<sugg, review, made>>
    BY <1>4, ReadsLeave DEF Reads
  <2>2. /\ req'[r].review = req[r].review /\ req'[r].stage = "accept"
        /\ req'[r].gate = req[r].gate /\ req'[r].seen \subseteq sugg
    BY <1>4 DEF Gather, TypeInv, ReqOK, Of
  <2>3. /\ req[r].gate.asOf <= made /\ \A s \in sugg : Passed(req[r], s)
    BY <1>4 DEF Gather, GateInv, GateOK, Judging, Looked
  <2>4. QED
    BY <2>1, <2>2, <2>3 DEF Looked, Passed
<1>5. CASE req'[r].stage \notin Judging
  BY <1>5 DEF Judging
<1>6. QED
  BY <1>2, <1>3, <1>4, <1>5, ReqStep DEF Judging

LEMMA StepGate == TypeInv /\ GateInv /\ [Next]_vars => GateInv'
BY StepNumbers, StepDraw, StepPassed DEF GateInv

\* A suggestion of the sample is promoted by an accepted review only if a reviewer
\* gave it a verdict, for any number of reviewers, deliveries and requests that
\* pre-label and promote the document meanwhile, or if it was made after the gate
\* was read (accept_batch).
THEOREM ReviewedBeforePromotion == Spec => PromotedWasReviewed
<1> DEFINE Honest == \A x \in spans' \ spans :
              x.by \in Reviews /\ x.of.doc \in review[x.by].sample =>
                  \E r \in Requests :
                      /\ req[r].stage = "accept" /\ req[r].review = x.by
                      /\ x.of \in req[r].gate.reviewed \/ x.of.n > req[r].gate.asOf
<1>1. TypeInv /\ GateInv /\ [Next]_vars => [Honest]_vars
  <2> SUFFICES ASSUME TypeInv, GateInv, [Next]_vars, NEW x \in spans' \ spans,
                      x.by \in Reviews, x.of.doc \in review[x.by].sample
               PROVE  \E r \in Requests :
                          /\ req[r].stage = "accept" /\ req[r].review = x.by
                          /\ x.of \in req[r].gate.reviewed \/ x.of.n > req[r].gate.asOf
    OBVIOUS
  <2>1. Hand \notin Reviews /\ AutoPromoted \notin Reviews
    BY BoundsAssumption DEF Hand, AutoPromoted, Reviews
  <2>2. ~ExtractWrite /\ \A r \in Requests : ~PrelabelWrite(r)
    BY DEF ExtractWrite, PrelabelWrite
  <2>3. ASSUME NEW seen, NEW by, Promote(seen, by) PROVE x.by = by /\ x.of \in seen
    BY <2>3 DEF Promote
  <2>4. ~FinishPromote /\ \A r \in Requests : ~PromoteOneWrite(r)
    BY <2>1, <2>3 DEF FinishPromote, PromoteOneWrite
  <2>5. PICK r \in Requests : AcceptWrite(r)
    BY <2>2, <2>4, SuggestionsLeft
  <2>6. req[r].stage = "accept" /\ x.by = req[r].review /\ x.of \in req[r].seen
    BY <2>3, <2>5 DEF AcceptWrite
  <2>7. Passed(req[r], x.of)
    BY <2>6 DEF GateInv, GateOK, Looked
  <2>8. QED
    BY <2>6, <2>7 DEF Passed
<1>2. QED
  BY <1>1, InitType, StepTypeInv, InitGate, StepGate, PTL DEF Spec, PromotedWasReviewed

-----------------------------------------------------------------------------
(* What batches promise.                                                   *)

\* The documents of its batch that the worker is done with.
Left == CASE worker.stage = "loop" -> worker.todo
          [] worker.stage = "replace" -> worker.todo \cup {worker.doc}
          [] OTHER -> {}
Done == batch[worker.batch].docs \ Left
Ended(b, docs, status) == {d \in docs : outcome[b][d] = status}

\* The worker's batch is running, its counts are those of the documents it is done
\* with, and it promotes only what is to be promoted.
CountsOK ==
    worker # Free =>
        /\ batch[worker.batch].status = "running"
        /\ Left \subseteq batch[worker.batch].docs
        /\ worker.stage = "replace" => worker.doc \notin worker.todo
        /\ \A d \in Done : outcome[worker.batch][d] \in {"succeeded", "failed"}
        /\ worker.succeeded = Cardinality(Ended(worker.batch, Done, "succeeded"))
        /\ worker.failed = Cardinality(Ended(worker.batch, Done, "failed"))
        /\ worker.stage = "promote" => Claims(worker.batch)

\* A large batch has been promoted once if it is eligible, else never.
AutosOK == \A b \in Large : autos[b] = IF batch[b].eligible THEN 1 ELSE 0

Adds(b) ==
    batch[b].status = "completed" =>
        /\ batch[b].state = StateOf(Cardinality(Succeeded(b)),
                                    Cardinality(batch[b].docs \ Succeeded(b)))
        /\ (b \in Large /\ Succeeded(b) # {}) => batch[b].eligible

BatchInv == CountsOK /\ AutosOK /\ \A b \in Batches : Adds(b)

LEMMA InitBatch == Init => BatchInv
BY Constants DEF Init, BatchInv, CountsOK, AutosOK, Adds, Absent, Batches

\* What a step does to each batch's row and outcomes, as far as its state goes.
Same(b) == /\ batch'[b].status = batch[b].status /\ batch'[b].state = batch[b].state
           /\ batch'[b].docs = batch[b].docs /\ batch'[b].eligible = batch[b].eligible
           /\ outcome'[b] = outcome[b]

LEMMA RowStep ==
    ASSUME TypeInv, [Next]_vars, NEW b \in Batches
    PROVE  \/ Same(b)
           \/ /\ worker # Free /\ b = worker.batch
              /\ (\E d \in Docs : DocumentFails(d)) \/ ExtractWrite \/ Finish \/ FinishPromote
           \/ Begin(b) /\ batch'[b].status = "running"
           \/ /\ batch[b].status = "absent" /\ batch'[b].status = "queued"
              /\ batch'[b].eligible = FALSE /\ batch[b].eligible = FALSE
<1>1. /\ batch = [a \in Batches |-> batch[a]] /\ outcome = [a \in Batches |-> outcome[a]]
      /\ \A a \in Batches : batch[a] \in BatchRow
  BY DEF TypeInv, BatchOK, OutcomeOK
<1>2. ASSUME UNCHANGED <<batch, outcome>> PROVE Same(b)
  BY <1>2 DEF Same
<1>3. CASE UNCHANGED vars
  BY <1>2, <1>3 DEF vars, tables
<1>4. ASSUME NEW a \in Batches, Begin(a)
      PROVE  IF a = b THEN batch'[b].status = "running" ELSE Same(b)
  BY <1>1, <1>4 DEF Begin, Same, BatchRow
<1>5. ASSUME NEW d \in Docs, DocumentFails(d) \/ (ExtractWrite /\ d = worker.doc)
      PROVE  worker # Free /\ (b = worker.batch \/ Same(b))
  <2>1. /\ worker # Free /\ batch' = batch
        /\ \E status \in {"failed", "succeeded"} : outcome' = Marked(d, status)
    BY <1>5, Constants DEF DocumentFails, ExtractWrite
  <2>2. b # worker.batch => outcome'[b] = outcome[b]
    BY <1>1, <2>1 DEF Marked
  <2>3. QED
    BY <2>1, <2>2 DEF Same
<1>6. ASSUME ExtractWrite PROVE worker # Free /\ worker.doc \in Docs
  BY <1>6, WorkerIs, Constants DEF ExtractWrite, ReplaceRow, TypeInv
<1>7. ASSUME Finish \/ FinishPromote
      PROVE  worker # Free /\ (b = worker.batch \/ Same(b))
  <2>1. worker # Free /\ outcome' = outcome
    BY <1>7, FinishIs
  <2>2. b # worker.batch => batch'[b] = batch[b]
    BY <1>1, <1>7, FinishIs
  <2>3. QED
    BY <2>1, <2>2 DEF Same
<1>8. ASSUME NEW a \in Batches, NEW docs \in SUBSET Docs, Create(a, docs)
      PROVE  \/ Same(b)
             \/ /\ batch[b].status = "absent" /\ batch'[b].status = "queued"
                /\ batch'[b].eligible = FALSE /\ batch[b].eligible = FALSE
  <2>1. CASE a = b
    <3>1. batch[b] = Absent
      BY <1>8, <2>1 DEF Create
    <3>2. batch'[b] = [Absent EXCEPT !.status = "queued", !.state = "queued", !.docs = docs]
      BY <1>1, <1>8, <2>1 DEF Create
    <3>3. QED
      BY <3>1, <3>2 DEF Absent
  <2>2. CASE a # b
    BY <1>1, <1>8, <2>2 DEF Create, Same
  <2>3. QED
    BY <2>1, <2>2
<1>9. ASSUME NEW r \in Requests, AcceptWrite(r) PROVE Same(b)
  BY <1>1, <1>9 DEF AcceptWrite, Same, BatchRow
<1>10. QED
  BY <1>2, <1>3, <1>4, <1>5, <1>6, <1>7, <1>8, <1>9, RowsLeft

\* What a step does to the worker, if it is not one of those that follow.
LEMMA WorkerStep ==
    ASSUME TypeInv, [Next]_vars
    PROVE  \/ worker' = Free \/ worker' = worker
           \/ \E b \in Batches : Begin(b)
           \/ \E d \in Docs : DocumentFails(d) \/ Extract(d)
           \/ ExtractWrite \/ Finish
<1>1. CASE UNCHANGED vars
  BY <1>1 DEF vars
<1>2. ASSUME NEW r \in Requests, Reads(r) PROVE worker' = worker
  BY <1>2, ReadsLeave
<1>3. CASE FinishPromote \/ Stops
  BY <1>3 DEF FinishPromote, Stops, Raises, Dies, Redeliver
<1>4. CASE \/ \E b \in Batches, docs \in (SUBSET Docs) \ {{}} : Create(b, docs)
           \/ \E b \in Initial : Submit(b)
           \/ \E r \in Requests :
                 \/ PrelabelWrite(r) \/ PromoteOneWrite(r) \/ (\E b \in Initial : Start(r, b))
                 \/ Draw(r) \/ Reject(r) \/ AcceptWrite(r)
  BY <1>4 DEF Create, Submit, PrelabelWrite, PromoteOneWrite, Start, Draw, Reject, AcceptWrite
<1>5. QED
  BY <1>1, <1>2, <1>3, <1>4, Steps

\* One more document is done, and counted under its outcome.
LEMMA CountDocument ==
    ASSUME TypeInv, CountsOK, worker # Free, worker' # Free,
           NEW d \in Docs, NEW status \in {"failed", "succeeded"},
           d \in Left, Left' = Left \ {d}, batch' = batch, worker'.batch = worker.batch,
           worker'.stage = "loop", outcome' = Marked(d, status),
           worker'.succeeded = worker.succeeded + (IF status = "succeeded" THEN 1 ELSE 0),
           worker'.failed = worker.failed + (IF status = "failed" THEN 1 ELSE 0)
    PROVE  CountsOK'
<1> DEFINE b == worker.batch
           D == batch[b].docs
           f == outcome[b]
           g == outcome'[b]
<1>1. /\ b \in Batches /\ D \in SUBSET Docs /\ d \in D /\ Left \subseteq D
      /\ batch[b].status = "running"
  BY WorkerIs DEF TypeInv, BatchOK, BatchRow, CountsOK
<1>2. g[d] = status /\ \A e \in D : e # d => g[e] = f[e]
  BY <1>1, Marks
<1>3. Done' = Done \cup {d} /\ d \notin Done /\ Done \in SUBSET Docs /\ Done \subseteq D
  BY <1>1 DEF Done
<1>4. \A s : Ended(b, Done, s)' = {e \in Done \cup {d} : g[e] = s}
  BY <1>3 DEF Ended
<1>5. \A s : Ended(b, Done, s) = {e \in Done : f[e] = s}
  BY DEF Ended
<1> HIDE DEF b, D, f, g
<1>6. ASSUME NEW s
      PROVE  Cardinality(Ended(b, Done, s)') =
                 Cardinality(Ended(b, Done, s)) + (IF status = s THEN 1 ELSE 0)
  <2> DEFINE S == Ended(b, Done, s)
             T == Ended(b, Done, s)'
  <2>1. S \in SUBSET Docs /\ d \notin S
    BY <1>3, <1>5
  <2>2. T = IF status = s THEN S \cup {d} ELSE S
    <3>1. T = {e \in Done \cup {d} : g[e] = s} /\ S = {e \in Done : f[e] = s}
      BY <1>4, <1>5
    <3>2. \A e \in Done : g[e] = f[e]
      BY <1>2, <1>3
    <3> HIDE DEF S, T
    <3>3. QED
      BY <1>2, <3>1, <3>2
  <2> HIDE DEF S, T
  <2>3. IsFiniteSet(S)
    BY <2>1, DocsAssumption, FS_Subset
  <2>4. Cardinality(S) \in Nat /\ Cardinality(S \cup {d}) = Cardinality(S) + 1
    BY <2>1, <2>3, FS_CardinalityType, FS_AddElement
  <2>5. Cardinality(T) = Cardinality(S) + (IF status = s THEN 1 ELSE 0)
    BY <2>2, <2>4
  <2>6. QED
    BY <2>5 DEF S, T
<1>7. /\ worker.succeeded = Cardinality(Ended(b, Done, "succeeded"))
      /\ worker.failed = Cardinality(Ended(b, Done, "failed"))
      /\ \A e \in Done : f[e] \in {"succeeded", "failed"}
  BY DEF CountsOK, b, f
<1>8. /\ worker'.succeeded = Cardinality(Ended(b, Done, "succeeded"))'
      /\ worker'.failed = Cardinality(Ended(b, Done, "failed"))'
  BY <1>6, <1>7
<1>9. \A e \in Done' : g[e] \in {"succeeded", "failed"}
  BY <1>2, <1>3, <1>7
<1>10. Left' \subseteq D
  BY <1>1
<1>11. b' = b /\ D' = D
  BY DEF b, D
<1>12. QED
  BY <1>1, <1>8, <1>9, <1>10, <1>11 DEF CountsOK, b, D, g

LEMMA StepCounts == TypeInv /\ CountsOK /\ [Next]_vars => CountsOK'
<1> SUFFICES ASSUME TypeInv, CountsOK, [Next]_vars, worker' # Free PROVE CountsOK'
  BY DEF CountsOK
<1>1. ASSUME worker # Free
      PROVE  /\ worker.batch \in Batches /\ worker.stage \in {"loop", "replace", "promote"}
             /\ batch[worker.batch].docs \in SUBSET Docs
  BY <1>1, WorkerIs DEF TypeInv, BatchOK, BatchRow
<1>2. ASSUME NEW b \in Batches, Begin(b) PROVE CountsOK'
  <2>1. /\ batch'[b].status = "running" /\ batch'[b].docs = batch[b].docs
    BY <1>2 DEF Begin, TypeInv, BatchOK, BatchRow
  <2>2. /\ worker'.stage = "loop" /\ worker'.batch = b /\ worker'.todo = batch[b].docs
        /\ worker'.succeeded = 0 /\ worker'.failed = 0
    BY <1>2 DEF Begin
  <2>3. Left' = batch[b].docs /\ Done' = {}
    BY <2>1, <2>2 DEF Left, Done
  <2>4. \A s : Ended(b, Done, s)' = {}
    BY <2>3 DEF Ended
  <2>5. Cardinality(Ended(b, Done, "succeeded")') = 0 /\ Cardinality(Ended(b, Done, "failed")') = 0
    BY <2>4, FS_EmptySet
  <2>6. QED
    BY <2>1, <2>2, <2>3, <2>5 DEF CountsOK
<1>3. ASSUME NEW d \in Docs, DocumentFails(d) PROVE CountsOK'
  <2>1. worker \in LoopRow /\ worker # Free
    BY <1>3, WorkerIs, Constants DEF TypeInv, DocumentFails
  <2>2. /\ worker'.stage = "loop" /\ worker'.batch = worker.batch /\ worker'.todo = worker.todo \ {d}
        /\ worker'.succeeded = worker.succeeded /\ worker'.failed = worker.failed + 1
        /\ worker.stage = "loop"
    BY <1>3, <2>1 DEF DocumentFails, LoopRow
  <2>3. Left = worker.todo /\ Left' = worker'.todo
    BY <2>2 DEF Left
  <2>4. d \in Left /\ batch' = batch /\ outcome' = Marked(d, "failed")
    BY <1>3, <2>3 DEF DocumentFails
  <2>5. worker'.succeeded = worker.succeeded + 0
    BY <2>1, <2>2 DEF LoopRow
  <2>6. QED
    BY <2>1, <2>2, <2>3, <2>4, <2>5, CountDocument
<1>4. ASSUME NEW d \in Docs, Extract(d) PROVE CountsOK'
  <2>1. worker \in LoopRow /\ worker # Free
    BY <1>4, WorkerIs, Constants DEF TypeInv, Extract
  <2>2. /\ worker'.stage = "replace" /\ worker'.batch = worker.batch
        /\ worker'.todo = worker.todo \ {d} /\ worker'.doc = d
        /\ worker'.succeeded = worker.succeeded /\ worker'.failed = worker.failed
        /\ worker.stage = "loop" /\ d \in worker.todo /\ UNCHANGED <<batch, outcome>>
    BY <1>4 DEF Extract, tables
  <2>3. Left' = Left
    BY <2>2 DEF Left
  <2>4. Done' = Done /\ \A s : Ended(worker.batch, Done, s)' = Ended(worker.batch, Done, s)
    BY <2>2, <2>3 DEF Done, Ended
  <2>5. QED
    BY <2>1, <2>2, <2>3, <2>4 DEF CountsOK
<1>5. CASE ExtractWrite
  <2>1. worker \in ReplaceRow /\ worker # Free
    BY <1>5, WorkerIs, Constants DEF TypeInv, ExtractWrite
  <2>2. /\ worker'.stage = "loop" /\ worker'.batch = worker.batch /\ worker'.todo = worker.todo
        /\ worker'.succeeded = worker.succeeded + 1 /\ worker'.failed = worker.failed
        /\ worker.stage = "replace"
    BY <1>5 DEF ExtractWrite
  <2>3. /\ Left = worker.todo \cup {worker.doc} /\ Left' = worker.todo
        /\ worker.doc \notin worker.todo
    BY <2>1, <2>2 DEF Left, CountsOK
  <2>4. /\ worker.doc \in Docs /\ worker'.failed = worker.failed + 0
    BY <2>1, <2>2 DEF ReplaceRow
  <2>5. batch' = batch /\ outcome' = Marked(worker.doc, "succeeded")
    BY <1>5 DEF ExtractWrite
  <2>6. worker.doc \in Left /\ Left' = Left \ {worker.doc}
    BY <2>3
  <2>7. QED
    BY <2>1, <2>2, <2>4, <2>5, <2>6, CountDocument
<1>6. CASE Finish
  <2>1. worker \in LoopRow /\ worker # Free /\ worker.stage = "loop" /\ worker.todo = {}
    BY <1>6, WorkerIs, Constants DEF TypeInv, Finish
  <2>2. /\ Claims(worker.batch) /\ UNCHANGED <<batch, outcome>>
        /\ worker' = [worker EXCEPT !.stage = "promote", !.todo = Of(batch[worker.batch].docs)]
    BY <1>6, FinishIs
  <2>3. /\ worker'.stage = "promote" /\ worker'.batch = worker.batch
        /\ worker'.succeeded = worker.succeeded /\ worker'.failed = worker.failed
    BY <2>1, <2>2 DEF LoopRow
  <2>4. Left = {} /\ Left' = {}
    BY <2>1, <2>3 DEF Left
  <2>5. Done' = Done /\ \A s : Ended(worker.batch, Done, s)' = Ended(worker.batch, Done, s)
    BY <2>2, <2>3, <2>4 DEF Done, Ended
  <2>6. Claims(worker.batch)'
    BY <2>2, <2>3 DEF Claims
  <2>7. QED
    BY <2>1, <2>2, <2>3, <2>4, <2>5, <2>6 DEF CountsOK
<1>7. CASE /\ worker' = worker
           /\ ~ \E b \in Batches : Begin(b)
           /\ ~ \E d \in Docs : DocumentFails(d) \/ Extract(d)
           /\ ~ExtractWrite /\ ~Finish
  <2>1. worker # Free /\ worker.batch \in Batches /\ batch[worker.batch].status = "running"
    BY <1>1, <1>7 DEF CountsOK
  <2>2. ~FinishPromote
    BY <1>7 DEF FinishPromote
  <2>3. Same(worker.batch)
    BY <1>7, <2>1, <2>2, RowStep
  <2>4. Left' = Left
    BY <1>7 DEF Left
  <2>5. Done' = Done /\ \A s : Ended(worker.batch, Done, s)' = Ended(worker.batch, Done, s)
    BY <1>7, <2>3, <2>4 DEF Done, Ended, Same
  <2>6. Claims(worker.batch)' <=> Claims(worker.batch)
    BY <1>7, <2>3 DEF Claims, Same
  <2>7. QED
    BY <1>7, <2>1, <2>3, <2>4, <2>5, <2>6 DEF CountsOK, Same
<1>8. QED
  BY <1>2, <1>3, <1>4, <1>5, <1>6, <1>7, WorkerStep

\* Only the promotion of a large batch counts one, and makes it eligible.
LEMMA StepAutos == TypeInv /\ BatchInv /\ [Next]_vars => AutosOK'
<1> SUFFICES ASSUME TypeInv, BatchInv, [Next]_vars, NEW b \in Large
             PROVE  autos'[b] = IF batch'[b].eligible THEN 1 ELSE 0
  BY DEF AutosOK
<1>1. /\ b \in Batches /\ batch = [a \in Batches |-> batch[a]] /\ batch[b] \in BatchRow
      /\ autos = [a \in Large |-> autos[a]]
      /\ autos[b] = IF batch[b].eligible THEN 1 ELSE 0
  BY DEF Batches, TypeInv, BatchOK, BatchInv, AutosOK
<1>2. CASE FinishPromote
  <2>1. /\ worker # Free /\ worker.stage = "promote"
        /\ autos' = [autos EXCEPT ![worker.batch] = @ + 1]
        /\ batch' = [batch EXCEPT ![worker.batch] =
                         [Completed(worker.batch) EXCEPT !.eligible = TRUE, !.approved = TRUE]]
    BY <1>2, Constants DEF FinishPromote
  <2>2. Claims(worker.batch)
    BY <2>1 DEF BatchInv, CountsOK
  <2>3. worker.batch = b => autos[b] = 0 /\ autos'[b] = 1
    BY <1>1, <2>1, <2>2 DEF Claims
  <2>4. worker.batch = b => batch'[b].eligible = TRUE
    BY <1>1, <2>1 DEF Completed, BatchRow
  <2>5. worker.batch # b => autos'[b] = autos[b] /\ batch'[b] = batch[b]
    BY <1>1, <2>1
  <2>6. QED
    BY <1>1, <2>3, <2>4, <2>5
<1>3. CASE ~FinishPromote
  <2>1. autos' = autos
    <3>1. CASE Next
      BY <1>3, <3>1, RowsLeft, FinishIs DEF Begin, DocumentFails, ExtractWrite, Create, AcceptWrite
    <3>2. CASE UNCHANGED vars
      BY <3>2 DEF vars, tables
    <3>3. QED
      BY <3>1, <3>2
  <2>2. batch'[b].eligible = batch[b].eligible
    <3>1. CASE Begin(b)
      BY <1>1, <3>1 DEF Begin, BatchRow
    <3>2. CASE ExtractWrite \/ \E d \in Docs : DocumentFails(d)
      BY <3>2 DEF ExtractWrite, DocumentFails
    <3>3. CASE Finish
      BY <1>1, <1>3, <3>3, FinishIs, CompletedIs
    <3>4. QED
      BY <1>1, <1>3, <3>1, <3>2, <3>3, RowStep DEF Same
  <2>3. QED
    BY <1>1, <2>1, <2>2
<1>4. QED
  BY <1>2, <1>3

\* When nothing is left of a batch its counts are those of its outcomes.
LEMMA AllDone ==
    ASSUME TypeInv, CountsOK, worker # Free, Left = {}
    PROVE  /\ worker.succeeded = Cardinality(Succeeded(worker.batch))
           /\ worker.failed = Cardinality(batch[worker.batch].docs \ Succeeded(worker.batch))
<1> DEFINE b == worker.batch
<1>1. Done = batch[b].docs
  BY DEF Done
<1>2. Ended(b, Done, "succeeded") = Succeeded(b)
  BY <1>1 DEF Ended, Succeeded
<1>3. Ended(b, Done, "failed") = batch[b].docs \ Succeeded(b)
  BY <1>1 DEF Ended, Succeeded, CountsOK
<1>4. QED
  BY <1>2, <1>3 DEF CountsOK

\* A batch is completed once all its documents are done, and promoted then if it is to be.
LEMMA StepAdds == ASSUME TypeInv, BatchInv, [Next]_vars, NEW b \in Batches PROVE Adds(b)'
<1>1. /\ Adds(b) /\ batch = [a \in Batches |-> batch[a]] /\ batch[b] \in BatchRow
      /\ outcome = [a \in Batches |-> outcome[a]]
  BY DEF TypeInv, BatchOK, OutcomeOK, BatchInv
<1>2. CASE Same(b)
  <2>1. Succeeded(b)' = Succeeded(b)
    BY <1>2 DEF Same, Succeeded
  <2>2. QED
    BY <1>1, <1>2, <2>1 DEF Adds, Same
<1>3. CASE batch'[b].status \in {"queued", "running"}
  BY <1>3 DEF Adds
<1>4. ASSUME worker # Free, b = worker.batch, batch' = batch PROVE Adds(b)'
  BY <1>4, <1>3 DEF BatchInv, CountsOK
<1>5. ASSUME worker # Free, b = worker.batch, Finish \/ FinishPromote PROVE Adds(b)'
  <2>1. Left = {}
    BY <1>5 DEF Left, Finish, FinishPromote
  <2>2. /\ worker.succeeded = Cardinality(Succeeded(b))
        /\ worker.failed = Cardinality(batch[b].docs \ Succeeded(b))
    BY <1>5, <2>1, AllDone DEF BatchInv
  <2>3. CASE batch' = batch
    BY <1>4, <1>5, <2>3
  <2>4. CASE batch' # batch
    <3>1. /\ batch'[b].state = StateOf(worker.succeeded, worker.failed)
          /\ batch'[b].docs = batch[b].docs
          /\ batch'[b].eligible = TRUE \/ (batch'[b].eligible = batch[b].eligible /\ ~Claims(b))
      <4>1. CASE Finish
        <5>1. ~FinishPromote
          BY <4>1 DEF Finish, FinishPromote
        <5>2. ~Claims(b) /\ batch' = [batch EXCEPT ![b] = Completed(b)]
          BY <1>5, <2>4, <4>1, <5>1, FinishIs
        <5>3. batch'[b] = Completed(b)
          BY <1>1, <5>2
        <5>4. QED
          BY <5>2, <5>3, CompletedIs
      <4>2. CASE FinishPromote
        <5>1. batch'[b] = [Completed(b) EXCEPT !.eligible = TRUE, !.approved = TRUE]
          BY <1>1, <1>5, <4>2 DEF FinishPromote
        <5>2. QED
          BY <1>1, <5>1, CompletedIs DEF Completed, BatchRow
      <4>3. QED
        BY <1>5, <4>1, <4>2
    <3>2. Succeeded(b)' = Succeeded(b)
      BY <1>5, <3>1, FinishIs DEF Succeeded
    <3>3. Succeeded(b) # {} => worker.succeeded > 0
      <4>1. Succeeded(b) \in SUBSET Docs
        BY <1>1 DEF Succeeded, BatchRow
      <4>2. IsFiniteSet(Succeeded(b))
        BY <4>1, DocsAssumption, FS_Subset
      <4>3. QED
        BY <2>2, <4>2, FS_CardinalityType, FS_EmptySet
    <3>4. (b \in Large /\ Succeeded(b) # {}) => batch'[b].eligible
      BY <3>1, <3>3 DEF Claims
    <3>5. QED
      BY <2>2, <3>1, <3>2, <3>4 DEF Adds
  <2>5. QED
    BY <2>3, <2>4
<1>6. QED
  <2>1. ASSUME ExtractWrite \/ \E d \in Docs : DocumentFails(d) PROVE batch' = batch
    BY <2>1 DEF ExtractWrite, DocumentFails
  <2>2. QED
    BY <1>2, <1>3, <1>4, <1>5, <2>1, RowStep

LEMMA StepBatchInv == TypeInv /\ BatchInv /\ [Next]_vars => BatchInv'
<1> SUFFICES ASSUME TypeInv, BatchInv, [Next]_vars PROVE BatchInv'
  OBVIOUS
<1>1. CountsOK' /\ AutosOK'
  BY StepCounts, StepAutos DEF BatchInv
<1>2. \A b \in Batches : Adds(b)'
  BY StepAdds
<1>3. Batches' = Batches
  BY DEF Batches
<1>4. QED
  BY <1>1, <1>2, <1>3 DEF BatchInv

\* A completed batch's state is what its documents' outcomes make it, and a large one
\* with a success has been promoted once: whenever the worker died or raised, and
\* however often the task was delivered (run_prelabel_batch_sync with
\* _auto_promote_large_batch).
THEOREM CompletedAdds == Spec => []CompletedAddsUp
<1>1. TypeInv /\ BatchInv => CompletedAddsUp
  BY DEF BatchInv, AutosOK, Adds, CompletedAddsUp
<1>2. QED
  BY <1>1, InitType, StepTypeInv, InitBatch, StepBatchInv, PTL DEF Spec
=============================================================================
