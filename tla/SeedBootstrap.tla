----------------------------- MODULE SeedBootstrap -----------------------------
(***************************************************************************)
(* Pre-labelling batches and the acceptance gate of one tenant             *)
(* (annotation_service/api/v1/seed_bootstrap and worker): an initial batch *)
(* is reviewed on a sample of its documents and promoted as a whole or not *)
(* at all, and opens the way to large ones, promoted without a review. The *)
(* one worker (a solo pool) runs beside the endpoints that pre-label and   *)
(* promote one document's suggestions (api/v1/spans, llm_prelabel).        *)
(*                                                                         *)
(* A step is what a transaction has read up to where another may come      *)
(* between (READ COMMITTED), or its commit. A suggestion is its document   *)
(* and a number that stands for its id; a run finds one at most.           *)
(***************************************************************************)
EXTENDS Integers, FiniteSets

CONSTANTS
    Docs,           \* documents with extracted text
    Initial, Large, \* the batches that may be asked for, by batch_kind
    Requests,       \* requests the API serves at a time
    SampleSize,     \* settings.seed_bootstrap_sample_size
    Threshold,      \* settings.seed_bootstrap_agreement_threshold, in percent
    MaxMade,        \* bounds the suggestions
    MaxReviews      \* bounds the acceptance records of initial batches

ASSUME DocsAssumption == IsFiniteSet(Docs)
ASSUME BoundsAssumption == MaxMade \in Nat /\ MaxReviews \in Nat
ASSUME KindsAssumption == Initial \cap Large = {}
ASSUME SampleAssumption == SampleSize \in Nat \ {0}
ASSUME ThresholdAssumption == Threshold \in 0..100

VARIABLES
    sugg,     \* suggested_spans
    spans,    \* the spans made of suggestions, and what promoted them
    batch,    \* prelabel_batches
    outcome,  \* prelabel_batch_documents
    review,   \* batch_acceptance_records of the initial batches, by created_at
    autos,    \* how many the large batches have, written by the worker
    queue,    \* batches whose task the broker will deliver
    worker,   \* the locals of run_prelabel_batch_sync
    req,      \* the locals of the requests
    stamped,  \* how many reviews were started: the clock of created_at
    made      \* how many suggestions there ever were: the source of their ids

tables == <<sugg, spans, batch, outcome, review, autos>>
clocks == <<stamped, made>>
vars == <<tables, queue, worker, req, clocks>>

-----------------------------------------------------------------------------
Batches == Initial \cup Large
Reviews == 1..MaxReviews

\* What promoted a span, if not a review.
Hand == 0
AutoPromoted == -1

Absent == [status |-> "absent", state |-> "none", docs |-> {}, approved |-> FALSE, eligible |-> FALSE]
NoReview == [decision |-> "none"]
Free == [stage |-> "free"]
Idle == [stage |-> "idle"]

Init ==
    /\ sugg = {} /\ spans = {}
    /\ batch = [b \in Batches |-> Absent]
    /\ outcome = [b \in Batches |-> [d \in {} |-> "pending"]]
    /\ review = [v \in Reviews |-> NoReview]
    /\ autos = [b \in Large |-> 0]
    /\ queue = {} /\ worker = Free /\ req = [r \in Requests |-> Idle]
    /\ stamped = 0 /\ made = 0

-----------------------------------------------------------------------------
(* Suggestions: replaced by every run of their document, moved to spans    *)
(* when they are promoted.                                                 *)

Of(docs) == {s \in sugg : s.doc \in docs}

\* What a run may find in a document.
Finds(d) == {{}} \cup {{[doc |-> d, n |-> n]} : n \in {made + 1} \cap 1..MaxMade}

\* The DELETE has removed what it saw; what is inserted beside it stays.
Replace(seen, found) ==
    /\ sugg' = (sugg \ seen) \cup found
    /\ made' = made + Cardinality(found)

\* A variant of Promote: whatever the documents have is deleted.
PromoteDocuments(seen, by) ==
    /\ spans' = spans \cup {[of |-> s, by |-> by] : s \in seen}
    /\ sugg' = sugg \ Of({s.doc : s \in seen})

\* Inserted as spans and deleted one by one, by id.
Promote(seen, by) ==
    /\ spans' = spans \cup {[of |-> s, by |-> by] : s \in seen}
    /\ sugg' = sugg \ seen

-----------------------------------------------------------------------------
(* The endpoints.                                                          *)

Answered(r) == req' = [req EXCEPT ![r] = Idle]
Holds(r, locals) == req[r] = Idle /\ req' = [req EXCEPT ![r] = locals]

\* create_prelabel_batch: a large batch waits for an approved initial one. The process
\* may die once the batch is stored, before its task is sent.
Create(b, docs) ==
    /\ batch[b] = Absent
    /\ b \in Large => \E i \in Initial : batch[i].approved
    /\ batch' = [batch EXCEPT ![b] = [Absent EXCEPT !.status = "queued", !.state = "queued",
                                                    !.docs = docs]]
    /\ outcome' = [outcome EXCEPT ![b] = [d \in docs |-> "pending"]]
    /\ queue' \in {queue, queue \cup {b}}
    /\ UNCHANGED <<sugg, spans, review, autos, worker, req, clocks>>

\* prelabel_document, and trigger_llm_prelabel when its cache has the answer; when it has
\* not, the worker does as much between two batches.
Prelabel(r, d) ==
    /\ Holds(r, [stage |-> "prelabel", doc |-> d, seen |-> Of({d})])
    /\ UNCHANGED <<tables, queue, worker, clocks>>

PrelabelWrite(r) ==
    /\ req[r].stage = "prelabel"
    /\ \E found \in Finds(req[r].doc) : Replace(req[r].seen, found)
    /\ Answered(r)
    /\ UNCHANGED <<spans, batch, outcome, review, autos, queue, worker, stamped>>

\* promote_suggested_span
PromoteOne(r, s) ==
    /\ s \in sugg
    /\ Holds(r, [stage |-> "promote", suggestion |-> s])
    /\ UNCHANGED <<tables, queue, worker, clocks>>

PromoteOneWrite(r) ==
    /\ req[r].stage = "promote"
    /\ Promote({req[r].suggestion}, Hand)
    /\ Answered(r)
    /\ UNCHANGED <<batch, outcome, review, autos, queue, worker, clocks>>

\* The API process dies before it commits, or before it sends.
RequestDies(r) ==
    /\ req[r] # Idle
    /\ Answered(r)
    /\ UNCHANGED <<tables, queue, worker, clocks>>

-----------------------------------------------------------------------------
(* The acceptance gate: of initial batches only, in whatever state.        *)

ReviewsOf(b) == {v \in Reviews : review[v] # NoReview /\ review[v].batch = b}
Latest(b) == CHOOSE v \in ReviewsOf(b) : \A u \in ReviewsOf(b) : u <= v
UnderReview(b) == ReviewsOf(b) # {} /\ review[Latest(b)].decision = "in_review"

\* start_acceptance_review: there is no record yet.
Start(r, b) ==
    /\ batch[b] # Absent /\ ReviewsOf(b) = {} /\ stamped < MaxReviews
    /\ stamped' = stamped + 1
    /\ Holds(r, [stage |-> "draw", batch |-> b, review |-> stamped + 1])
    /\ UNCHANGED <<tables, queue, worker, made>>

\* draw_sample. With sampling disabled SampleSize is no less than any batch.
Samples(docs) == {s \in SUBSET docs : \/ Cardinality(s) = SampleSize
                                      \/ s = docs /\ Cardinality(s) < SampleSize}

Draw(r) ==
    /\ req[r].stage = "draw"
    /\ \E sample \in Samples(batch[req[r].batch].docs) :
          review' = [review EXCEPT ![req[r].review] =
                [batch |-> req[r].batch, sample |-> sample, decision |-> "in_review",
                 reviewed |-> {}, agreed |-> {}]]
    /\ Answered(r)
    /\ UNCHANGED <<sugg, spans, batch, outcome, autos, queue, worker, clocks>>

\* submit_acceptance_review: any of the sample's suggestions, and any verdict. (What it
\* writes over a decision taken since it looked, nothing reads.)
Submit(b) ==
    /\ UnderReview(b)
    /\ \E reviewed \in SUBSET Of(review[Latest(b)].sample) : \E agreed \in SUBSET reviewed :
          review' = [review EXCEPT ![Latest(b)].reviewed = reviewed,
                                   ![Latest(b)].agreed = agreed]
    /\ UNCHANGED <<sugg, spans, batch, outcome, autos, queue, worker, req, clocks>>

\* A variant of Reviewed: as many as there are.
ReviewedAsMany(v) ==
    LET expected == Of(v.sample)
    IN expected # {} /\ Cardinality(v.reviewed) = Cardinality(expected)

Reviewed(v) == Of(v.sample) # {} /\ v.reviewed = Of(v.sample)

\* agreement_rate
Agreed(v) == Cardinality(v.agreed) * 100 >= Threshold * Cardinality(v.reviewed)

\* accept_batch: the gate is read, then the batch's suggestions, then all is written.
Accept(r, b) ==
    /\ UnderReview(b) /\ Reviewed(review[Latest(b)])
    /\ Holds(r, [stage |-> IF Agreed(review[Latest(b)]) THEN "gather" ELSE "reject", batch |-> b,
                 review |-> Latest(b),
                 gate |-> [review |-> Latest(b), reviewed |-> review[Latest(b)].reviewed,
                           asOf |-> made]])
    /\ UNCHANGED <<tables, queue, worker, clocks>>

Reject(r) ==
    /\ req[r].stage = "reject"
    /\ review' = [review EXCEPT ![req[r].review].decision = "rejected"]
    /\ Answered(r)
    /\ UNCHANGED <<sugg, spans, batch, outcome, autos, queue, worker, clocks>>

Gather(r) ==
    /\ req[r].stage = "gather"
    /\ req' = [req EXCEPT ![r] = [stage |-> "accept", batch |-> @.batch, review |-> @.review,
                                  gate |-> @.gate, seen |-> Of(batch[@.batch].docs)]]
    /\ UNCHANGED <<tables, queue, worker, clocks>>

AcceptWrite(r) ==
    /\ req[r].stage = "accept"
    /\ Promote(req[r].seen, req[r].review)
    /\ review' = [review EXCEPT ![req[r].review].decision = "accepted"]
    /\ batch' = [batch EXCEPT ![req[r].batch].approved = TRUE]
    /\ Answered(r)
    /\ UNCHANGED <<outcome, autos, queue, worker, clocks>>

-----------------------------------------------------------------------------
(* run_prelabel_batch_sync.                                                *)

Begin(b) ==
    /\ worker = Free /\ b \in queue
    /\ queue' = queue \ {b}
    /\ batch' = [batch EXCEPT ![b].status = "running", ![b].state = "processing"]
    /\ worker' = [stage |-> "loop", batch |-> b, todo |-> batch[b].docs, succeeded |-> 0, failed |-> 0]
    /\ UNCHANGED <<sugg, spans, outcome, review, autos, req, clocks>>

Marked(d, status) == [outcome EXCEPT ![worker.batch][d] = status]

\* Local detection, the provider or its answer fails: one document, one failure.
DocumentFails(d) ==
    /\ worker.stage = "loop" /\ d \in worker.todo
    /\ outcome' = Marked(d, "failed")
    /\ worker' = [worker EXCEPT !.todo = @ \ {d}, !.failed = @ + 1]
    /\ UNCHANGED <<sugg, spans, batch, review, autos, queue, req, clocks>>

\* The provider has answered; the old suggestions are deleted.
Extract(d) ==
    /\ worker.stage = "loop" /\ d \in worker.todo
    /\ worker' = [stage |-> "replace", batch |-> worker.batch, todo |-> worker.todo \ {d},
                  succeeded |-> worker.succeeded, failed |-> worker.failed,
                  doc |-> d, seen |-> Of({d})]
    /\ UNCHANGED <<tables, queue, req, clocks>>

ExtractWrite ==
    /\ worker.stage = "replace"
    /\ \E found \in Finds(worker.doc) : Replace(worker.seen, found)
    /\ outcome' = Marked(worker.doc, "succeeded")
    /\ worker' = [stage |-> "loop", batch |-> worker.batch, todo |-> worker.todo,
                  succeeded |-> worker.succeeded + 1, failed |-> worker.failed]
    /\ UNCHANGED <<spans, batch, review, autos, queue, req, stamped>>

StateOf(succeeded, failed) ==
    CASE succeeded > 0 /\ failed > 0 -> "partially_completed"
      [] succeeded = 0 /\ failed > 0 -> "failed"
      [] OTHER -> "completed"

Completed(b) == [batch[b] EXCEPT !.status = "completed",
                                 !.state = StateOf(worker.succeeded, worker.failed)]

\* A variant of Claims: a batch is promoted by every run of its task.
ClaimsAlways(b) == b \in Large /\ worker.succeeded > 0
Claims(b) == b \in Large /\ worker.succeeded > 0 /\ ~batch[b].eligible

Finish ==
    /\ worker.stage = "loop" /\ worker.todo = {}
    /\ LET b == worker.batch
       IN IF Claims(b)
          THEN /\ worker' = [worker EXCEPT !.stage = "promote", !.todo = Of(batch[b].docs)]
               /\ UNCHANGED batch
          ELSE /\ worker' = Free
               /\ batch' = [batch EXCEPT ![b] = Completed(b)]
    /\ UNCHANGED <<sugg, spans, outcome, review, autos, queue, req, clocks>>

\* _auto_promote_large_batch, in the transaction that completes the batch.
FinishPromote ==
    /\ worker.stage = "promote"
    /\ LET b == worker.batch
       IN /\ Promote(worker.todo, AutoPromoted)
          /\ batch' = [batch EXCEPT ![b] = [Completed(b) EXCEPT !.eligible = TRUE, !.approved = TRUE]]
          /\ autos' = [autos EXCEPT ![b] = @ + 1]
    /\ worker' = Free
    /\ UNCHANGED <<outcome, review, queue, req, clocks>>

\* Anything outside the extraction raises: the message is acknowledged all the same.
Raises ==
    /\ worker # Free
    /\ worker' = Free
    /\ UNCHANGED <<tables, queue, req, clocks>>

\* The process dies, before its last commit or right after: acks_late.
Dies ==
    /\ worker # Free
    /\ worker' = Free
    /\ queue' = queue \cup {worker.batch}
    /\ UNCHANGED <<tables, req, clocks>>

\* The broker's visibility timeout passes.
Redeliver ==
    /\ worker # Free
    /\ queue' = queue \cup {worker.batch}
    /\ UNCHANGED <<tables, worker, req, clocks>>

-----------------------------------------------------------------------------
Request(r) ==
    \/ \E d \in Docs : Prelabel(r, d)
    \/ PrelabelWrite(r)
    \/ \E s \in sugg : PromoteOne(r, s)
    \/ PromoteOneWrite(r)
    \/ \E b \in Initial : Start(r, b) \/ Accept(r, b)
    \/ Draw(r) \/ Reject(r) \/ Gather(r) \/ AcceptWrite(r)
    \/ RequestDies(r)

Work ==
    \/ \E b \in Batches : Begin(b)
    \/ \E d \in Docs : DocumentFails(d) \/ Extract(d)
    \/ ExtractWrite \/ Finish \/ FinishPromote
    \/ Raises \/ Dies \/ Redeliver

Next ==
    \/ Work
    \/ \E b \in Batches, docs \in (SUBSET Docs) \ {{}} : Create(b, docs)
    \/ \E b \in Initial : Submit(b)
    \/ \E r \in Requests : Request(r)

Spec == Init /\ [][Next]_vars

-----------------------------------------------------------------------------
Suggestion == [doc : Docs, n : 1..MaxMade]
Span == [of : Suggestion, by : {Hand, AutoPromoted} \cup Reviews]
BatchRow ==
    [status : {"absent", "queued", "running", "completed"},
     state : {"none", "queued", "processing", "completed", "partially_completed", "failed"},
     docs : SUBSET Docs, approved : BOOLEAN, eligible : BOOLEAN]
Verdict ==
    [batch : Initial, sample : SUBSET Docs, decision : {"in_review", "accepted", "rejected"},
     reviewed : SUBSET Suggestion, agreed : SUBSET Suggestion]

TypeOK ==
    /\ sugg \subseteq Suggestion
    /\ spans \subseteq Span
    /\ batch \in [Batches -> BatchRow]
    /\ \A b \in Batches : outcome[b] \in [batch[b].docs -> {"pending", "succeeded", "failed"}]
    /\ review \in [Reviews -> {NoReview} \cup Verdict]
    /\ autos \in [Large -> Nat] /\ queue \subseteq Batches
    /\ stamped \in 0..MaxReviews /\ made \in 0..MaxMade

-----------------------------------------------------------------------------
(* What batches promise.                                                   *)

Succeeded(b) == {d \in batch[b].docs : outcome[b][d] = "succeeded"}

\* A completed batch's state is what its documents' outcomes make it, and a large
\* one with a success has been promoted to training data, once, however often its
\* task died half-way or was delivered again after it was done.
CompletedAddsUp ==
    \A b \in Batches : batch[b].status = "completed" =>
        /\ batch[b].state = StateOf(Cardinality(Succeeded(b)),
                                    Cardinality(batch[b].docs \ Succeeded(b)))
        /\ b \in Large => /\ Succeeded(b) # {} => autos[b] = 1
                          /\ autos[b] \in {0, 1}

\* A suggestion is promoted by an accepted review of its document only if a reviewer
\* gave it a verdict, whatever pre-labelled or promoted the document since the verdicts
\* were given; unless it was made after the gate had been passed.
PromotedWasReviewed ==
    [][\A x \in spans' \ spans : x.by \in Reviews /\ x.of.doc \in review[x.by].sample =>
          \E r \in Requests :
              /\ req[r].stage = "accept" /\ req[r].review = x.by
              /\ x.of \in req[r].gate.reviewed \/ x.of.n > req[r].gate.asOf]_vars

\* No suggestion is lost: it goes when a span was made of it, or a later run of its
\* document has replaced it, and with nothing that was inserted meanwhile.
NothingLost ==
    [][\A s \in sugg \ sugg' :
          \/ \E x \in spans' : x.of = s
          \/ worker.stage = "replace" /\ s \in worker.seen
          \/ \E r \in Requests : req[r].stage = "prelabel" /\ s \in req[r].seen]_vars
================================================================================
