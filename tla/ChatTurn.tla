----------------------------- MODULE ChatTurn -----------------------------
(***************************************************************************)
(* One conversation of the chat API, turn after turn: the planner's plan,  *)
(* the resolution of the people a question names (with a clarification     *)
(* that spans turns, and a binding that later turns inherit), the          *)
(* execution of the plan under an invocation cap and a deadline, the one   *)
(* bounded semantic recovery, the evidence that is cited, and the reply    *)
(* the citation guardrail lets through.  Documents are deleted meanwhile.  *)
(*                                                                         *)
(* A question is what resolution reads of it: the names it holds and       *)
(* whether it points back ("her email").  A query is the set of names the  *)
(* planner wrote into it.  Evidence is the set of documents it came from:  *)
(* a chunk and a row are the document they belong to.  `tabular` stands    *)
(* for the two capabilities that search no documents (uploaded files, the  *)
(* connected database), `unknown` for an entry the registry rejects.       *)
(*                                                                         *)
(* Left out: what the prompt says, the streaming of it (the gate is the    *)
(* guardrail's own condition), charts, document visibility, candidate      *)
(* document filtering (off by default), the pinning of a single structured *)
(* query to the question, whose names it cannot change, and attachments,   *)
(* whose rows go with their conversation.                                  *)
(***************************************************************************)
EXTENDS Naturals, FiniteSets, Sequences

CONSTANTS
    Docs,             \* documents of the tenant
    NoFile,           \* what a file name that is no document's refers to
    Names,            \* names of people
    NameOf,           \* the person a document is about
    Questions,        \* bounds the questions asked
    Shapes,           \* bounds the plans: the capabilities of their entries
    MaxInvocations,   \* settings.orchestrator_max_invocations
    MaxCandidates,    \* settings.entity_resolution_max_candidates
    MaxReasks         \* MAX_REASKS

ASSUME ChatTurnAssumption ==
    /\ NoFile \notin Docs
    /\ NameOf \in [Docs -> Names]
    /\ Questions \subseteq [names : SUBSET Names, back : BOOLEAN]
    /\ \A s \in Shapes : s \in Seq({"semantic", "structured", "tabular", "unknown"})
    /\ MaxInvocations \in Nat \ {0}
    /\ MaxCandidates \in Nat \ {0}
    /\ MaxReasks \in Nat

Searching  == {"semantic", "structured"}       \* capabilities that search documents
Attempted  == {"ok", "empty", "failed"}        \* ATTEMPTED_OUTCOMES

Everything == {}       \* the scope of an entry that has none: the whole tenant
File(d) == [file |-> d]     \* the planner is shown file names, never ids
Question == [names : SUBSET Names, back : BOOLEAN]
NoQuestion == [names |-> {}, back |-> FALSE]
NoPending == [question |-> NoQuestion, name |-> {}, candidates |-> {}, reasks |-> 0]
NewConversation == [pending |-> NoPending, bound |-> {}, called |-> {}]

Outcome(o) == [outcome |-> o, error |-> "none", found |-> {}]
Unanswered == [reply |-> "none", cited |-> {}]

VARIABLES
    docs,        \* documents not deleted: their chunks are there
    indexed,     \* documents whose person was extracted
    conv,        \* conversation_entity_state as the turn's transaction sees it
    saved,       \* and as last committed
    stage,       \* the graph node the turn is at
    message,     \* state["message"]
    plan,        \* state["retrieval_plan"]
    resolved,    \* state["resolved_document_ids"]
    unscoped,    \* state["resolution_left_entries_unscoped"]
    clock,       \* what is left of the retrieval deadline
    results,     \* of each entry of the plan
    recovery,    \* of the recovery invocation
    answer       \* the reply and what it cites

state == <<message, plan, resolved, unscoped>>
turn == <<state, clock, results, recovery, answer>>
turnVars == <<docs, indexed, conv, saved, stage, turn>>

TurnInit ==
    /\ docs = Docs
    /\ indexed \in SUBSET Docs
    /\ conv = NewConversation /\ saved = NewConversation
    /\ stage = "idle"
    /\ message = NoQuestion /\ plan = <<>> /\ resolved = {} /\ unscoped = FALSE
    /\ clock = "ample" /\ results = <<>> /\ recovery = Outcome("none")
    /\ answer = Unanswered

\* The state of the graph is gone with the turn.
EndTurn ==
    /\ stage' = "idle"
    /\ message' = NoQuestion /\ plan' = <<>> /\ resolved' = {} /\ unscoped' = FALSE
    /\ clock' = "ample" /\ results' = <<>> /\ recovery' = Outcome("none")
    /\ answer' = Unanswered

-----------------------------------------------------------------------------
(* Planning *)

Entry(c, query, scope) ==
    [capability |-> c, query |-> query, scope |-> scope, rejected |-> c = "unknown"]

\* The planner splits the question per subject, or not; the documents it scopes
\* to are files the conversation shows, when the question names nobody.
Written(q, shape, asked, scope) ==
    [i \in DOMAIN shape |->
        IF shape[i] \in Searching THEN Entry(shape[i], asked[i], scope)
        ELSE Entry(shape[i], q.names, Everything)]
Asked(q, shape) ==
    [DOMAIN shape -> {q.names} \cup {{n} : n \in q.names}]
PlannedScopes(q) ==
    {Everything} \cup (IF q.names = {} THEN {{File(d)} : d \in Docs \cup {NoFile}} ELSE {})

\* build_fallback_plan, for a planner that fails or whose entries are all rejected.
FallbackPlan(q) ==
    <<Entry("semantic", q.names, Everything), Entry("structured", q.names, Everything)>>
Plans(q) ==
    {FallbackPlan(q)} \cup
    UNION {{Written(q, shape, asked, scope) : asked \in Asked(q, shape), scope \in PlannedScopes(q)} :
              shape \in {s \in Shapes : \E i \in DOMAIN s : s[i] # "unknown"}}

Ask(q, p) ==
    /\ stage = "idle"
    /\ p \in Plans(q)
    /\ stage' = "entity_resolution"
    /\ message' = q /\ plan' = p
    /\ UNCHANGED <<docs, indexed, conv, saved, resolved, unscoped, clock, results,
                   recovery, answer>>

-----------------------------------------------------------------------------
(* Entity resolution *)

Live(p) == {i \in DOMAIN p : ~p[i].rejected}
SearchesDocuments(p) == \E i \in Live(p) : p[i].capability \in Searching

Called(n) == {d \in docs \cap indexed : NameOf[d] = n}
Matched   == {n \in message.names : Called(n) # {}}
Union     == UNION {Called(n) : n \in message.names}
Ambiguous == {n \in message.names : Cardinality(Called(n)) > 1}

\* _rewrite_plan_for_resolution: every entry that searches documents is scoped
\* to its own, and keeps the planner's scope if it has none.
Rewritten(ids, query) ==
    [i \in DOMAIN plan |->
        IF plan[i].capability \in Searching
        THEN [plan[i] EXCEPT !.scope = IF ids[i] = {} THEN @ ELSE ids[i], !.query = query[i]]
        ELSE plan[i]]
AllOf(ids) == [i \in DOMAIN plan |-> ids]
Queries == [i \in DOMAIN plan |-> plan[i].query]

\* _per_entry_documents: one of several entries of a capability is about the
\* people its own query names, who may not be known.
SplitEntries ==
    {i \in Live(plan) :
        \E j \in Live(plan) \ {i} : plan[i].capability = plan[j].capability}
PerEntry ==
    [i \in DOMAIN plan |->
        IF i \in SplitEntries
        THEN UNION {Called(n) : n \in message.names \cap plan[i].query} ELSE Union]

Resolving == stage = "entity_resolution"
Pending   == conv.pending # NoPending

\* The node hands the plan on; what it wrote is not committed before the reply is.
Retrieve(newPlan, ids, left) ==
    /\ stage' = "scope_repair"
    /\ plan' = newPlan /\ resolved' = ids /\ unscoped' = left
    /\ UNCHANGED <<docs, indexed, saved, clock, results, recovery, answer>>

\* The node's own reply ends the turn, and is committed with what it wrote.
Reply ==
    /\ EndTurn
    /\ saved' = conv'
    /\ UNCHANGED <<docs, indexed>>

\* interpret_selection reads a candidate in the message: the original question
\* is taken up, about that candidate.
Select(d) ==
    /\ Resolving /\ Pending
    /\ d \in conv.pending.candidates
    /\ conv' = [pending |-> NoPending, bound |-> {d}, called |-> {NameOf[d]}]
    /\ message' = conv.pending.question
    /\ Retrieve(Rewritten(AllOf({d}), AllOf(conv.pending.question.names)), {d}, FALSE)

Reask ==
    /\ Resolving /\ Pending
    /\ conv.pending.reasks < MaxReasks
    /\ conv' = [conv EXCEPT !.pending.reasks = @ + 1]
    /\ Reply

Abandon ==
    /\ Resolving /\ Pending
    /\ conv.pending.reasks >= MaxReasks
    /\ conv' = [conv EXCEPT !.pending = NoPending]
    /\ UNCHANGED message
    /\ Retrieve(plan, {}, FALSE)

NothingToResolve ==
    /\ Resolving /\ ~Pending
    /\ ~SearchesDocuments(plan)
    /\ UNCHANGED <<conv, message>>
    /\ Retrieve(plan, {}, FALSE)

Lookup == Resolving /\ ~Pending /\ SearchesDocuments(plan)

\* The person is the one the conversation is about already.
BoundTo(n) == conv.called = {n} /\ \E d \in Called(n) : conv.bound = {d}

Unique ==
    /\ Lookup
    /\ Matched # {} /\ Ambiguous = {} /\ Cardinality(Union) <= MaxCandidates
    /\ conv' = [conv EXCEPT !.bound = Union, !.called = Matched]
    /\ UNCHANGED message
    /\ Retrieve(Rewritten(PerEntry, Queries), Union, \E i \in DOMAIN plan : PerEntry[i] = {})

AlreadyBound(n) ==
    /\ Lookup
    /\ n \in Ambiguous /\ Cardinality(Union) <= MaxCandidates
    /\ BoundTo(n)
    /\ UNCHANGED <<conv, message>>
    /\ Retrieve(Rewritten(AllOf(conv.bound), Queries), conv.bound, FALSE)

Clarify(n) ==
    /\ Lookup
    /\ n \in Ambiguous /\ Cardinality(Union) <= MaxCandidates
    /\ ~BoundTo(n)
    /\ conv' = [conv EXCEPT !.pending = [question |-> message, name |-> {n},
                                         candidates |-> Called(n), reasks |-> 0]]
    /\ Reply

TooMany ==
    /\ Lookup
    /\ Cardinality(Union) > MaxCandidates
    /\ UNCHANGED conv
    /\ Reply

\* No name that extraction knows: a question that points back is about the
\* people the conversation is bound to, any other ends the binding.
Inherit ==
    /\ Lookup
    /\ Matched = {} /\ conv.bound # {} /\ message.back
    /\ UNCHANGED <<conv, message>>
    /\ Retrieve(Rewritten(AllOf(conv.bound), Queries), conv.bound, FALSE)

Unresolved ==
    /\ Lookup
    /\ Matched = {} /\ ~(conv.bound # {} /\ message.back)
    /\ conv' = [conv EXCEPT !.bound = {}, !.called = {}]
    /\ UNCHANGED message
    /\ Retrieve(plan, {}, FALSE)

-----------------------------------------------------------------------------
(* Retrieval *)

\* _repair_plan_scopes: a reference is an id or a file name, of a document that may
\* be deleted by now; with no reference to any, the entry loses its scope.  When the
\* lookup raises, file names stay, and match no id.
Repaired(scope) == {d \in Docs : {d, File(d)} \cap scope # {}}
RepairScopes ==
    /\ stage = "scope_repair"
    /\ \/ plan' = [i \in DOMAIN plan |->
                     IF plan[i].rejected THEN plan[i]
                     ELSE [plan[i] EXCEPT !.scope = Repaired(@)]]
       \/ UNCHANGED plan
    /\ stage' = "dispatch"
    /\ UNCHANGED <<docs, indexed, conv, saved, message, resolved, unscoped, clock,
                   results, recovery, answer>>

\* Time passes from the moment the deadline is set.
Tick ==
    /\ stage \in {"dispatch", "retrieval"}
    /\ clock # "spent"
    /\ clock' = IF clock = "ample" THEN "short" ELSE "spent"
    /\ UNCHANGED <<docs, indexed, conv, saved, stage, state, results, recovery, answer>>

\* The entries the cap leaves, in plan order; none once the deadline has passed.
Executable ==
    IF clock = "spent" THEN {}
    ELSE {i \in Live(plan) : Cardinality({j \in Live(plan) : j <= i}) <= MaxInvocations}

Dispatch ==
    /\ stage = "dispatch"
    /\ results' = [i \in DOMAIN plan |->
                     Outcome(IF i \in Executable THEN "waiting" ELSE "not_attempted")]
    /\ stage' = "retrieval"
    /\ UNCHANGED <<docs, indexed, conv, saved, state, clock, recovery, answer>>

\* What a search may find: one of the documents in its scope that it can see.
InScope(scope) == IF scope = Everything THEN docs ELSE scope \cap docs
Findable(entry) ==
    CASE entry.capability = "semantic"   -> InScope(entry.scope)
      [] entry.capability = "structured" -> InScope(entry.scope) \cap indexed
      [] OTHER -> {}

\* _entry_status: an error is a failure, and nothing found without one is empty.  An
\* error is the message of the exception, which the code tests for being there: one
\* without words (a timeout of the library's, often) is no error to it.
StatusOf(error, found) ==
    IF error = "worded" THEN "failed" ELSE IF found = {} THEN "empty" ELSE "ok"
Returned(error, found) ==
    [outcome |-> StatusOf(error, found), error |-> error, found |-> found]

ResultsOf(entry) ==
    {Returned("worded", {})} \cup
    (IF clock = "spent" THEN {}
     ELSE {Returned(error, {}) : error \in {"none", "wordless"}} \cup
          {Returned("none", {d}) : d \in Findable(entry)} \cup
          (IF entry.capability = "tabular" THEN {Outcome("ok")} ELSE {}))

\* The invocations run concurrently, each with a session of its own.
Invoke(i) ==
    /\ stage = "retrieval"
    /\ i \in DOMAIN results /\ results[i].outcome = "waiting"
    /\ \E r \in ResultsOf(plan[i]) : results' = [results EXCEPT ![i] = r]
    /\ UNCHANGED <<docs, indexed, conv, saved, stage, state, clock, recovery, answer>>

Structured == {i \in DOMAIN plan : plan[i].capability = "structured"}
With(outcomes) == {i \in Structured : results[i].outcome \in outcomes}

\* _partial_recovery_targets and _recovery_is_warranted: no semantic entry, and
\* of the structured ones some found nothing, or all of them.
MayRecover == \A i \in DOMAIN plan : plan[i].capability # "semantic"
PartialTargets == IF With({"ok"}) = {} THEN {} ELSE With({"empty", "failed"})
RecoveryWarranted ==
    /\ MayRecover
    /\ \/ PartialTargets # {}
       \/ Structured # {} /\ Structured = With({"empty", "failed"})

\* _shared_document_scope: the scope the structured entries agree on, if they do.
SharedScope(entries) ==
    LET scopes == {plan[i].scope : i \in entries}
    IN  IF Cardinality(scopes) = 1 THEN CHOOSE s \in scopes : TRUE ELSE Everything

RecoveryEverywhere == Everything
RecoveryScope == SharedScope(IF PartialTargets # {} THEN PartialTargets ELSE Structured)

Invocations(rs) == Cardinality({i \in DOMAIN rs : rs[i].outcome \in Attempted})
RecoverySkippedWhenLate == clock # "ample"
RecoverySkipped == Invocations(results) >= MaxInvocations \/ clock # "ample"

Recover ==
    \/ ~RecoveryWarranted /\ UNCHANGED recovery
    \/ RecoveryWarranted /\ RecoverySkipped /\ recovery' = Outcome("skipped")
    \/ /\ RecoveryWarranted /\ ~RecoverySkipped
       /\ recovery' \in ResultsOf(Entry("semantic", {}, RecoveryScope))

Gather ==
    /\ stage = "retrieval"
    /\ \A i \in DOMAIN results : results[i].outcome # "waiting"
    /\ Recover
    /\ stage' = "generation"
    /\ UNCHANGED <<docs, indexed, conv, saved, state, clock, results, answer>>

-----------------------------------------------------------------------------
(* The answer *)

FoundBy(c) == UNION {results[i].found : i \in {j \in DOMAIN plan : plan[j].capability = c}}
Chunks == FoundBy("semantic") \cup recovery.found
Rows ==
    IF resolved # {} /\ ~unscoped THEN FoundBy("structured") \cap resolved
    ELSE FoundBy("structured")
TableRows == \E i \in DOMAIN plan : plan[i].capability = "tabular" /\ results[i].outcome = "ok"

\* What fits the prompt, and is cited: some row if there are any, some passage
\* if there are only passages; rows of an uploaded file may all be too wide.
Admissible(cited, table) ==
    /\ Rows \cap cited = {} => Rows = {}
    /\ cited = {} => Chunks = {}
    /\ table => TableRows

PlannedStatuses == {results[i].outcome : i \in DOMAIN results}
TurnStatuses == {results[i].outcome : i \in DOMAIN results} \cup {recovery.outcome}

\* enforce_sources
Enforced(sourced) ==
    IF sourced THEN "generated"
    ELSE IF TurnStatuses \cap {"failed", "skipped"} # {} THEN "incomplete" ELSE "nothing_found"

Generate ==
    /\ stage = "generation"
    /\ \E cited \in SUBSET (Rows \cup Chunks), table \in BOOLEAN :
          /\ Admissible(cited, table)
          /\ answer' = [reply |-> Enforced(cited # {} \/ table), cited |-> cited]
    /\ stage' = "persist"
    /\ UNCHANGED <<docs, indexed, conv, saved, state, clock, results, recovery>>

\* _persist_turn_and_respond commits the messages and what resolution wrote.
Persist ==
    /\ stage = "persist"
    /\ EndTurn
    /\ saved' = conv
    /\ UNCHANGED <<docs, indexed, conv>>

\* A node or the commit raises, and the turn's transaction is rolled back.
Fail ==
    /\ stage # "idle"
    /\ EndTurn
    /\ conv' = saved
    /\ UNCHANGED <<docs, indexed, saved>>

\* A document is deleted, and with it its chunks and its entities; its row stays.
Delete(d) ==
    /\ d \in docs
    /\ docs' = docs \ {d} /\ indexed' = indexed \ {d}
    /\ UNCHANGED <<conv, saved, stage, turn>>

Resolve ==
    \/ \E d \in conv.pending.candidates : Select(d)
    \/ Reask \/ Abandon \/ NothingToResolve
    \/ Unique \/ TooMany \/ Inherit \/ Unresolved
    \/ \E n \in message.names : AlreadyBound(n) \/ Clarify(n)

TurnNext ==
    \/ \E q \in Questions : \E p \in Plans(q) : Ask(q, p)
    \/ Resolve
    \/ RepairScopes \/ Tick \/ Dispatch \/ Gather
    \/ \E i \in DOMAIN results : Invoke(i)
    \/ Generate \/ Persist \/ Fail
    \/ \E d \in docs : Delete(d)

TurnSpec == TurnInit /\ [][TurnNext]_turnVars

-----------------------------------------------------------------------------
Outcomes == Attempted \cup {"waiting", "not_attempted"}
Errors == {"none", "wordless", "worded"}
EntryType ==
    [capability : Searching \cup {"tabular", "unknown"}, query : SUBSET Names,
     scope : SUBSET (Docs \cup {File(d) : d \in Docs \cup {NoFile}}), rejected : BOOLEAN]

\* The conversation's state and the graph's hold what their columns and fields do:
\* a plan has one result per entry once it is dispatched (execute_plan).
TurnTypeOK ==
    /\ docs \subseteq Docs /\ indexed \subseteq docs
    /\ message \in Question
    /\ plan \in Seq(EntryType)
    /\ resolved \subseteq Docs /\ unscoped \in BOOLEAN
    /\ clock \in {"ample", "short", "spent"}
    /\ results \in Seq([outcome : Outcomes, error : Errors, found : SUBSET Docs])
    /\ results # <<>> => DOMAIN results = DOMAIN plan
    /\ recovery \in [outcome : Attempted \cup {"none", "skipped"}, error : Errors,
                    found : SUBSET Docs]
    /\ answer \in [reply : {"none", "generated", "incomplete", "nothing_found"}, cited : SUBSET Docs]
    /\ \A c \in {conv, saved} :
          /\ c.bound \subseteq Docs /\ c.called \subseteq Names
          /\ c.pending.reasks \in 0 .. MaxReasks
          /\ c.pending # NoPending => Cardinality(c.pending.candidates) > 1

\* However the plan and the recovery turn out, a turn makes no more retrieval
\* calls than orchestrator_max_invocations (execute_plan).
WithinBudget ==
    Invocations(results) + Cardinality({recovery.outcome} \cap Attempted) <= MaxInvocations

\* "I couldn't find relevant information" is only said when no call of the turn failed
\* with a message to tell of it, no recovery was passed over, and whatever was found is
\* not the answer's to show: rows of files, which may all be too wide for the prompt, or
\* rows that are all about somebody else than the question was resolved to
\* (enforce_sources; its comment promises it of every failure, and of every row).
NegativeIsHonest ==
    answer.reply = "nothing_found" =>
        /\ \A i \in DOMAIN results :
              /\ results[i].error # "worded"
              /\ results[i].outcome = "ok" =>
                    \/ plan[i].capability = "tabular"
                    \/ /\ plan[i].capability = "structured"
                       /\ resolved # {} /\ ~unscoped
                       /\ results[i].found \cap resolved = {}
        /\ recovery.error # "worded" /\ recovery.outcome \in {"none", "empty"}

\* A question that was resolved, and whose every search is confined to the same of
\* the resolved documents, is answered from those documents alone, the recovery's
\* passages included (_rewrite_plan_for_resolution, _shared_document_scope).
KeptToSubject ==
    \A ds \in (SUBSET resolved) \ {{}} :
        (\A i \in DOMAIN plan : plan[i].capability \in Searching => plan[i].scope = ds)
            => answer.cited \subseteq resolved

=============================================================================
