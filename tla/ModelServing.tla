----------------------------- MODULE ModelServing -----------------------------
(***************************************************************************)
(* One tenant's models from training to an answer: MLflow's registry, the   *)
(* table model_versions beside it (training_service/infra/mlflow_registry), *)
(* the routes that promote, demote and warm up, and model serving with its  *)
(* caches of sessions and of label lists.                                   *)
(*                                                                         *)
(* Both services run their handlers on one event loop, and these handlers  *)
(* await nothing but the warm-up: each is one step, but a request to model *)
(* serving asks the training service three times, which goes on meanwhile. *)
(***************************************************************************)
EXTENDS Integers, Sequences, SequencesExt, FiniteSetsExt

CONSTANTS
    MaxVersion,      \* bounds the trainings; MLflow numbers them as they register
    Size,            \* the memory a model takes
    Limit            \* and the limit of the session cache

ASSUME VersionAssumption == MaxVersion \in Nat \ {0}
ASSUME SizeAssumption == Size \in [1..MaxVersion -> Nat] /\ Limit \in Nat

VARIABLES
    stage,       \* the registry: the stage of each version
    path,        \* and the artifact_path of its run
    object,      \* the object store: whose model lies under each path
    trained,     \* model_versions: numbers of the rows the training worker wrote
    cached,      \* and the status of the rows that cache the registry, by version
    sessions,    \* the session cache, least recently used first
    accounted,   \* its _current_memory
    labels,      \* the label list cached for the tenant, by the version it is of
    request      \* the request model serving is at, or the last answer

\* History: kept for the properties, read by no action.
VARIABLES
    chosen,      \* the version promoted last, 0 when it was demoted
    everChosen,  \* every version that was promoted
    overwritten  \* a training wrote its artifacts where another's lay

registry == <<stage, path, object, trained, cached>>
serving == <<sessions, accounted, labels, request>>
history == <<chosen, everChosen, overwritten>>
vars == <<registry, serving, history>>

-----------------------------------------------------------------------------
Base == 0
Versions == 1..MaxVersion
Stages == {"absent", "None", "Staging", "Production", "Archived"}
Statuses == {"none", "completed", "promoted", "archived"}

Registered == {v \in Versions : stage[v] # "absent"}
Productions == {v \in Versions : stage[v] = "Production"}

\* STAGE_TO_STATUS, with the default of a version that has no stage yet.
StatusOf(s) == CASE s = "Production" -> "promoted" [] s = "Archived" -> "archived" [] OTHER -> "completed"

Idle == [at |-> "idle", version |-> Base, model |-> Base, label |-> Base]

Init ==
    /\ stage = [v \in Versions |-> "absent"]
    /\ path = [v \in Versions |-> 0]
    /\ object = [n \in Versions |-> Base]
    /\ trained = {}
    /\ cached = [v \in Versions |-> "none"]
    /\ sessions = <<>> /\ accounted = 0 /\ labels = Base /\ request = Idle
    /\ chosen = Base /\ everChosen = {Base} /\ overwritten = FALSE

-----------------------------------------------------------------------------
(* Training, promotion, listing.                                           *)

\* The worker's number is the highest of the table's rows plus one, MLflow's is
\* its own; artifacts are written and the version registered before the row is,
\* and what comes between may fail.
NextNumber == Max({0} \cup trained \cup {v \in Versions : cached[v] # "none"}) + 1

Train(recorded) ==
    LET v == Cardinality(Registered) + 1
        n == NextNumber
    IN /\ v \in Versions
       /\ stage' = [stage EXCEPT ![v] = "None"]
       /\ path' = [path EXCEPT ![v] = n]
       /\ object' = [object EXCEPT ![n] = v]
       /\ trained' = IF recorded THEN trained \cup {n} ELSE trained
       /\ overwritten' = (overwritten \/ object[n] # Base)
       /\ UNCHANGED <<cached, serving, chosen, everChosen>>

\* _get_version_or_404: the first row with this number, whichever kind comes first,
\* else what the registry knows.
StatusesOf(v) ==
    LET rows == {"completed" : n \in trained \cap {v}} \cup ({cached[v]} \ {"none"})
    IN IF rows # {} THEN rows ELSE {"completed" : w \in Registered \cap {v}}

\* _cache_model_version: refused by the one-promoted-version index while the row of
\* another is promoted, or fails otherwise; either is swallowed.
CacheRow(rows, v, s) ==
    {rows} \cup IF s = "Production" /\ \E w \in Versions \ {v} : rows[w] = "promoted" THEN {}
                ELSE {[rows EXCEPT ![v] = StatusOf(s)]}

\* A variant of AfterPromotion: the version in production stays there.
LeavesProduction(v) == [stage EXCEPT ![v] = "Production"]
AfterPromotion(v) ==
    [w \in Versions |-> IF w = v THEN "Production"
                        ELSE IF w \in Productions THEN "Archived" ELSE stage[w]]

Promote(v) ==
    /\ v \in Registered /\ "completed" \in StatusesOf(v)
    /\ stage' = AfterPromotion(v)
    /\ cached' \in CacheRow(cached, v, "Production")
    /\ chosen' = v /\ everChosen' = everChosen \cup {v}
    /\ UNCHANGED <<path, object, trained, serving, overwritten>>

\* The registry fails once the version in production was archived: none is promoted.
PromoteFails(v) ==
    /\ v \in Registered /\ "completed" \in StatusesOf(v) /\ Productions # {}
    /\ stage' = [w \in Versions |-> IF w \in Productions THEN "Archived" ELSE stage[w]]
    /\ chosen' = Base
    /\ UNCHANGED <<path, object, trained, cached, serving, everChosen, overwritten>>

Demote(v) ==
    /\ v \in Registered /\ "promoted" \in StatusesOf(v)
    /\ stage' = [stage EXCEPT ![v] = "Staging"]
    /\ cached' \in CacheRow(cached, v, "Staging")
    /\ chosen' = IF chosen = v THEN Base ELSE chosen
    /\ UNCHANGED <<path, object, trained, serving, everChosen, overwritten>>

\* Listing caches the versions in MLflow's order, and stops at the first that fails.
ListVersions ==
    /\ \E done \in SUBSET Registered :
        /\ Productions \cap done # {} => \A w \in Versions \ (done \cup Productions) : cached[w] # "promoted"
        /\ cached' = [v \in Versions |-> IF v \in done THEN StatusOf(stage[v]) ELSE cached[v]]
    /\ UNCHANGED <<stage, path, object, trained, serving, history>>

-----------------------------------------------------------------------------
(* What model serving is told.                                             *)

\* A variant of Active: the newest version.
Newest == {Max({Base} \cup Registered)}
\* get_active_model: the registry's version in production, of several the highest;
\* the promoted row of the table when the registry does not answer; and the base
\* model when there is none, or the training service does not answer.
Active ==
    {IF Productions = {} THEN Base ELSE Max(Productions)}
        \cup {v \in Versions : cached[v] = "promoted"} \cup {Base}

\* The registry's answer is cached on the way.
Told(v) ==
    /\ v \in Active
    /\ cached' \in IF v \in Productions THEN CacheRow(cached, v, "Production") ELSE {cached}
    /\ UNCHANGED <<stage, path, object, trained>>

\* What is downloaded for a version: nothing lies under "base".
Artifacts(v) == IF v = Base THEN Base ELSE object[path[v]]

-----------------------------------------------------------------------------
(* The session cache.                                                      *)

Ids == {sessions[i].id : i \in DOMAIN sessions}
Place(q, id) == CHOOSE i \in DOMAIN q : q[i].id = id
Without(q, id) == IF \E i \in DOMAIN q : q[i].id = id THEN RemoveAt(q, Place(q, id)) ELSE q
Memory(q) ==
    LET sum[i \in 0..Len(q)] == IF i = 0 THEN 0 ELSE sum[i - 1] + Size[q[i].model]
    IN sum[Len(q)]
HeldAs(id) == sessions[Place(sessions, id)]

\* A variant of Get: what outlived its time is not returned, and stays.
GetStale(id) ==
    {[q |-> Append(Without(sessions, id), HeldAs(id)), hit |-> TRUE, freed |-> 0] : x \in Ids \cap {id}}
        \cup {[q |-> sessions, hit |-> FALSE, freed |-> 0]}
\* A miss, a hit that makes it the most recently used, or an entry that outlived
\* its time, which is evicted.
Get(id) ==
    IF id \notin Ids THEN {[q |-> sessions, hit |-> FALSE, freed |-> 0]}
    ELSE {[q |-> Append(Without(sessions, id), HeldAs(id)), hit |-> TRUE, freed |-> 0],
          [q |-> Without(sessions, id), hit |-> FALSE, freed |-> Size[HeldAs(id).model]]}

\* put: evicts until there is room, then the entry is there, whatever was.
Put(q, held, id, model) ==
    LET Fits(k) == k = Len(q) \/ held - Memory(SubSeq(q, 1, k)) + Size[model] <= Limit
        over == CHOOSE k \in 0..Len(q) : Fits(k) /\ \A l \in 0..(k - 1) : ~Fits(l)
    IN /\ sessions' = Append(Without(SubSeq(q, over + 1, Len(q)), id), [id |-> id, model |-> model])
       /\ accounted' = held - Memory(SubSeq(q, 1, over)) + Size[model]

-----------------------------------------------------------------------------
(* Requests to model serving.                                              *)

\* _load_model_for_tenant, of what the caller was told lies at artifacts.
Load(id, model) ==
    \E g \in Get(id) :
        IF g.hit THEN sessions' = g.q /\ accounted' = accounted
        ELSE Put(g.q, accounted - g.freed, id, model)

\* The warm-up of any version downloads what lies at the active version's path.
WarmUp(v) ==
    /\ request.at = "idle" /\ StatusesOf(v) # {}
    /\ \E a \in Active \ {Base} : Told(a) /\ Artifacts(a) # Base /\ Load(v, Artifacts(a))
    /\ UNCHANGED <<labels, request, history>>

\* infer: the version it is told first is the one it will name.
Resolve ==
    /\ request.at = "idle"
    /\ \E v \in Active :
        /\ Told(v)
        /\ request' = [Idle EXCEPT !.at = IF v = Base THEN "answer" ELSE "session", !.version = v]
    /\ UNCHANGED <<sessions, accounted, labels, history>>

\* _infer_with_onnx asks again, and looks for that version's session.
Session ==
    /\ request.at = "session"
    /\ \E v \in Active :
        /\ Told(v)
        /\ \E g \in Get(v) :
            IF g.hit
            THEN /\ sessions' = g.q /\ accounted' = accounted
                 /\ request' = [request EXCEPT !.at = "labels", !.model = HeldAs(v).model]
            ELSE IF Artifacts(v) = Base
            THEN /\ sessions' = g.q /\ accounted' = accounted - g.freed
                 /\ request' = [request EXCEPT !.at = "answer"]
            ELSE /\ Put(g.q, accounted - g.freed, v, Artifacts(v))
                 /\ request' = [request EXCEPT !.at = "labels", !.model = Artifacts(v)]
    /\ UNCHANGED <<labels, history>>

\* The list of labels is cached for the tenant, for five minutes.
Labels ==
    /\ request.at = "labels"
    /\ \/ labels # Base /\ UNCHANGED <<registry, labels>>
       \/ \E v \in Active : Told(v) /\ labels' = IF v = Base THEN labels ELSE v
    /\ request' = [request EXCEPT !.at = "answer", !.label = labels']
    /\ UNCHANGED <<sessions, accounted, history>>

\* Whatever raises is answered by the base model, under its own number.
FallsBack ==
    /\ request.at \in {"session", "labels"}
    /\ request' = [Idle EXCEPT !.at = "answer"]
    /\ UNCHANGED <<registry, sessions, accounted, labels, history>>

Answer ==
    /\ request.at = "answer" /\ request' = Idle
    /\ UNCHANGED <<registry, sessions, accounted, labels, history>>

LabelsExpire ==
    /\ labels # Base /\ labels' = Base
    /\ UNCHANGED <<registry, sessions, accounted, request, history>>

\* Both caches live in the process.
Restart ==
    /\ sessions' = <<>> /\ accounted' = 0 /\ labels' = Base /\ request' = Idle
    /\ UNCHANGED <<registry, history>>

-----------------------------------------------------------------------------
Next ==
    \/ \E recorded \in BOOLEAN : Train(recorded)
    \/ \E v \in Versions : Promote(v) \/ PromoteFails(v) \/ Demote(v) \/ WarmUp(v)
    \/ ListVersions \/ Resolve \/ Session \/ Labels \/ FallsBack \/ Answer
    \/ LabelsExpire \/ Restart

Spec == Init /\ [][Next]_vars

-----------------------------------------------------------------------------
Models == Versions \cup {Base}

TypeOK ==
    /\ stage \in [Versions -> Stages]
    /\ path \in [Versions -> 0..MaxVersion]
    /\ object \in [Versions -> Models]
    /\ trained \subseteq Versions
    /\ cached \in [Versions -> Statuses]
    /\ sessions \in Seq([id : Models, model : Versions])
    /\ accounted \in Nat
    /\ labels \in Models
    /\ request \in [at : {"idle", "session", "labels", "answer"}, version : Models, model : Models, label : Models]
    /\ chosen \in Models /\ everChosen \subseteq Models /\ overwritten \in BOOLEAN

\* What the registry has in production is what was promoted last and not demoted
\* since, and nothing else, although a promotion goes by a row that may be stale and
\* fails half-way.
ServesLastPromoted == Productions = {chosen} \ {Base}

\* No request is answered by a model that nobody promoted, nor by its labels: not through
\* a row that outlives a demotion, nor the table when the registry is away, nor a session
\* that a warm-up of any version left behind (get_active_model, _infer_with_onnx).  What
\* the warm-up leaves is the active version's model whatever version it names, so that
\* the answer may be by another promoted model than the version it names.  A model that
\* nobody promoted may answer when two trainings were given one path, as they are when
\* the first failed after its version was registered.
NothingUnpromotedServes == ~overwritten => {request.model, request.label} \subseteq everChosen

\* The cache's account of its memory is what it holds, and within the limit but
\* for a single model, through hits, expiries, evictions and restarts.
AccountedIsHeld == accounted = Memory(sessions) /\ (accounted <= Limit \/ Len(sessions) = 1)

===============================================================================
