----------------------------- MODULE DataSources -----------------------------
(***************************************************************************)
(* The data-plane connections of ONE tenant_owned tenant                   *)
(* (shared/data_sources/service.py) and the tenant_data_planes row that    *)
(* routes the tenant's content (shared/data_plane.py), beside the Celery   *)
(* task that provisions the tenant's store                                 *)
(* (document_service/data_plane/tasks.py) and the deploy step that         *)
(* migrates it (shared/tenant_store/migrate.py).                           *)
(*                                                                         *)
(* A configuration is the store it points at. A step is one transaction on *)
(* the platform's database or one exchange with the tenant's store: every  *)
(* request reads a connection row and writes it later, and only activation *)
(* looks again at the status it replaces. The data-plane row is moved by   *)
(* compare-and-set, except where the code does not.                        *)
(***************************************************************************)
EXTENDS Naturals, FiniteSets

CONSTANTS
    Conns,         \* connection ids; bounds how many rows are created
    Stores,        \* the databases a configuration can point at
    Requests,      \* requests being served at once
    Provisioners,  \* provisioning messages and executions at once
    NoConn, NoStore,
    Deploys        \* TRUE: the deploy step may run

ASSUME IdentityAssumption == NoConn \notin Conns /\ NoStore \notin Stores
ASSUME DeploysAssumption == Deploys \in BOOLEAN

VARIABLES
    conn,     \* tenant_data_source_connections; tested: test_config_digest
    plane,    \* the tenant's row of tenant_data_planes
    marker,   \* the identity in each store's platform_store_meta
    req,      \* a request between what it read and what it writes
    prov,     \* provision_tenant_data_plane: messages and executions
    mig       \* the deploy's migration, between its SELECT and its UPDATE

\* History: kept for the properties, read by no action.
VARIABLE
    misjudged \* connections a test's outcome was recorded over another configuration of, or
              \* that were paused when they were active no more

vars == <<conn, plane, marker, req, prov, mig, misjudged>>

-----------------------------------------------------------------------------
Statuses == {"absent", "draft", "validated", "active", "paused", "error", "retired"}
PlaneStatuses == {"awaiting_store", "provisioning", "provisioning_failed", "ready",
                  "migration_required", "paused", "store_retired"}
UPDATABLE_STATUSES == {"draft", "paused", "error"}
TESTABLE_STATUSES == {"draft", "paused", "error"}
RETIRABLE_STATUSES == {"draft", "validated", "paused", "error"}

NoRow == [status |-> "absent", config |-> NoStore, tested |-> NoStore, replaces |-> NoConn]
Draft(store, replaces) ==
    [status |-> "draft", config |-> store, tested |-> NoStore, replaces |-> replaces]

\* status and config: what the request read of the row and still goes by.
Request(stage, c) == [stage |-> stage, conn |-> c, status |-> "absent", config |-> NoStore]
Idle == Request("idle", NoConn)
Answer(r) == req' = [req EXCEPT ![r] = Idle]
Reads(r, stage, c) == req' = [req EXCEPT ![r] = Request(stage, c)]

NoTask == [stage |-> "none", store |-> NoStore, id |-> NoStore]
NoMigration == [stage |-> "none", store |-> NoStore]

Init ==
    /\ conn = [c \in Conns |-> NoRow]
    /\ plane = [status |-> "awaiting_store", conn |-> NoConn, store |-> NoStore]
    /\ marker = [s \in Stores |-> NoStore]
    /\ req = [r \in Requests |-> Idle]
    /\ prov = [p \in Provisioners |-> NoTask]
    /\ mig = NoMigration
    /\ misjudged = {}

\* _cas_status: the row moves only from an expected status.
Cas(expected, status) ==
    IF plane.status \in expected THEN [plane EXCEPT !.status = status] ELSE plane

-----------------------------------------------------------------------------
(* Rows: created, updated, replaced.                                       *)

CreateConnection(c, s) ==
    /\ conn[c] = NoRow
    /\ conn' = [conn EXCEPT ![c] = Draft(s, NoConn)]
    /\ UNCHANGED <<plane, marker, req, prov, mig, misjudged>>

\* replace_connection: a linked draft; the predecessor may be in any state.
ReplaceConnection(c, d, s) ==
    /\ conn[c].status \notin {"absent", "retired"} /\ conn[d] = NoRow
    /\ conn' = [conn EXCEPT ![d] = Draft(s, c)]
    /\ UNCHANGED <<plane, marker, req, prov, mig, misjudged>>

UpdateRead(r, c) ==
    /\ req[r].stage = "idle" /\ conn[c].status \in UPDATABLE_STATUSES
    /\ Reads(r, "update", c)
    /\ UNCHANGED <<conn, plane, marker, prov, mig, misjudged>>

\* A variant of Updated: the status is left as it was.
UpdatedInPlace(c, s) == [conn[c] EXCEPT !.config = s]

\* The evidence is cleared and the connection returns to draft.
Updated(c, s) == Draft(s, conn[c].replaces)

UpdateWrite(r) ==
    /\ req[r].stage = "update"
    /\ \E s \in Stores : conn' = [conn EXCEPT ![req[r].conn] = Updated(req[r].conn, s)]
    /\ Answer(r)
    /\ UNCHANGED <<plane, marker, prov, mig, misjudged>>

-----------------------------------------------------------------------------
(* The secure test: the row as read, the store as found, the outcome.      *)

TestRead(r, c) ==
    /\ req[r].stage = "idle" /\ conn[c].status \in TESTABLE_STATUSES
    /\ req' = [req EXCEPT ![r] = [Request("test", c) EXCEPT !.config = conn[c].config]]
    /\ UNCHANGED <<conn, plane, marker, prov, mig, misjudged>>

\* _target_schema_outcome: an absent or empty schema is accepted whatever
\* identity the plane records.
Recognized(s) == marker[s] = NoStore \/ plane.store \in {NoStore, marker[s]}

TestStore(r) ==
    /\ req[r].stage = "test"
    /\ \E outcome \in {"passed", "failed"} :
        /\ outcome = "passed" => Recognized(req[r].config)
        /\ req' = [req EXCEPT ![r].stage = outcome]
    /\ UNCHANGED <<conn, plane, marker, prov, mig, misjudged>>

TestRecord(r) ==
    LET c == req[r].conn
    IN  /\ req[r].stage \in {"passed", "failed"}
        /\ conn' = [conn EXCEPT
              ![c].status = IF req[r].stage = "passed" THEN "validated" ELSE "error",
              ![c].tested = IF req[r].stage = "passed" THEN req[r].config ELSE NoStore]
        /\ misjudged' = IF conn[c].config = req[r].config THEN misjudged
                        ELSE misjudged \cup {c}
        /\ Answer(r)
        /\ UNCHANGED <<plane, marker, prov, mig>>

-----------------------------------------------------------------------------
(* Activation.                                                             *)

\* Validated, or paused with evidence for the configuration it has.
Activatable(c) == \/ conn[c].status = "validated"
                  \/ conn[c].status = "paused" /\ conn[c].tested = conn[c].config

ActivateRead(r, c) ==
    /\ req[r].stage = "idle" /\ Activatable(c)
    /\ req' = [req EXCEPT ![r] = [Request("activate", c) EXCEPT !.status = conn[c].status]]
    /\ UNCHANGED <<conn, plane, marker, prov, mig, misjudged>>

\* The UPDATE's own condition on the status it replaces.
Claims(c) == conn[c].status \in {"validated", "paused"}

\* In one transaction an active predecessor is retired and c becomes active. No
\* row matched, or the index on active providers fired: rolled back.
ActivateWrite(r) ==
    LET c == req[r].conn
        pred == conn[c].replaces
        after == [d \in Conns |-> IF d = pred /\ conn[d].status = "active"
                                  THEN [conn[d] EXCEPT !.status = "retired"] ELSE conn[d]]
    IN  /\ req[r].stage = "activate"
        /\ IF Claims(c) /\ \A d \in Conns : after[d].status # "active"
           THEN /\ conn' = [after EXCEPT ![c].status = "active"]
                /\ Reads(r, IF pred # NoConn THEN "rebind"
                            ELSE IF req[r].status = "validated" THEN "provision" ELSE "resume", c)
           ELSE Answer(r) /\ UNCHANGED conn
        /\ UNCHANGED <<plane, marker, prov, mig, misjudged>>

\* A successor's activation repoints the plane, whatever state that is in.
Rebind(r) ==
    /\ req[r].stage = "rebind"
    /\ plane' = [plane EXCEPT !.conn = req[r].conn]
    /\ Answer(r)
    /\ UNCHANGED <<conn, marker, prov, mig, misjudged>>

\* A first activation asks for provisioning, and sends the task whether or not
\* the row moved. A message the broker does not take is only logged.
MarkProvisioning(r) ==
    /\ req[r].stage = "provision"
    /\ plane' = IF plane.status \in {"awaiting_store", "provisioning_failed"}
                THEN [plane EXCEPT !.status = "provisioning", !.conn = req[r].conn]
                ELSE plane
    /\ \/ \E p \in Provisioners : /\ prov[p].stage = "none"
                                  /\ prov' = [prov EXCEPT ![p].stage = "sent"]
       \/ prov' = prov
    /\ Answer(r)
    /\ UNCHANGED <<conn, marker, mig, misjudged>>

Resumed == Cas({"paused"}, "ready")

MarkReadyFromPaused(r) ==
    /\ req[r].stage = "resume"
    /\ plane' = Resumed
    /\ Answer(r)
    /\ UNCHANGED <<conn, marker, prov, mig, misjudged>>

-----------------------------------------------------------------------------
(* Pausing and retiring: the row and the plane in one transaction.         *)

PauseRead(r, c) ==
    /\ req[r].stage = "idle" /\ conn[c].status = "active"
    /\ Reads(r, "pause", c)
    /\ UNCHANGED <<conn, plane, marker, prov, mig, misjudged>>

PauseWrite(r) ==
    /\ req[r].stage = "pause"
    /\ conn' = [conn EXCEPT ![req[r].conn].status = "paused"]
    /\ plane' = Cas({"ready"}, "paused")
    /\ misjudged' = IF conn[req[r].conn].status = "active" THEN misjudged
                    ELSE misjudged \cup {req[r].conn}
    /\ Answer(r)
    /\ UNCHANGED <<marker, prov, mig>>

RetireRead(r, c) ==
    /\ req[r].stage = "idle" /\ conn[c].status \in RETIRABLE_STATUSES
    /\ Reads(r, "retire", c)
    /\ UNCHANGED <<conn, plane, marker, prov, mig, misjudged>>

\* The plane is retired with ANY of the tenant's connections.
RetireWrite(r) ==
    /\ req[r].stage = "retire"
    /\ conn' = [conn EXCEPT ![req[r].conn].status = "retired"]
    /\ plane' = Cas({"ready", "paused", "migration_required", "provisioning_failed"},
                    "store_retired")
    /\ Answer(r)
    /\ UNCHANGED <<marker, prov, mig, misjudged>>

\* The process dies, or the store or the database fails the request.
RequestDies(r) ==
    /\ req[r].stage # "idle"
    /\ Answer(r)
    /\ UNCHANGED <<conn, plane, marker, prov, mig, misjudged>>

-----------------------------------------------------------------------------
(* provision_tenant_data_plane.                                            *)

\* The bound connection's configuration, as it is now; otherwise skipped.
ProvisionRead(p) ==
    /\ prov[p].stage = "sent"
    /\ prov' = [prov EXCEPT ![p] =
          IF plane.status = "provisioning" /\ plane.conn # NoConn
          THEN [stage |-> "apply", store |-> conn[plane.conn].config, id |-> plane.store]
          ELSE NoTask]
    /\ UNCHANGED <<conn, plane, marker, req, mig, misjudged>>

\* apply: the identity is the one expected, the one found, or a new one.
Identity(s, expected) ==
    IF expected # NoStore THEN expected ELSE IF marker[s] # NoStore THEN marker[s] ELSE s

\* The schema is applied and its marker committed; what follows may still fail.
ProvisionApply(p) ==
    LET s == prov[p].store
        id == Identity(s, prov[p].id)
    IN  /\ prov[p].stage = "apply"
        /\ marker[s] = NoStore \/ prov[p].id \in {NoStore, marker[s]}
        /\ marker' = [marker EXCEPT ![s] = IF @ = NoStore THEN id ELSE @]
        /\ \E stage \in {"applied", "failed"} :
              prov' = [prov EXCEPT ![p] = [stage |-> stage, store |-> NoStore, id |-> id]]
        /\ UNCHANGED <<conn, plane, req, mig, misjudged>>

\* Another store's marker, a foreign schema, a secret or a connection that fails.
ProvisionFails(p) ==
    /\ prov[p].stage = "apply"
    /\ prov' = [prov EXCEPT ![p].stage = "failed"]
    /\ UNCHANGED <<conn, plane, marker, req, mig, misjudged>>

\* Variants of Provisioned: the outcome is written whatever the plane's status;
\* the identity that was written to the store is not recorded.
ProvisionedAnyway(p) == [plane EXCEPT !.status = "ready", !.store = prov[p].id]
ProvisionedUnrecorded(p) ==
    IF plane.status = "provisioning" THEN [plane EXCEPT !.status = "ready"] ELSE plane

\* _set_outcome: only while the plane is provisioning.
Provisioned(p) ==
    IF plane.status = "provisioning"
    THEN [plane EXCEPT !.status = "ready", !.store = prov[p].id] ELSE plane

ProvisionReady(p) ==
    /\ prov[p].stage = "applied"
    /\ plane' = Provisioned(p)
    /\ prov' = [prov EXCEPT ![p] = NoTask]
    /\ UNCHANGED <<conn, marker, req, mig, misjudged>>

ProvisionFailed(p) ==
    /\ prov[p].stage = "failed"
    /\ plane' = Cas({"provisioning"}, "provisioning_failed")
    /\ prov' = [prov EXCEPT ![p] = NoTask]
    /\ UNCHANGED <<conn, marker, req, mig, misjudged>>

\* The worker dies, or the outcome cannot be written.
ProvisionLost(p) ==
    /\ prov[p].stage # "none"
    /\ prov' = [prov EXCEPT ![p] = NoTask]
    /\ UNCHANGED <<conn, plane, marker, req, mig, misjudged>>

-----------------------------------------------------------------------------
(* migrate.main, for this tenant.                                          *)

MigrateRead ==
    /\ Deploys /\ mig.stage = "none"
    /\ plane.status \in {"ready", "migration_required"}
    /\ plane.conn # NoConn /\ conn[plane.conn].status = "active"
    /\ mig' = [stage |-> "apply", store |-> conn[plane.conn].config]
    /\ UNCHANGED <<conn, plane, marker, req, prov, misjudged>>

\* A store without a marker is at revision 0 and is given one.
MigrateApply ==
    /\ mig.stage = "apply"
    /\ \/ /\ marker' = [marker EXCEPT ![mig.store] = Identity(mig.store, NoStore)]
          /\ mig' = [mig EXCEPT !.stage = "ready"]
       \/ /\ mig' = [mig EXCEPT !.stage = "migration_required"]
          /\ UNCHANGED marker
    /\ UNCHANGED <<conn, plane, req, prov, misjudged>>

\* Written with no condition on the status.
MigrateWrite ==
    /\ mig.stage \in {"ready", "migration_required"}
    /\ plane' = [plane EXCEPT !.status = mig.stage]
    /\ mig' = NoMigration
    /\ UNCHANGED <<conn, marker, req, prov, misjudged>>

-----------------------------------------------------------------------------
Serve(r) ==
    \/ \E c \in Conns : \/ UpdateRead(r, c) \/ TestRead(r, c) \/ ActivateRead(r, c)
                        \/ PauseRead(r, c) \/ RetireRead(r, c)
    \/ UpdateWrite(r) \/ TestStore(r) \/ TestRecord(r)
    \/ ActivateWrite(r) \/ Rebind(r) \/ MarkProvisioning(r) \/ MarkReadyFromPaused(r)
    \/ PauseWrite(r) \/ RetireWrite(r) \/ RequestDies(r)

Provision(p) ==
    \/ ProvisionRead(p) \/ ProvisionApply(p) \/ ProvisionFails(p)
    \/ ProvisionReady(p) \/ ProvisionFailed(p) \/ ProvisionLost(p)

Next ==
    \/ \E c \in Conns, s \in Stores : CreateConnection(c, s)
    \/ \E c, d \in Conns, s \in Stores : ReplaceConnection(c, d, s)
    \/ \E r \in Requests : Serve(r)
    \/ \E p \in Provisioners : Provision(p)
    \/ MigrateRead \/ MigrateApply \/ MigrateWrite

Spec == Init /\ [][Next]_vars

-----------------------------------------------------------------------------
ConnRow == [status : Statuses, config : Stores \cup {NoStore},
            tested : Stores \cup {NoStore}, replaces : Conns \cup {NoConn}]
RequestStages == {"idle", "update", "test", "passed", "failed", "activate", "rebind",
                  "provision", "resume", "pause", "retire"}

\* Types, with what a stage says of the row, the store and the connection in hand.
TypeOK ==
    /\ conn \in [Conns -> ConnRow]
    /\ plane \in [status : PlaneStatuses, conn : Conns \cup {NoConn},
                  store : Stores \cup {NoStore}]
    /\ marker \in [Stores -> Stores \cup {NoStore}]
    /\ req \in [Requests -> [stage : RequestStages, conn : Conns \cup {NoConn},
                             status : Statuses, config : Stores \cup {NoStore}]]
    /\ prov \in [Provisioners -> [stage : {"none", "sent", "apply", "applied", "failed"},
                                  store : Stores \cup {NoStore}, id : Stores \cup {NoStore}]]
    /\ mig \in [stage : {"none", "apply", "ready", "migration_required"},
                store : Stores \cup {NoStore}]
    /\ misjudged \subseteq Conns
    /\ \A c \in Conns : conn[c].status # "absent" => conn[c].config \in Stores
    /\ plane.conn # NoConn => conn[plane.conn].status # "absent"
    /\ \A r \in Requests : req[r].stage # "idle" =>
          /\ req[r].conn \in Conns /\ conn[req[r].conn].status # "absent"
          /\ req[r].stage \in {"test", "passed", "failed"} => req[r].config \in Stores
    /\ \A p \in Provisioners :
          /\ prov[p].stage = "apply" => prov[p].store \in Stores
          /\ prov[p].stage = "applied" => prov[p].id \in Stores
    /\ mig.stage # "none" => mig.store \in Stores

-----------------------------------------------------------------------------
(* What the control plane promises.                                        *)

\* An active connection has the configuration its last passed test was made
\* of, whatever updates, pauses, retirements and activations interleave, unless
\* a test's outcome was recorded over a configuration it had not read, or a pause
\* over a status it had not read (activate_connection's evidence digest and guarded
\* UPDATE, which takes any paused connection by then).
ActiveWasTested ==
    \A c \in Conns \ misjudged :
        conn[c].status = "active" => conn[c].tested = conn[c].config

\* Content is routed, withheld by a pause or by a missing migration, only for a
\* store whose provisioning was completed and whose identity was recorded, and
\* some store carries that identity: no interleaving of activations, failures
\* and lost tasks reaches ready without it.
ReadyMeansProvisioned ==
    plane.status \in {"ready", "paused", "migration_required"} =>
        /\ plane.store # NoStore
        /\ \E s \in Stores : marker[s] = plane.store

\* The identity recorded for the tenant's store never changes, also when two
\* executions of the provisioning task work on different stores (_set_outcome).
StoreIdentitySticks ==
    [][plane.store # NoStore => plane'.store = plane.store]_vars

=============================================================================
