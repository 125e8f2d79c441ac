------------------------- MODULE DataSourcesProofs -------------------------
(***************************************************************************)
(* Proofs about a tenant's data sources and about the turns of chat that   *)
(* answer from them.  DataSources, for every number of connections,        *)
(* stores, requests and executions: type correctness; that a served plane  *)
(* has a recorded identity some store carries and never loses it; and that *)
(* an active connection has the configuration its test was made of.        *)
(* ChatTurn, for all documents, names, questions, plans and limits: type   *)
(* correctness, that a turn keeps its budget and its subject, and that     *)
(* "nothing found" is honest.                                              *)
(***************************************************************************)
EXTENDS DataSources, ChatTurn, FiniteSetTheorems, WellFoundedInduction, TLAPS

\* What every action is shown to preserve; TypeOK is its conjunction.
KnownConns == {c \in Conns : conn[c].status # "absent"}
PlaneRow == [status : PlaneStatuses, conn : Conns \cup {NoConn}, store : Stores \cup {NoStore}]
RequestRow == [stage : RequestStages, conn : Conns \cup {NoConn},
               status : Statuses, config : Stores \cup {NoStore}]
TaskRow == [stage : {"none", "sent", "apply", "applied", "failed"},
            store : Stores \cup {NoStore}, id : Stores \cup {NoStore}]

ConnOK == /\ conn \in [Conns -> ConnRow]
          /\ \A c \in KnownConns : conn[c].config \in Stores
PlaneOK == plane \in PlaneRow /\ (plane.conn # NoConn => plane.conn \in KnownConns)
MarkerOK == marker \in [Stores -> Stores \cup {NoStore}]
InHand(e, known) == e.stage # "idle" =>
                        /\ e.conn \in known
                        /\ e.stage \in {"test", "passed", "failed"} => e.config \in Stores
ReqOK == req \in [Requests -> RequestRow] /\ \A r \in Requests : InHand(req[r], KnownConns)
Ready(t) == /\ t.stage = "apply" => t.store \in Stores
            /\ t.stage = "applied" => t.id \in Stores
ProvOK == prov \in [Provisioners -> TaskRow] /\ \A p \in Provisioners : Ready(prov[p])
MigOK == /\ mig \in [stage : {"none", "apply", "ready", "migration_required"},
                     store : Stores \cup {NoStore}]
         /\ mig.stage # "none" => mig.store \in Stores
HistoryOK == misjudged \subseteq Conns

LEMMA TypeParts ==
    /\ TypeOK <=> ConnOK /\ PlaneOK /\ MarkerOK /\ ReqOK /\ ProvOK /\ MigOK /\ HistoryOK
    /\ TypeOK' <=> /\ ConnOK' /\ PlaneOK' /\ MarkerOK' /\ ReqOK' /\ ProvOK' /\ MigOK'
                   /\ HistoryOK'
<1>1. TypeOK <=> ConnOK /\ PlaneOK /\ MarkerOK /\ ReqOK /\ ProvOK /\ MigOK /\ HistoryOK
  BY IdentityAssumption
     DEF TypeOK, ConnOK, PlaneOK, MarkerOK, ReqOK, ProvOK, MigOK, HistoryOK, KnownConns,
         PlaneRow, RequestRow, TaskRow, InHand, Ready
<1>2. TypeOK' <=> /\ ConnOK' /\ PlaneOK' /\ MarkerOK' /\ ReqOK' /\ ProvOK' /\ MigOK'
                  /\ HistoryOK'
  BY IdentityAssumption
     DEF TypeOK, ConnOK, PlaneOK, MarkerOK, ReqOK, ProvOK, MigOK, HistoryOK, KnownConns,
         PlaneRow, RequestRow, TaskRow, InHand, Ready
<1>3. QED
  BY <1>1, <1>2

LEMMA InitTypeOK == Init => TypeOK
<1> SUFFICES ASSUME Init PROVE TypeOK
  OBVIOUS
<1>1. ConnOK
  BY DEF Init, ConnOK, KnownConns, ConnRow, NoRow, Statuses
<1>2. PlaneOK
  BY DEF Init, PlaneOK, PlaneRow, PlaneStatuses
<1>3. MarkerOK
  BY DEF Init, MarkerOK
<1>4. ReqOK
  BY DEF Init, ReqOK, RequestRow, InHand, Idle, Request, RequestStages, Statuses
<1>5. ProvOK
  BY DEF Init, ProvOK, TaskRow, Ready, NoTask
<1>6. MigOK
  BY DEF Init, MigOK, NoMigration
<1>7. HistoryOK
  BY DEF Init, HistoryOK
<1>8. QED
  BY <1>1, <1>2, <1>3, <1>4, <1>5, <1>6, <1>7, TypeParts

-----------------------------------------------------------------------------
(* A step on one row, one request, one execution.                          *)

\* What a step leaves alone stays well-formed, while no connection is forgotten.
Grows == KnownConns \subseteq KnownConns'

LEMMA Frames ==
    /\ ConnOK /\ UNCHANGED conn => ConnOK' /\ Grows
    /\ PlaneOK /\ UNCHANGED plane /\ Grows => PlaneOK'
    /\ MarkerOK /\ UNCHANGED marker => MarkerOK'
    /\ ReqOK /\ UNCHANGED req /\ Grows => ReqOK'
    /\ ProvOK /\ UNCHANGED prov => ProvOK'
    /\ MigOK /\ UNCHANGED mig => MigOK'
    /\ HistoryOK /\ UNCHANGED misjudged => HistoryOK'
<1>1. ConnOK /\ UNCHANGED conn => ConnOK' /\ Grows
  BY DEF ConnOK, KnownConns, Grows
<1>2. PlaneOK /\ UNCHANGED plane /\ Grows => PlaneOK'
  BY DEF PlaneOK, Grows
<1>3. MarkerOK /\ UNCHANGED marker => MarkerOK'
  BY DEF MarkerOK
<1>4. ReqOK /\ UNCHANGED req /\ Grows => ReqOK'
  BY DEF ReqOK, InHand, Grows
<1>5. ProvOK /\ UNCHANGED prov => ProvOK'
  BY DEF ProvOK, Ready
<1>6. MigOK /\ UNCHANGED mig => MigOK'
  BY DEF MigOK
<1>7. HistoryOK /\ UNCHANGED misjudged => HistoryOK'
  BY DEF HistoryOK
<1>8. QED
  BY <1>1, <1>2, <1>3, <1>4, <1>5, <1>6, <1>7

\* A row is written: it is or becomes a known connection's.
LEMMA RowWritten ==
    ASSUME ConnOK, NEW c \in Conns, NEW row \in ConnRow, row.status # "absent",
           row.config \in Stores, conn' = [conn EXCEPT ![c] = row]
    PROVE  ConnOK' /\ Grows
<1>1. conn' \in [Conns -> ConnRow]
  BY DEF ConnOK
<1>2. \A d \in Conns : conn'[d] = IF d = c THEN row ELSE conn[d]
  BY DEF ConnOK
<1>3. QED
  BY <1>1, <1>2 DEF ConnOK, KnownConns, Grows

\* Only the status of a known row is written.
LEMMA StatusWritten ==
    ASSUME ConnOK, NEW c \in KnownConns, NEW status \in Statuses \ {"absent"},
           conn' = [conn EXCEPT ![c].status = status]
    PROVE  ConnOK' /\ Grows
<1> DEFINE row == [conn[c] EXCEPT !.status = status]
<1>1. c \in Conns /\ conn[c] \in ConnRow /\ conn[c].config \in Stores
  BY DEF ConnOK, KnownConns
<1>2. row \in ConnRow /\ row.status = status /\ row.config = conn[c].config
  BY <1>1 DEF ConnRow
<1>3. conn' = [conn EXCEPT ![c] = row]
  OBVIOUS
<1> HIDE DEF row
<1>4. QED
  BY <1>1, <1>2, <1>3, RowWritten

\* A request goes on with a known connection, or is answered.
LEMMA RequestMoves ==
    ASSUME ReqOK, Grows, NEW r \in Requests, NEW e \in RequestRow, InHand(e, KnownConns'),
           req' = [req EXCEPT ![r] = e]
    PROVE  ReqOK'
<1>1. req' \in [Requests -> RequestRow]
  BY DEF ReqOK
<1>2. \A q \in Requests : req'[q] = IF q = r THEN e ELSE req[q]
  BY DEF ReqOK
<1>3. \A q \in Requests : InHand(req[q], KnownConns')
  BY DEF ReqOK, InHand, Grows
<1>4. QED
  BY <1>1, <1>2, <1>3 DEF ReqOK

LEMMA RequestAnswered ==
    ASSUME ReqOK, Grows, NEW r \in Requests, Answer(r)
    PROVE  ReqOK'
<1>1. Idle \in RequestRow /\ InHand(Idle, KnownConns')
  BY DEF Idle, Request, RequestRow, RequestStages, Statuses, InHand
<1>2. QED
  BY <1>1, RequestMoves DEF Answer

LEMMA RequestReads ==
    ASSUME ReqOK, Grows, NEW r \in Requests, NEW c \in KnownConns,
           NEW next \in RequestStages \ {"test", "passed", "failed"}, Reads(r, next, c)
    PROVE  ReqOK'
<1>1. Request(next, c) \in RequestRow /\ InHand(Request(next, c), KnownConns')
  BY DEF Request, RequestRow, Statuses, InHand, KnownConns, Grows
<1>2. QED
  BY <1>1, RequestMoves DEF Reads

\* The connection a request has in hand.
LEMMA ConnInHand ==
    ASSUME ReqOK, NEW r \in Requests, req[r].stage # "idle"
    PROVE  /\ req[r] \in RequestRow
           /\ req[r].conn \in KnownConns
           /\ req[r].stage \in {"test", "passed", "failed"} => req[r].config \in Stores
BY DEF ReqOK, InHand

LEMMA TaskMoves ==
    ASSUME ProvOK, NEW p \in Provisioners, NEW t \in TaskRow, Ready(t),
           prov' = [prov EXCEPT ![p] = t]
    PROVE  ProvOK'
<1>1. prov' \in [Provisioners -> TaskRow]
  BY DEF ProvOK
<1>2. \A q \in Provisioners : prov'[q] = IF q = p THEN t ELSE prov[q]
  BY DEF ProvOK
<1>3. QED
  BY <1>1, <1>2 DEF ProvOK

LEMMA CasType ==
    ASSUME PlaneOK, Grows, NEW expected, NEW status \in PlaneStatuses,
           plane' = Cas(expected, status)
    PROVE  PlaneOK'
BY DEF PlaneOK, PlaneRow, Cas, Grows

-----------------------------------------------------------------------------
(* Type correctness, group of actions by group.                            *)

LEMMA DraftRow ==
    ASSUME NEW s \in Stores, NEW d \in Conns \cup {NoConn}
    PROVE  /\ Draft(s, d) \in ConnRow
           /\ Draft(s, d).status = "draft" /\ Draft(s, d).config = s
BY DEF Draft, ConnRow, Statuses

\* A step that writes one connection's draft and leaves the other parts alone.
LEMMA CreatedType ==
    ASSUME TypeOK, NEW c \in Conns, NEW s \in Stores, NEW d \in Conns \cup {NoConn},
           conn' = [conn EXCEPT ![c] = Draft(s, d)]
    PROVE  ConnOK' /\ Grows
<1>1. ConnOK
  BY TypeParts
<1>2. QED
  BY <1>1, DraftRow, RowWritten

LEMMA CreateType ==
    ASSUME TypeOK, NEW c \in Conns, NEW d \in Conns, NEW s \in Stores,
           CreateConnection(c, s) \/ ReplaceConnection(c, d, s)
    PROVE  TypeOK'
<1>1. ConnOK' /\ Grows
  BY CreatedType DEF CreateConnection, ReplaceConnection
<1>2. UNCHANGED <<plane, marker, req, prov, mig, misjudged>>
  BY DEF CreateConnection, ReplaceConnection
<1>3. QED
  BY <1>1, <1>2, TypeParts, Frames

\* A request reads a row it can go on with.
LEMMA ReadsType ==
    ASSUME TypeOK, NEW r \in Requests, NEW c \in Conns,
           \/ UpdateRead(r, c) \/ TestRead(r, c) \/ ActivateRead(r, c)
           \/ PauseRead(r, c) \/ RetireRead(r, c)
    PROVE  TypeOK'
<1>1. ConnOK /\ ReqOK /\ conn[c] \in ConnRow /\ NoStore \notin Stores
  BY TypeParts, IdentityAssumption DEF ConnOK
<1>2. UNCHANGED <<conn, plane, marker, prov, mig, misjudged>>
  BY DEF UpdateRead, TestRead, ActivateRead, PauseRead, RetireRead
<1>3. c \in KnownConns
  BY DEF UpdateRead, TestRead, ActivateRead, PauseRead, RetireRead, KnownConns, Activatable,
         UPDATABLE_STATUSES, TESTABLE_STATUSES, RETIRABLE_STATUSES
<1>4. Grows /\ conn[c].config \in Stores
  BY <1>1, <1>2, <1>3, Frames DEF ConnOK
<1>5. CASE UpdateRead(r, c) \/ PauseRead(r, c) \/ RetireRead(r, c)
  <2>1. \E next \in {"update", "pause", "retire"} : Reads(r, next, c)
    BY <1>5 DEF UpdateRead, PauseRead, RetireRead
  <2>2. ReqOK'
    BY <1>1, <1>3, <1>4, <2>1, RequestReads DEF RequestStages
  <2>3. QED
    BY <1>2, <2>2, TypeParts, Frames
<1>6. CASE TestRead(r, c)
  <2> DEFINE e == [Request("test", c) EXCEPT !.config = conn[c].config]
  <2>1. e \in RequestRow /\ e.conn = c /\ e.config = conn[c].config
    BY <1>1, <1>4 DEF Request, RequestRow, RequestStages, Statuses
  <2>2. InHand(e, KnownConns')
    BY <1>3, <1>4, <2>1 DEF InHand, Grows
  <2>3. req' = [req EXCEPT ![r] = e]
    BY <1>6 DEF TestRead
  <2> HIDE DEF e
  <2>4. ReqOK'
    BY <1>1, <1>4, <2>1, <2>2, <2>3, RequestMoves
  <2>5. QED
    BY <1>2, <2>4, TypeParts, Frames
<1>7. CASE ActivateRead(r, c)
  <2> DEFINE e == [Request("activate", c) EXCEPT !.status = conn[c].status]
  <2>1. e \in RequestRow /\ e.conn = c /\ e.stage = "activate"
    BY <1>1 DEF Request, RequestRow, RequestStages, ConnRow
  <2>2. InHand(e, KnownConns')
    BY <1>3, <1>4, <2>1 DEF InHand, Grows
  <2>3. req' = [req EXCEPT ![r] = e]
    BY <1>7 DEF ActivateRead
  <2> HIDE DEF e
  <2>4. ReqOK'
    BY <1>1, <1>4, <2>1, <2>2, <2>3, RequestMoves
  <2>5. QED
    BY <1>2, <2>4, TypeParts, Frames
<1>8. QED
  BY <1>5, <1>6, <1>7

\* A request writes its row and is answered.
LEMMA WritesType ==
    ASSUME TypeOK, NEW r \in Requests,
           UpdateWrite(r) \/ TestRecord(r) \/ PauseWrite(r) \/ RetireWrite(r)
    PROVE  TypeOK'
<1> DEFINE c == req[r].conn
<1>1. ConnOK /\ PlaneOK /\ ReqOK /\ HistoryOK
  BY TypeParts
<1>2. /\ req[r] \in RequestRow /\ c \in KnownConns
      /\ req[r].stage \in {"test", "passed", "failed"} => req[r].config \in Stores
  BY <1>1, ConnInHand DEF UpdateWrite, TestRecord, PauseWrite, RetireWrite
<1>3. c \in Conns /\ conn[c] \in ConnRow /\ conn[c].config \in Stores
  BY <1>1, <1>2 DEF ConnOK, KnownConns
<1>4. Answer(r) /\ UNCHANGED <<marker, prov, mig>>
  BY DEF UpdateWrite, TestRecord, PauseWrite, RetireWrite
<1>5. ConnOK' /\ Grows
  <2>1. CASE UpdateWrite(r)
    <3>1. PICK s \in Stores : conn' = [conn EXCEPT ![c] = Draft(s, conn[c].replaces)]
      BY <2>1 DEF UpdateWrite, Updated
    <3>2. conn[c].replaces \in Conns \cup {NoConn}
      BY <1>3 DEF ConnRow
    <3>3. QED
      BY <1>3, <3>1, <3>2, CreatedType
  <2>2. CASE TestRecord(r)
    <3> DEFINE row == [conn[c] EXCEPT
              !.status = IF req[r].stage = "passed" THEN "validated" ELSE "error",
              !.tested = IF req[r].stage = "passed" THEN req[r].config ELSE NoStore]
    <3>1. row \in ConnRow /\ row.status # "absent" /\ row.config \in Stores
      BY <1>2, <1>3, <2>2 DEF TestRecord, ConnRow, Statuses
    <3>2. conn' = [conn EXCEPT ![c] = row]
      BY <2>2 DEF TestRecord
    <3> HIDE DEF row
    <3>3. QED
      BY <1>1, <1>3, <3>1, <3>2, RowWritten
  <2>3. CASE PauseWrite(r) \/ RetireWrite(r)
    <3>1. \E status \in {"paused", "retired"} : conn' = [conn EXCEPT ![c].status = status]
      BY <2>3 DEF PauseWrite, RetireWrite
    <3>2. QED
      BY <1>1, <1>2, <3>1, StatusWritten DEF Statuses
  <2>4. QED
    BY <2>1, <2>2, <2>3
<1>6. PlaneOK'
  <2>1. CASE UpdateWrite(r) \/ TestRecord(r)
    BY <1>1, <1>5, <2>1, Frames DEF UpdateWrite, TestRecord
  <2>2. CASE PauseWrite(r)
    BY <1>1, <1>5, <2>2, CasType DEF PauseWrite, PlaneStatuses
  <2>3. CASE RetireWrite(r)
    BY <1>1, <1>5, <2>3, CasType DEF RetireWrite, PlaneStatuses
  <2>4. QED
    BY <2>1, <2>2, <2>3
<1>7. ReqOK'
  BY <1>1, <1>4, <1>5, RequestAnswered
<1>8. HistoryOK'
  BY <1>1, <1>3 DEF HistoryOK, UpdateWrite, TestRecord, PauseWrite, RetireWrite
<1>9. QED
  BY <1>4, <1>5, <1>6, <1>7, <1>8, TypeParts, Frames

LEMMA TestStoreType ==
    ASSUME TypeOK, NEW r \in Requests, TestStore(r)
    PROVE  TypeOK'
<1>1. ReqOK /\ ConnOK
  BY TypeParts
<1>2. PICK outcome \in {"passed", "failed"} : req' = [req EXCEPT ![r].stage = outcome]
  BY DEF TestStore
<1> DEFINE e == [req[r] EXCEPT !.stage = outcome]
<1>3. req[r] \in RequestRow /\ req[r].conn \in KnownConns /\ req[r].config \in Stores
  BY <1>1, ConnInHand DEF TestStore
<1>4. Grows
  BY <1>1, Frames DEF TestStore
<1>5. e \in RequestRow /\ InHand(e, KnownConns')
  BY <1>3, <1>4 DEF RequestRow, RequestStages, InHand, Grows
<1>6. req' = [req EXCEPT ![r] = e]
  BY <1>2
<1> HIDE DEF e
<1>7. ReqOK'
  BY <1>1, <1>4, <1>5, <1>6, RequestMoves
<1>8. QED
  BY <1>7, TypeParts, Frames DEF TestStore

\* Two rows are written: the successor's and, when active, its predecessor's.
LEMMA ActivateWriteType ==
    ASSUME TypeOK, NEW r \in Requests, ActivateWrite(r)
    PROVE  TypeOK'
<1> DEFINE c == req[r].conn
           pred == conn[c].replaces
           after == [d \in Conns |-> IF d = pred /\ conn[d].status = "active"
                                     THEN [conn[d] EXCEPT !.status = "retired"] ELSE conn[d]]
<1>1. ConnOK /\ ReqOK /\ conn \in [Conns -> ConnRow]
  BY TypeParts DEF ConnOK
<1>2. c \in KnownConns /\ c \in Conns
  BY <1>1, ConnInHand DEF ActivateWrite, KnownConns
<1>3. UNCHANGED <<plane, marker, prov, mig, misjudged>>
  BY DEF ActivateWrite
<1>4. after \in [Conns -> ConnRow]
  <2>1. ASSUME NEW d \in Conns PROVE [conn[d] EXCEPT !.status = "retired"] \in ConnRow
    BY <1>1 DEF ConnRow, Statuses
  <2>2. QED
    BY <1>1, <2>1
<1>5. \A d \in KnownConns : after[d].status # "absent" /\ after[d].config \in Stores
  <2>1. ASSUME NEW d \in KnownConns PROVE after[d].status # "absent" /\ after[d].config \in Stores
    <3>1. d \in Conns /\ conn[d].config \in Stores /\ conn[d].status # "absent" /\ conn[d] \in ConnRow
      BY <1>1 DEF ConnOK, KnownConns
    <3>2. QED
      BY <3>1 DEF ConnRow
  <2>2. QED
    BY <2>1
<1>6. \A d \in Conns : after[d].status # "absent" => d \in KnownConns
  BY DEF KnownConns
<1>7. CASE conn' = [after EXCEPT ![c].status = "active"]
           /\ \E next \in {"rebind", "provision", "resume"} : Reads(r, next, c)
  <2> HIDE DEF after
  <2> DEFINE row == [after[c] EXCEPT !.status = "active"]
  <2>1. row \in ConnRow /\ row.status = "active" /\ row.config = after[c].config
    BY <1>2, <1>4 DEF ConnRow, Statuses
  <2>2. conn' = [after EXCEPT ![c] = row]
    BY <1>7
  <2> HIDE DEF row
  <2>3. \A d \in Conns : conn'[d] = IF d = c THEN row ELSE after[d]
    BY <1>4, <2>2
  <2>4. conn' \in [Conns -> ConnRow]
    BY <1>4, <2>1, <2>2
  <2>5. KnownConns' = KnownConns
    BY <1>2, <1>5, <1>6, <2>1, <2>3 DEF KnownConns
  <2>6. KnownConns \subseteq Conns
    BY DEF KnownConns
  <2>7. ConnOK' /\ Grows
    BY <1>2, <1>5, <2>1, <2>3, <2>4, <2>5, <2>6 DEF ConnOK, Grows
  <2>8. ReqOK'
    BY <1>1, <1>2, <1>7, <2>7, RequestReads DEF RequestStages
  <2>9. QED
    BY <1>3, <2>7, <2>8, TypeParts, Frames
<1>8. CASE Answer(r) /\ UNCHANGED conn
  BY <1>1, <1>3, <1>8, RequestAnswered, TypeParts, Frames
<1>9. QED
  BY <1>7, <1>8 DEF ActivateWrite

\* What a request does to the plane after an activation, and one that dies.
LEMMA AfterActivationType ==
    ASSUME TypeOK, NEW r \in Requests,
           Rebind(r) \/ MarkProvisioning(r) \/ MarkReadyFromPaused(r) \/ RequestDies(r)
    PROVE  TypeOK'
<1>1. ConnOK /\ PlaneOK /\ ReqOK /\ ProvOK
  BY TypeParts
<1>2. req[r].conn \in KnownConns
  BY <1>1, ConnInHand DEF Rebind, MarkProvisioning, MarkReadyFromPaused, RequestDies
<1>3. /\ Answer(r) /\ UNCHANGED <<conn, marker, mig, misjudged>>
  BY DEF Rebind, MarkProvisioning, MarkReadyFromPaused, RequestDies
<1>4. Grows /\ ReqOK'
  BY <1>1, <1>3, Frames, RequestAnswered
<1>5. PlaneOK'
  <2>1. CASE Rebind(r) \/ MarkProvisioning(r)
    BY <1>1, <1>2, <1>4, <2>1
       DEF Rebind, MarkProvisioning, PlaneOK, PlaneRow, PlaneStatuses, Grows, KnownConns
  <2>2. CASE MarkReadyFromPaused(r)
    BY <1>1, <1>4, <2>2, CasType DEF MarkReadyFromPaused, Resumed, PlaneStatuses
  <2>3. CASE RequestDies(r)
    BY <1>1, <1>4, <2>3, Frames DEF RequestDies
  <2>4. QED
    BY <2>1, <2>2, <2>3
<1>6. ProvOK'
  <2>1. CASE UNCHANGED prov
    BY <1>1, <2>1, Frames
  <2>2. CASE \E p \in Provisioners : prov' = [prov EXCEPT ![p].stage = "sent"]
    BY <1>1, <2>2 DEF ProvOK, TaskRow, Ready
  <2>3. QED
    BY <2>1, <2>2 DEF Rebind, MarkProvisioning, MarkReadyFromPaused, RequestDies
<1>7. QED
  BY <1>3, <1>4, <1>5, <1>6, TypeParts, Frames

LEMMA ProvisionType ==
    ASSUME TypeOK, NEW p \in Provisioners, Provision(p)
    PROVE  TypeOK'
<1>1. ConnOK /\ PlaneOK /\ MarkerOK /\ ProvOK /\ prov[p] \in TaskRow /\ NoStore \notin Stores
  BY TypeParts, IdentityAssumption DEF ProvOK
<1>2. UNCHANGED <<conn, req, mig, misjudged>>
  BY DEF Provision, ProvisionRead, ProvisionApply, ProvisionFails, ProvisionReady,
         ProvisionFailed, ProvisionLost
<1>3. Grows
  BY <1>1, <1>2, Frames
<1>4. NoTask \in TaskRow /\ Ready(NoTask)
  BY DEF NoTask, TaskRow, Ready
<1>5. CASE ProvisionRead(p)
  <2> DEFINE t == [stage |-> "apply", store |-> conn[plane.conn].config, id |-> plane.store]
  <2>1. plane.conn # NoConn => t \in TaskRow /\ Ready(t)
    BY <1>1 DEF PlaneOK, PlaneRow, ConnOK, TaskRow, Ready
  <2>2. \/ prov' = [prov EXCEPT ![p] = NoTask]
        \/ plane.conn # NoConn /\ prov' = [prov EXCEPT ![p] = t]
    BY <1>5 DEF ProvisionRead
  <2> HIDE DEF t
  <2>3. ProvOK'
    BY <1>1, <1>4, <2>1, <2>2, TaskMoves
  <2>4. QED
    BY <1>2, <1>3, <1>5, <2>3, TypeParts, Frames DEF ProvisionRead
<1>6. CASE ProvisionApply(p)
  <2> DEFINE s == prov[p].store
             id == Identity(s, prov[p].id)
  <2>1. s \in Stores /\ id \in Stores
    BY <1>1, <1>6 DEF ProvisionApply, Identity, ProvOK, Ready, MarkerOK, TaskRow
  <2>2. MarkerOK'
    BY <1>1, <1>6, <2>1 DEF ProvisionApply, MarkerOK
  <2>3. PICK next \in {"applied", "failed"} :
             prov' = [prov EXCEPT ![p] = [stage |-> next, store |-> NoStore, id |-> id]]
    BY <1>6 DEF ProvisionApply
  <2> DEFINE t == [stage |-> next, store |-> NoStore, id |-> id]
  <2>4. t \in TaskRow /\ Ready(t)
    BY <2>1 DEF TaskRow, Ready
  <2>5. ProvOK'
    BY <1>1, <2>3, <2>4, TaskMoves
  <2>6. QED
    BY <1>2, <1>3, <1>6, <2>2, <2>5, TypeParts, Frames DEF ProvisionApply
<1>7. CASE ProvisionFails(p)
  <2> DEFINE t == [prov[p] EXCEPT !.stage = "failed"]
  <2>1. t \in TaskRow /\ Ready(t) /\ prov' = [prov EXCEPT ![p] = t]
    BY <1>1, <1>7 DEF ProvisionFails, TaskRow, Ready
  <2>2. ProvOK'
    BY <1>1, <2>1, TaskMoves
  <2>3. QED
    BY <1>2, <1>3, <1>7, <2>2, TypeParts, Frames DEF ProvisionFails
<1>8. CASE ProvisionReady(p) \/ ProvisionFailed(p) \/ ProvisionLost(p)
  <2>1. UNCHANGED marker /\ prov' = [prov EXCEPT ![p] = NoTask]
    BY <1>8 DEF ProvisionReady, ProvisionFailed, ProvisionLost
  <2>2. ProvOK'
    BY <1>1, <1>4, <2>1, TaskMoves
  <2>3. PlaneOK'
    <3>1. CASE ProvisionReady(p)
      BY <1>1, <1>3, <3>1
         DEF ProvisionReady, Provisioned, PlaneOK, PlaneRow, PlaneStatuses, TaskRow, Grows
    <3>2. CASE ProvisionFailed(p)
      BY <1>1, <1>3, <3>2, CasType DEF ProvisionFailed, PlaneStatuses
    <3>3. CASE ProvisionLost(p)
      BY <1>1, <1>3, <3>3, Frames DEF ProvisionLost
    <3>4. QED
      BY <1>8, <3>1, <3>2, <3>3
  <2>4. QED
    BY <1>2, <1>3, <2>1, <2>2, <2>3, TypeParts, Frames
<1>9. QED
  BY <1>5, <1>6, <1>7, <1>8 DEF Provision

LEMMA MigrateType ==
    ASSUME TypeOK, MigrateRead \/ MigrateApply \/ MigrateWrite
    PROVE  TypeOK'
<1>1. ConnOK /\ PlaneOK /\ MarkerOK /\ MigOK /\ NoStore \notin Stores
  BY TypeParts, IdentityAssumption
<1>2. UNCHANGED <<conn, req, prov, misjudged>>
  BY DEF MigrateRead, MigrateApply, MigrateWrite
<1>3. Grows
  BY <1>1, <1>2, Frames
<1>4. CASE MigrateRead
  <2>1. conn[plane.conn].config \in Stores
    BY <1>1, <1>4 DEF MigrateRead, PlaneOK, ConnOK
  <2>2. MigOK'
    BY <1>4, <2>1 DEF MigrateRead, MigOK
  <2>3. QED
    BY <1>2, <1>3, <1>4, <2>2, TypeParts, Frames DEF MigrateRead
<1>5. CASE MigrateApply
  <2>1. MarkerOK'
    BY <1>1, <1>5 DEF MigrateApply, MarkerOK, MigOK, Identity
  <2>2. MigOK'
    BY <1>1, <1>5 DEF MigrateApply, MigOK
  <2>3. QED
    BY <1>2, <1>3, <1>5, <2>1, <2>2, TypeParts, Frames DEF MigrateApply
<1>6. CASE MigrateWrite
  <2>1. PlaneOK'
    BY <1>1, <1>3, <1>6 DEF MigrateWrite, PlaneOK, PlaneRow, PlaneStatuses, MigOK, Grows
  <2>2. MigOK'
    BY <1>6 DEF MigrateWrite, MigOK, NoMigration
  <2>3. QED
    BY <1>2, <1>3, <1>6, <2>1, <2>2, TypeParts, Frames DEF MigrateWrite
<1>7. QED
  BY <1>4, <1>5, <1>6

LEMMA StepTypeOK == TypeOK /\ [Next]_vars => TypeOK'
<1> SUFFICES ASSUME TypeOK, [Next]_vars PROVE TypeOK'
  OBVIOUS
<1>1. CASE UNCHANGED vars
  BY <1>1, TypeParts, Frames DEF vars
<1>2. CASE \E c, d \in Conns, s \in Stores : CreateConnection(c, s) \/ ReplaceConnection(c, d, s)
  BY <1>2, CreateType
<1>3. ASSUME NEW r \in Requests, Serve(r) PROVE TypeOK'
  BY <1>3, ReadsType, WritesType, TestStoreType, ActivateWriteType, AfterActivationType DEF Serve
<1>4. ASSUME NEW p \in Provisioners, Provision(p) PROVE TypeOK'
  BY <1>4, ProvisionType
<1>5. CASE MigrateRead \/ MigrateApply \/ MigrateWrite
  BY <1>5, MigrateType
<1>6. QED
  BY <1>1, <1>2, <1>3, <1>4, <1>5 DEF Next

\* Type correctness: every row, plane, marker, request and execution stays
\* well-formed, and what a request or an execution has in hand was read from
\* a connection that exists.
THEOREM TypeCorrect == Spec => []TypeOK
BY InitTypeOK, StepTypeOK, PTL DEF Spec

-----------------------------------------------------------------------------
(* The identity of the tenant's store.                                     *)

Carried(id) == \E s \in Stores : marker[s] = id

\* Before the plane has been ready it records no identity, and afterwards it
\* records one that some store carries; what an execution wrote to a store is
\* carried there, and the deploy's step only works on a plane with an identity.
IdentityInv ==
    /\ plane.status \in {"awaiting_store", "provisioning", "provisioning_failed"} =>
          plane.store = NoStore
    /\ plane.status \in {"ready", "paused", "migration_required"} => plane.store # NoStore
    /\ plane.store # NoStore => Carried(plane.store)
    /\ mig.stage # "none" => plane.store # NoStore
    /\ \A p \in Provisioners : prov[p].stage = "applied" => Carried(prov[p].id)

\* A store's marker is written once.
MarkersStick == \A s \in Stores : marker[s] # NoStore => marker'[s] = marker[s]

LEMMA StepMarkers == TypeOK /\ [Next]_vars => MarkersStick
<1> SUFFICES ASSUME TypeOK, [Next]_vars PROVE MarkersStick
  OBVIOUS
<1>1. CASE UNCHANGED marker
  BY <1>1 DEF MarkersStick
<1>2. ASSUME NEW p \in Provisioners, ProvisionApply(p) PROVE MarkersStick
  BY <1>2 DEF ProvisionApply, TypeOK, MarkersStick
<1>3. CASE MigrateApply
  BY <1>3 DEF MigrateApply, TypeOK, Identity, MarkersStick
<1>4. ASSUME NEW r \in Requests, Serve(r) PROVE UNCHANGED marker
  BY <1>4 DEF Serve, UpdateRead, TestRead, ActivateRead, PauseRead, RetireRead, UpdateWrite,
              TestStore, TestRecord, ActivateWrite, Rebind, MarkProvisioning,
              MarkReadyFromPaused, PauseWrite, RetireWrite, RequestDies
<1>5. ASSUME NEW p \in Provisioners, Provision(p), ~ ProvisionApply(p)
      PROVE  UNCHANGED marker
  BY <1>5 DEF Provision, ProvisionRead, ProvisionFails, ProvisionReady, ProvisionFailed,
              ProvisionLost
<1>6. CASE \E c, d \in Conns, s \in Stores : CreateConnection(c, s) \/ ReplaceConnection(c, d, s)
  BY <1>1, <1>6 DEF CreateConnection, ReplaceConnection
<1>7. CASE MigrateRead \/ MigrateWrite
  BY <1>1, <1>7 DEF MigrateRead, MigrateWrite
<1>8. CASE UNCHANGED vars
  BY <1>1, <1>8 DEF vars
<1>9. QED
  BY <1>1, <1>2, <1>3, <1>4, <1>5, <1>6, <1>7, <1>8 DEF Next

LEMMA CarriedOn ==
    TypeOK /\ MarkersStick =>
        \A id \in Stores : Carried(id) => \E s \in Stores : marker'[s] = id
BY IdentityAssumption DEF Carried, MarkersStick

\* The invariant lasts over a step that leaves the plane's identity, the
\* migration in hand and the identities that were applied as they are, and the
\* plane's status among those its identity allows.
LEMMA IdentityFrame ==
    ASSUME TypeOK, IdentityInv, MarkersStick, plane'.store = plane.store,
           \/ plane'.status = plane.status
           \/ /\ plane.status \in {"awaiting_store", "provisioning", "provisioning_failed"}
              /\ plane'.status \in {"awaiting_store", "provisioning", "provisioning_failed"}
           \/ /\ plane.status \in {"ready", "paused", "migration_required"}
              /\ plane'.status \in {"ready", "paused", "migration_required"}
           \/ plane'.status = "store_retired",
           mig'.stage # "none" => mig.stage # "none",
           \A p \in Provisioners : prov'[p].stage = "applied" =>
              prov[p].stage = "applied" /\ prov'[p].id = prov[p].id
    PROVE  IdentityInv'
<1>1. plane.store \in Stores \cup {NoStore}
  BY DEF TypeOK
<1>2. plane.store # NoStore => \E s \in Stores : marker'[s] = plane.store
  BY <1>1, CarriedOn DEF IdentityInv
<1>3. \A p \in Provisioners : prov[p].stage = "applied" =>
         \E s \in Stores : marker'[s] = prov[p].id
  BY CarriedOn DEF TypeOK, IdentityInv
<1>4. plane'.store # NoStore => Carried(plane.store)'
  BY <1>2 DEF Carried
<1>5. \A p \in Provisioners : prov'[p].stage = "applied" => Carried(prov[p].id)'
  BY <1>3 DEF Carried
<1>6. /\ plane'.status \in {"awaiting_store", "provisioning", "provisioning_failed"} =>
            plane'.store = NoStore
      /\ plane'.status \in {"ready", "paused", "migration_required"} => plane'.store # NoStore
      /\ mig'.stage # "none" => plane'.store # NoStore
  BY DEF IdentityInv
<1>7. QED
  BY <1>4, <1>5, <1>6 DEF IdentityInv

LEMMA InitIdentity == Init => IdentityInv
BY IdentityAssumption DEF Init, IdentityInv, NoTask, NoMigration

LEMMA ServeIdentity ==
    ASSUME TypeOK, IdentityInv, MarkersStick, NEW r \in Requests, Serve(r)
    PROVE  IdentityInv'
<1>1. plane \in PlaneRow /\ prov \in [Provisioners -> TaskRow]
  BY TypeParts DEF PlaneOK, ProvOK
<1>2. UNCHANGED mig
  BY DEF Serve, UpdateRead, TestRead, ActivateRead, PauseRead, RetireRead, UpdateWrite,
         TestStore, TestRecord, ActivateWrite, Rebind, MarkProvisioning,
         MarkReadyFromPaused, PauseWrite, RetireWrite, RequestDies
<1>3. CASE MarkProvisioning(r)
  <2>1. plane'.store = plane.store
    BY <1>1, <1>3 DEF MarkProvisioning, PlaneRow
  <2>2. \/ plane'.status = plane.status
        \/ plane.status \in {"awaiting_store", "provisioning_failed"}
           /\ plane'.status = "provisioning"
    BY <1>1, <1>3 DEF MarkProvisioning, PlaneRow
  <2>3. ASSUME NEW p \in Provisioners, prov'[p].stage = "applied"
        PROVE  prov[p].stage = "applied" /\ prov'[p].id = prov[p].id
    BY <1>1, <1>3, <2>3 DEF MarkProvisioning, TaskRow
  <2>4. QED
    BY <1>2, <2>1, <2>2, <2>3, IdentityFrame
<1>4. CASE ~ MarkProvisioning(r)
  <2>1. UNCHANGED prov
    BY <1>4 DEF Serve, UpdateRead, TestRead, ActivateRead, PauseRead, RetireRead, UpdateWrite,
           TestStore, TestRecord, ActivateWrite, Rebind, MarkReadyFromPaused, PauseWrite,
           RetireWrite, RequestDies
  <2>2. CASE UNCHANGED plane
    BY <1>2, <2>1, <2>2, IdentityFrame
  <2>3. CASE Rebind(r)
    <3>1. plane'.store = plane.store /\ plane'.status = plane.status
      BY <1>1, <2>3 DEF Rebind, PlaneRow
    <3>2. QED
      BY <1>2, <2>1, <3>1, IdentityFrame
  <2>4. CASE MarkReadyFromPaused(r) \/ PauseWrite(r) \/ RetireWrite(r)
    <3>1. plane'.store = plane.store
      BY <1>1, <2>4 DEF MarkReadyFromPaused, Resumed, PauseWrite, RetireWrite, Cas, PlaneRow
    <3>2. \/ plane'.status = plane.status
          \/ plane.status = "paused" /\ plane'.status = "ready"
          \/ plane.status = "ready" /\ plane'.status = "paused"
          \/ plane'.status = "store_retired"
      BY <1>1, <2>4 DEF MarkReadyFromPaused, Resumed, PauseWrite, RetireWrite, Cas, PlaneRow
    <3>3. QED
      BY <1>2, <2>1, <3>1, <3>2, IdentityFrame
  <2>5. QED
    BY <1>4, <2>2, <2>3, <2>4
       DEF Serve, UpdateRead, TestRead, ActivateRead, PauseRead, RetireRead, UpdateWrite,
           TestStore, TestRecord, ActivateWrite, RequestDies
<1>5. QED
  BY <1>3, <1>4

LEMMA ProvisionIdentity ==
    ASSUME TypeOK, IdentityInv, MarkersStick, NEW p \in Provisioners, Provision(p)
    PROVE  IdentityInv'
<1>1. /\ plane \in PlaneRow /\ prov \in [Provisioners -> TaskRow] /\ prov[p] \in TaskRow
      /\ NoStore \notin Stores
  BY TypeParts, IdentityAssumption DEF PlaneOK, ProvOK
<1>2. UNCHANGED mig
  BY DEF Provision, ProvisionRead, ProvisionApply, ProvisionFails, ProvisionReady,
         ProvisionFailed, ProvisionLost
<1>3. CASE ProvisionRead(p) \/ ProvisionFails(p) \/ ProvisionLost(p)
  <2>1. UNCHANGED plane
    BY <1>3 DEF ProvisionRead, ProvisionFails, ProvisionLost
  <2>2. ASSUME NEW q \in Provisioners, prov'[q].stage = "applied"
        PROVE  prov[q].stage = "applied" /\ prov'[q].id = prov[q].id
    BY <1>1, <1>3, <2>2 DEF ProvisionRead, ProvisionFails, ProvisionLost, NoTask, TaskRow
  <2>3. QED
    BY <1>2, <2>1, <2>2, IdentityFrame
<1>4. CASE ProvisionFailed(p)
  <2>1. /\ plane'.store = plane.store
        /\ \/ plane'.status = plane.status
           \/ plane.status = "provisioning" /\ plane'.status = "provisioning_failed"
    BY <1>1, <1>4 DEF ProvisionFailed, Cas, PlaneRow
  <2>2. ASSUME NEW q \in Provisioners, prov'[q].stage = "applied"
        PROVE  prov[q].stage = "applied" /\ prov'[q].id = prov[q].id
    BY <1>1, <1>4, <2>2 DEF ProvisionFailed, NoTask, TaskRow
  <2>3. QED
    BY <1>2, <2>1, <2>2, IdentityFrame
<1>5. CASE ProvisionApply(p)
  <2> DEFINE s == prov[p].store
             id == Identity(s, prov[p].id)
  <2>1. s \in Stores /\ UNCHANGED plane
    BY <1>5 DEF ProvisionApply, TypeOK
  <2>2. marker'[s] = id
    BY <1>1, <1>5, <2>1, TypeParts DEF ProvisionApply, Identity, MarkerOK
  <2>3. \A q \in Provisioners : q # p => prov'[q] = prov[q]
    BY <1>1, <1>5 DEF ProvisionApply
  <2>4. prov'[p].id = id
    BY <1>1, <1>5 DEF ProvisionApply
  <2>5. \A q \in Provisioners : prov'[q].stage = "applied" => Carried(prov[q].id)'
    <3>1. Carried(prov[p].id)'
      BY <2>1, <2>2, <2>4 DEF Carried
    <3>2. ASSUME NEW q \in Provisioners, q # p, prov[q].stage = "applied"
          PROVE  Carried(prov[q].id)'
      BY <2>3, <3>2, CarriedOn DEF TypeOK, IdentityInv, Carried
    <3>3. QED
      BY <2>3, <3>1, <3>2
  <2>6. plane.store # NoStore => Carried(plane.store)'
    <3>1. plane.store \in Stores \cup {NoStore}
      BY <1>1 DEF PlaneRow
    <3>2. QED
      BY <2>1, <3>1, CarriedOn DEF IdentityInv, Carried
  <2>7. QED
    BY <1>2, <2>1, <2>5, <2>6 DEF IdentityInv
<1>6. CASE ProvisionReady(p)
  <2>1. \A q \in Provisioners : prov'[q].stage = "applied" =>
            q # p /\ prov[q].stage = "applied" /\ prov'[q].id = prov[q].id
    BY <1>1, <1>6 DEF ProvisionReady, NoTask, TaskRow
  <2>2. CASE plane.status = "provisioning"
    <3>1. plane'.status = "ready" /\ plane'.store = prov[p].id
      BY <1>1, <1>6, <2>2 DEF ProvisionReady, Provisioned, PlaneRow
    <3>2. prov[p].id \in Stores
      BY <1>6 DEF ProvisionReady, TypeOK
    <3>3. Carried(prov[p].id) /\ UNCHANGED marker
      BY <1>6 DEF ProvisionReady, IdentityInv
    <3>4. Carried(plane.store)'
      BY <3>1, <3>3 DEF Carried
    <3>5. \A q \in Provisioners : prov'[q].stage = "applied" => Carried(prov[q].id)'
      BY <2>1, <3>3 DEF Carried, IdentityInv
    <3>6. QED
      BY <1>1, <1>2, <3>1, <3>2, <3>4, <3>5 DEF IdentityInv
  <2>3. CASE plane.status # "provisioning"
    <3>1. UNCHANGED plane
      BY <1>6, <2>3 DEF ProvisionReady, Provisioned
    <3>2. QED
      BY <1>2, <2>1, <3>1, IdentityFrame
  <2>4. QED
    BY <2>2, <2>3
<1>7. QED
  BY <1>3, <1>4, <1>5, <1>6 DEF Provision

LEMMA MigrateIdentity ==
    ASSUME TypeOK, IdentityInv, MarkersStick, MigrateRead \/ MigrateApply \/ MigrateWrite
    PROVE  IdentityInv'
<1>1. plane \in PlaneRow /\ UNCHANGED prov
  BY TypeParts DEF PlaneOK, MigrateRead, MigrateApply, MigrateWrite
<1>2. CASE MigrateRead
  <2>1. UNCHANGED <<plane, marker>> /\ plane.store # NoStore
    BY <1>2 DEF MigrateRead, IdentityInv
  <2>2. QED
    BY <1>1, <2>1 DEF IdentityInv, Carried
<1>3. CASE MigrateApply
  BY <1>1, <1>3, IdentityFrame DEF MigrateApply
<1>4. CASE MigrateWrite
  <2>1. /\ plane'.store = plane.store /\ plane.store # NoStore
        /\ plane'.status \in {"ready", "migration_required"}
        /\ mig'.stage = "none" /\ UNCHANGED marker
    BY <1>1, <1>4 DEF MigrateWrite, PlaneRow, NoMigration, IdentityInv
  <2>2. QED
    BY <1>1, <2>1 DEF IdentityInv, Carried
<1>5. QED
  BY <1>2, <1>3, <1>4

LEMMA StepIdentity == TypeOK /\ IdentityInv /\ [Next]_vars => IdentityInv'
<1> SUFFICES ASSUME TypeOK, IdentityInv, [Next]_vars PROVE IdentityInv'
  OBVIOUS
<1>1. MarkersStick
  BY StepMarkers
<1>2. CASE UNCHANGED vars
  BY <1>1, <1>2, IdentityFrame DEF vars
<1>3. CASE \E c, d \in Conns, s \in Stores : CreateConnection(c, s) \/ ReplaceConnection(c, d, s)
  BY <1>1, <1>3, IdentityFrame DEF CreateConnection, ReplaceConnection
<1>4. ASSUME NEW r \in Requests, Serve(r) PROVE IdentityInv'
  BY <1>1, <1>4, ServeIdentity
<1>5. ASSUME NEW p \in Provisioners, Provision(p) PROVE IdentityInv'
  BY <1>1, <1>5, ProvisionIdentity
<1>6. CASE MigrateRead \/ MigrateApply \/ MigrateWrite
  BY <1>1, <1>6, MigrateIdentity
<1>7. QED
  BY <1>2, <1>3, <1>4, <1>5, <1>6 DEF Next

\* Content is routed, or withheld by a pause or a missing migration, only for a
\* store whose identity was recorded and is carried by some store
\* (provision_tenant_data_plane and _set_outcome).
THEOREM ReadyProvisioned == Spec => []ReadyMeansProvisioned
<1>1. IdentityInv => ReadyMeansProvisioned
  BY DEF IdentityInv, ReadyMeansProvisioned, Carried
<1>2. QED
  BY <1>1, InitIdentity, StepIdentity, InitTypeOK, StepTypeOK, PTL DEF Spec

\* No step changes the recorded identity: only a provisioning plane takes one,
\* and a provisioning plane has none.
THEOREM IdentitySticks == Spec => StoreIdentitySticks
<1>1. TypeOK /\ IdentityInv /\ [Next]_vars =>
          [plane.store # NoStore => plane'.store = plane.store]_vars
  <2> SUFFICES ASSUME TypeOK, IdentityInv, Next, plane.store # NoStore
               PROVE  plane'.store = plane.store
    BY DEF vars
  <2>1. plane \in PlaneRow
    BY TypeParts DEF PlaneOK
  <2>2. CASE UNCHANGED plane
    BY <2>2
  <2>3. ASSUME NEW r \in Requests, Serve(r) PROVE plane'.store = plane.store
    BY <2>1, <2>3
       DEF Serve, UpdateRead, TestRead, ActivateRead, PauseRead, RetireRead, UpdateWrite,
           TestStore, TestRecord, ActivateWrite, Rebind, MarkProvisioning,
           MarkReadyFromPaused, Resumed, PauseWrite, RetireWrite, RequestDies, Cas, PlaneRow
  <2>4. ASSUME NEW p \in Provisioners, Provision(p) PROVE plane'.store = plane.store
    BY <2>1, <2>4
       DEF Provision, ProvisionRead, ProvisionApply, ProvisionFails, ProvisionReady,
           ProvisionFailed, ProvisionLost, Provisioned, Cas, PlaneRow, IdentityInv
  <2>5. CASE MigrateRead \/ MigrateApply \/ MigrateWrite
    BY <2>1, <2>5 DEF MigrateRead, MigrateApply, MigrateWrite, PlaneRow
  <2>6. QED
    BY <2>2, <2>3, <2>4, <2>5 DEF Next, CreateConnection, ReplaceConnection
<1>2. QED
  BY <1>1, InitIdentity, StepIdentity, InitTypeOK, StepTypeOK, PTL DEF Spec, StoreIdentitySticks

-----------------------------------------------------------------------------
(* The evidence of an active connection.                                   *)

\* A connection nothing was misjudged of has evidence for its configuration
\* from the recorded test on, until it is updated, fails a test or is retired.
EvidenceInv ==
    \A c \in Conns \ misjudged :
        conn[c].status \in {"validated", "active", "paused"} => conn[c].tested = conn[c].config

LEMMA InitEvidence == Init => EvidenceInv
BY DEF Init, EvidenceInv, NoRow

LEMMA StepEvidence == TypeOK /\ EvidenceInv /\ [Next]_vars => EvidenceInv'
<1> SUFFICES ASSUME TypeOK, EvidenceInv, [Next]_vars PROVE EvidenceInv'
  OBVIOUS
<1>1. conn \in [Conns -> ConnRow]
  BY DEF TypeOK
<1>2. CASE UNCHANGED <<conn, misjudged>>
  BY <1>2 DEF EvidenceInv
<1>3. ASSUME NEW c \in Conns, NEW s \in Stores, NEW d \in Conns \cup {NoConn},
             conn' = [conn EXCEPT ![c] = Draft(s, d)], UNCHANGED misjudged
      PROVE  EvidenceInv'
  BY <1>1, <1>3 DEF EvidenceInv, Draft
<1>4. ASSUME NEW r \in Requests, Serve(r) PROVE EvidenceInv'
  <2> DEFINE c == req[r].conn
  <2>1. req[r].stage # "idle" => c \in Conns /\ conn[c] \in ConnRow
    BY <1>1, ConnInHand, TypeParts DEF KnownConns
  <2>2. CASE UpdateWrite(r)
    <3>1. conn[c].replaces \in Conns \cup {NoConn}
      BY <2>1, <2>2 DEF UpdateWrite, ConnRow
    <3>2. QED
      BY <1>3, <2>1, <2>2, <3>1 DEF UpdateWrite, Updated
  <2>3. CASE TestRecord(r)
    <3>1. c \in Conns /\ \A d \in Conns \ {c} : conn'[d] = conn[d]
      BY <1>1, <2>1, <2>3 DEF TestRecord
    <3>2. /\ conn'[c].status = IF req[r].stage = "passed" THEN "validated" ELSE "error"
          /\ conn'[c].tested = IF req[r].stage = "passed" THEN req[r].config ELSE NoStore
          /\ conn'[c].config = conn[c].config
      BY <1>1, <2>1, <2>3 DEF TestRecord, ConnRow
    <3>3. c \notin misjudged' => conn[c].config = req[r].config
      BY <2>3 DEF TestRecord
    <3>4. misjudged \subseteq misjudged'
      BY <2>3 DEF TestRecord
    <3>5. QED
      BY <3>1, <3>2, <3>3, <3>4 DEF EvidenceInv
  <2>4. CASE PauseWrite(r)
    <3>1. c \in Conns /\ \A d \in Conns \ {c} : conn'[d] = conn[d]
      BY <1>1, <2>1, <2>4 DEF PauseWrite
    <3>2. conn'[c].tested = conn[c].tested /\ conn'[c].config = conn[c].config
      BY <1>1, <2>1, <2>4 DEF PauseWrite, ConnRow
    <3>3. /\ c \notin misjudged' => conn[c].status = "active"
          /\ misjudged \subseteq misjudged'
      BY <2>4 DEF PauseWrite
    <3>4. QED
      BY <3>1, <3>2, <3>3 DEF EvidenceInv
  <2>5. CASE RetireWrite(r)
    <3>1. c \in Conns /\ \A d \in Conns \ {c} : conn'[d] = conn[d]
      BY <1>1, <2>1, <2>5 DEF RetireWrite
    <3>2. conn'[c].status = "retired" /\ UNCHANGED misjudged
      BY <1>1, <2>1, <2>5 DEF RetireWrite, ConnRow
    <3>3. QED
      BY <3>1, <3>2 DEF EvidenceInv
  <2>6. CASE ActivateWrite(r)
    <3>1. SUFFICES ASSUME conn' # conn PROVE EvidenceInv'
      BY <1>2, <2>6 DEF ActivateWrite
    <3>2. Claims(c) /\ UNCHANGED misjudged
      BY <2>6, <3>1 DEF ActivateWrite
    <3>3. ASSUME NEW d \in Conns \ {c}
          PROVE  conn'[d] = conn[d] \/ conn'[d].status = "retired"
      <4> DEFINE pred == conn[c].replaces
                 after == [e \in Conns |-> IF e = pred /\ conn[e].status = "active"
                                           THEN [conn[e] EXCEPT !.status = "retired"] ELSE conn[e]]
      <4>1. conn' = [after EXCEPT ![c].status = "active"]
        BY <2>6, <3>1 DEF ActivateWrite
      <4>2. conn'[d] = after[d]
        BY <4>1
      <4>3. after[d] = conn[d] \/ after[d] = [conn[d] EXCEPT !.status = "retired"]
        OBVIOUS
      <4>4. conn[d] \in ConnRow
        BY <1>1
      <4>5. QED
        BY <4>2, <4>3, <4>4 DEF ConnRow
    <3>4. conn'[c].tested = conn[c].tested /\ conn'[c].config = conn[c].config
      BY <1>1, <2>1, <2>6, <3>1 DEF ActivateWrite, ConnRow
    <3>5. QED
      BY <2>1, <2>6, <3>2, <3>3, <3>4 DEF EvidenceInv, Claims, ActivateWrite
  <2>7. QED
    BY <1>2, <1>4, <2>2, <2>3, <2>4, <2>5, <2>6
       DEF Serve, UpdateRead, TestRead, ActivateRead, PauseRead, RetireRead, TestStore, Rebind,
           MarkProvisioning, MarkReadyFromPaused, RequestDies
<1>5. CASE \E c, d \in Conns, s \in Stores : CreateConnection(c, s) \/ ReplaceConnection(c, d, s)
  BY <1>3, <1>5 DEF CreateConnection, ReplaceConnection
<1>6. ASSUME NEW p \in Provisioners, Provision(p) PROVE EvidenceInv'
  BY <1>2, <1>6 DEF Provision, ProvisionRead, ProvisionApply, ProvisionFails, ProvisionReady,
                    ProvisionFailed, ProvisionLost
<1>7. CASE MigrateRead \/ MigrateApply \/ MigrateWrite
  BY <1>2, <1>7 DEF MigrateRead, MigrateApply, MigrateWrite
<1>8. QED
  BY <1>2, <1>4, <1>5, <1>6, <1>7 DEF Next, vars

\* An active connection has the configuration its last passed test was made of,
\* unless a test's outcome or a pause was recorded over a row its request had
\* not read, however many requests overlap (activate_connection).
THEOREM ActiveTested == Spec => []ActiveWasTested
<1>1. EvidenceInv => ActiveWasTested
  BY DEF EvidenceInv, ActiveWasTested
<1>2. QED
  BY <1>1, InitEvidence, StepEvidence, InitTypeOK, StepTypeOK, PTL DEF Spec

-----------------------------------------------------------------------------
(* A turn of chat: what every step is shown to preserve.                   *)

Pendings == [question : Question, name : SUBSET Names, candidates : SUBSET Docs,
             reasks : 0 .. MaxReasks]
Conversation == [pending : Pendings, bound : SUBSET Docs, called : SUBSET Names]
ConvOK(c) == /\ c \in Conversation
             /\ c.pending # NoPending => Cardinality(c.pending.candidates) > 1

Planning == {"entity_resolution", "scope_repair", "dispatch"}
Results == [outcome : Outcomes, error : Errors, found : SUBSET Docs]
Recoveries == [outcome : Attempted \cup {"none", "skipped"}, error : Errors, found : SUBSET Docs]
Answers == [reply : {"none", "generated", "incomplete", "nothing_found"}, cited : SUBSET Docs]

DocsOK == docs \subseteq Docs /\ indexed \subseteq docs
ConvsOK == ConvOK(conv) /\ ConvOK(saved)
PlanOK == /\ message \in Question /\ plan \in Seq(EntryType)
          /\ resolved \subseteq Docs /\ unscoped \in BOOLEAN
          /\ clock \in {"ample", "short", "spent"}

\* What a turn has, by the stage it is at: no results before the plan is dispatched,
\* one for each entry afterwards, no recovery before they are in, no answer before
\* it is persisted.
AskedOK == /\ stage \in {"idle"} \cup Planning => results = <<>>
           /\ stage \in {"idle", "retrieval"} \cup Planning => recovery = Outcome("none")
           /\ stage # "persist" => answer = Unanswered
AnsweredOK == /\ stage \notin {"idle"} \cup Planning => DOMAIN results = DOMAIN plan
              /\ results \in Seq(Results) /\ recovery \in Recoveries /\ answer \in Answers
TurnInv == DocsOK /\ ConvsOK /\ PlanOK /\ AskedOK /\ AnsweredOK
             /\ stage \in {"idle", "retrieval", "generation", "persist"} \cup Planning

\* The calls under way are within the budget with those made.
Due(rs) == {i \in DOMAIN rs : rs[i].outcome \in Attempted \cup {"waiting"}}
BudgetInv == Cardinality(Due(results)) <= MaxInvocations /\ WithinBudget

\* Only a search of documents finds any, in its scope if it has one; and so does the
\* recovery, where the searches have the same.  What is said to be found is there, or
\* in an uploaded file, and an error with a message is a failure.
Confined(ds) == \A i \in DOMAIN plan : plan[i].capability \in Searching => plan[i].scope = ds
FoundInv ==
    /\ \A i \in DOMAIN results : results[i].found # {} =>
          /\ plan[i].capability \in Searching
          /\ plan[i].scope = Everything \/ results[i].found \subseteq plan[i].scope
    /\ \A i \in DOMAIN results : results[i].outcome = "ok" /\ results[i].found = {} =>
          plan[i].capability = "tabular"
    /\ \A i \in DOMAIN results : results[i].error = "worded" => results[i].outcome = "failed"
    /\ recovery.outcome = "ok" => recovery.found # {}
    /\ recovery.error = "worded" => recovery.outcome = "failed"
    /\ \A ds \in (SUBSET Docs) \ {{}} : Confined(ds) => recovery.found \subseteq ds
HonestInv == NegativeIsHonest /\ KeptToSubject

LEMMA Limits == MaxInvocations \in Nat /\ MaxInvocations > 0 /\ MaxReasks \in Nat
BY ChatTurnAssumption

LEMMA EntryIs ==
    ASSUME NEW c \in Searching \cup {"tabular", "unknown"}, NEW query \in SUBSET Names,
           NEW scope \in SUBSET (Docs \cup {File(d) : d \in Docs \cup {NoFile}})
    PROVE  Entry(c, query, scope) \in EntryType
BY DEF Entry, EntryType

\* The planner and its fallback write plans.
LEMMA PlansAre ==
    ASSUME NEW q \in Questions, NEW p \in Plans(q)
    PROVE  q \in Question /\ p \in Seq(EntryType)
<1>1. q \in Question
  BY ChatTurnAssumption DEF Question
<1>2. CASE p = FallbackPlan(q)
  <2>1. /\ Entry("semantic", q.names, Everything) \in EntryType
        /\ Entry("structured", q.names, Everything) \in EntryType
    BY <1>1, EntryIs DEF Question, Everything, Searching
  <2>2. QED
    BY <1>1, <1>2, <2>1 DEF FallbackPlan
<1>3. ASSUME NEW shape \in Shapes, NEW asked \in Asked(q, shape), NEW scope \in PlannedScopes(q),
             p = Written(q, shape, asked, scope)
      PROVE  p \in Seq(EntryType)
  <2>1. shape \in Seq(Searching \cup {"tabular", "unknown"})
    BY ChatTurnAssumption DEF Searching
  <2>2. scope \in SUBSET (Docs \cup {File(d) : d \in Docs \cup {NoFile}})
    BY DEF PlannedScopes, Everything
  <2>3. \A i \in DOMAIN shape : shape[i] \in Searching \cup {"tabular", "unknown"}
    BY <2>1
  <2>4. \A i \in DOMAIN shape : asked[i] \in SUBSET Names
    BY <1>1 DEF Asked, Question
  <2>5. \A i \in DOMAIN shape : p[i] \in EntryType
    BY <1>1, <1>3, <2>2, <2>3, <2>4, EntryIs DEF Written, Everything, Question
  <2>6. DOMAIN p = DOMAIN shape /\ p = [i \in DOMAIN shape |-> p[i]]
    BY <1>3 DEF Written
  <2>7. DOMAIN shape = 1 .. Len(shape) /\ Len(shape) \in Nat
    BY <2>1
  <2>8. QED
    BY <2>5, <2>6, <2>7
<1>4. QED
  BY <1>1, <1>2, <1>3 DEF Plans

\* A plan that is written entry by entry is a plan.
LEMMA RewrittenIs ==
    ASSUME PlanOK, NEW newPlan, newPlan = [i \in DOMAIN plan |-> newPlan[i]],
           \A i \in DOMAIN plan : newPlan[i] \in EntryType
    PROVE  newPlan \in Seq(EntryType)
<1>1. DOMAIN plan = 1 .. Len(plan) /\ Len(plan) \in Nat
  BY DEF PlanOK
<1>2. QED
  BY <1>1

LEMMA RewrittenType ==
    ASSUME PlanOK, NEW ids, NEW query,
           \A i \in DOMAIN plan : ids[i] \in SUBSET Docs /\ query[i] \in SUBSET Names
    PROVE  Rewritten(ids, query) \in Seq(EntryType)
<1>1. \A i \in DOMAIN plan : plan[i] \in EntryType
  BY DEF PlanOK
<1>2. \A i \in DOMAIN plan : Rewritten(ids, query)[i] \in EntryType
  <2>1. TAKE i \in DOMAIN plan
  <2>2. plan[i].scope \in SUBSET (Docs \cup {File(d) : d \in Docs \cup {NoFile}})
    BY <1>1 DEF EntryType
  <2> DEFINE scope == IF ids[i] = {} THEN plan[i].scope ELSE ids[i]
  <2>3. scope \in SUBSET (Docs \cup {File(d) : d \in Docs \cup {NoFile}})
    BY <2>2
  <2>4. Rewritten(ids, query)[i] =
           IF plan[i].capability \in Searching
           THEN [plan[i] EXCEPT !.scope = scope, !.query = query[i]] ELSE plan[i]
    BY DEF Rewritten
  <2> HIDE DEF scope
  <2>5. QED
    BY <1>1, <2>3, <2>4 DEF EntryType
<1>3. Rewritten(ids, query) = [i \in DOMAIN plan |-> Rewritten(ids, query)[i]]
  BY DEF Rewritten
<1>4. QED
  BY <1>2, <1>3, RewrittenIs

LEMMA QueriesAre ==
    ASSUME PlanOK
    PROVE  \A i \in DOMAIN plan : Queries[i] \in SUBSET Names
<1>1. \A i \in DOMAIN plan : plan[i] \in EntryType
  BY DEF PlanOK
<1>2. QED
  BY <1>1 DEF Queries, EntryType

-----------------------------------------------------------------------------
(* The stages of a turn.                                                   *)

\* Until the plan is dispatched there is nothing to keep within a budget or a subject.
LEMMA Nothing ==
    ASSUME AskedOK', stage' \in {"idle"} \cup Planning
    PROVE  BudgetInv' /\ FoundInv' /\ HonestInv'
<1>1. results' = <<>> /\ recovery' = Outcome("none") /\ answer' = Unanswered
  BY DEF AskedOK, Planning
<1>2. BudgetInv'
  <2>1. Due(results') = {} /\ Invocations(results') = 0 /\ recovery'.outcome = "none"
    BY <1>1, FS_EmptySet DEF Outcome, Due, Invocations
  <2>2. {recovery'.outcome} \cap Attempted = {}
    BY <2>1 DEF Attempted
  <2>3. Cardinality(Due(results')) = 0 /\ Cardinality({recovery'.outcome} \cap Attempted) = 0
    BY <2>1, <2>2, FS_EmptySet
  <2>4. QED
    BY <2>1, <2>3, Limits DEF BudgetInv, WithinBudget
<1>3. FoundInv'
  BY <1>1 DEF FoundInv, Outcome
<1>4. HonestInv'
  BY <1>1 DEF HonestInv, NegativeIsHonest, KeptToSubject, Unanswered
<1>5. QED
  BY <1>2, <1>3, <1>4

\* The state of the graph is gone with the turn.
LEMMA Ended ==
    ASSUME EndTurn, DocsOK', ConvsOK'
    PROVE  TurnInv' /\ stage' = "idle"
<1>1. <<>> \in Seq(EntryType) /\ <<>> \in Seq(Results) /\ DOMAIN <<>> = {}
  OBVIOUS
<1>2. PlanOK'
  BY <1>1 DEF EndTurn, PlanOK, NoQuestion, Question
<1>3. AskedOK' /\ AnsweredOK'
  BY <1>1 DEF EndTurn, AskedOK, AnsweredOK, Planning, Outcome, Unanswered, Recoveries,
       Errors, Answers
<1>4. QED
  BY <1>2, <1>3 DEF TurnInv, EndTurn

LEMMA InitTurn == TurnInit => TurnInv /\ BudgetInv /\ FoundInv /\ HonestInv
<1> SUFFICES ASSUME TurnInit PROVE TurnInv /\ BudgetInv /\ FoundInv /\ HonestInv
  OBVIOUS
<1>1. TurnInv
  <2>1. <<>> \in Seq(EntryType) /\ <<>> \in Seq(Results) /\ DOMAIN <<>> = {}
    OBVIOUS
  <2>2. PlanOK
    BY <2>1 DEF TurnInit, PlanOK, NoQuestion, Question
  <2>3. AskedOK /\ AnsweredOK
    BY <2>1 DEF TurnInit, AskedOK, AnsweredOK, Planning, Outcome, Unanswered, Recoveries,
       Errors, Answers
  <2>4. ConvOK(NewConversation)
    BY ChatTurnAssumption DEF ConvOK, NewConversation, NoPending, NoQuestion, Question, Conversation, Pendings
  <2>5. QED
    BY <2>2, <2>3, <2>4 DEF TurnInv, TurnInit, DocsOK, ConvsOK
<1>2. Due(results) = {} /\ Invocations(results) = 0 /\ recovery.outcome = "none"
  BY FS_EmptySet DEF Due, Invocations, TurnInit, Outcome
<1>3. {recovery.outcome} \cap Attempted = {}
  BY <1>2 DEF Attempted
<1>4. Cardinality(Due(results)) = 0 /\ Cardinality({recovery.outcome} \cap Attempted) = 0
  BY <1>2, <1>3, FS_EmptySet
<1>5. BudgetInv
  BY <1>2, <1>4, Limits DEF BudgetInv, WithinBudget
<1>6. FoundInv /\ HonestInv
  BY DEF TurnInit, FoundInv, Outcome, HonestInv, NegativeIsHonest, KeptToSubject, Unanswered
<1>7. QED
  BY <1>1, <1>5, <1>6

LEMMA AskTurn ==
    ASSUME TurnInv, NEW q \in Questions, NEW p \in Plans(q), Ask(q, p)
    PROVE  TurnInv' /\ stage' \in Planning
<1>1. stage = "idle" /\ stage' = "entity_resolution" /\ message' \in Question /\ plan' \in Seq(EntryType)
  BY PlansAre DEF Ask
<1>2. DocsOK' /\ ConvsOK'
  BY DEF Ask, TurnInv, DocsOK, ConvsOK
<1>3. PlanOK' /\ AskedOK' /\ AnsweredOK'
  BY <1>1 DEF Ask, TurnInv, PlanOK, AskedOK, AnsweredOK, Planning
<1>4. QED
  BY <1>1, <1>2, <1>3 DEF TurnInv, Planning

\* The resolution hands the plan on, or ends the turn with a reply of its own.
LEMMA RetrieveTurn ==
    ASSUME TurnInv, stage = "entity_resolution", ConvOK(conv'), message' \in Question,
           NEW newPlan \in Seq(EntryType), NEW ids \in SUBSET Docs, NEW left \in BOOLEAN,
           Retrieve(newPlan, ids, left)
    PROVE  TurnInv' /\ stage' \in Planning
<1>1. DocsOK' /\ ConvsOK'
  BY DEF Retrieve, TurnInv, DocsOK, ConvsOK
<1>2. PlanOK' /\ AskedOK' /\ AnsweredOK'
  BY DEF Retrieve, TurnInv, PlanOK, AskedOK, AnsweredOK, Planning
<1>3. QED
  BY <1>1, <1>2 DEF Retrieve, TurnInv, Planning

LEMMA ReplyTurn ==
    ASSUME TurnInv, ConvOK(conv'), Reply
    PROVE  TurnInv' /\ stage' = "idle"
<1>1. DocsOK' /\ ConvsOK'
  BY DEF Reply, TurnInv, DocsOK, ConvsOK
<1>2. QED
  BY <1>1, Ended DEF Reply

\* What is called by a name are documents.
LEMMA CalledAre ==
    ASSUME TurnInv
    PROVE  /\ \A n : Called(n) \subseteq Docs
           /\ Union \subseteq Docs /\ Matched \subseteq Names
           /\ \A i \in DOMAIN plan : PerEntry[i] \subseteq Docs
<1>1. \A n : Called(n) \subseteq Docs
  BY DEF TurnInv, DocsOK, Called
<1>2. QED
  BY <1>1 DEF Union, Matched, PerEntry, TurnInv, PlanOK, Question

LEMMA ConvIs ==
    ASSUME TurnInv
    PROVE  /\ ConvOK(conv) /\ conv \in Conversation /\ conv.pending \in Pendings
           /\ conv.bound \in SUBSET Docs /\ conv.called \in SUBSET Names
           /\ PlanOK /\ plan \in Seq(EntryType) /\ message \in Question
BY DEF TurnInv, ConvsOK, ConvOK, PlanOK, Conversation

LEMMA NoPendingIs == NoPending \in Pendings
BY Limits DEF NoPending, Pendings, NoQuestion, Question

LEMMA SelectTurn ==
    ASSUME TurnInv, NEW d \in conv.pending.candidates, Select(d)
    PROVE  TurnInv' /\ stage' \in Planning
<1>1. d \in Docs /\ conv.pending.question \in Question
  BY ConvIs DEF Pendings
<1>2. NameOf[d] \in Names
  BY <1>1, ChatTurnAssumption
<1>3. ConvOK(conv')
  BY <1>1, <1>2, NoPendingIs DEF Select, ConvOK, Conversation
<1>4. Rewritten(AllOf({d}), AllOf(conv.pending.question.names)) \in Seq(EntryType)
  <2>1. \A i \in DOMAIN plan : /\ AllOf({d})[i] \in SUBSET Docs
                               /\ AllOf(conv.pending.question.names)[i] \in SUBSET Names
    BY <1>1 DEF AllOf, Question
  <2>2. QED
    BY <2>1, ConvIs, RewrittenType
<1>5. QED
  BY <1>1, <1>3, <1>4, RetrieveTurn DEF Select, Resolving

LEMMA ReaskTurn ==
    ASSUME TurnInv, Reask
    PROVE  TurnInv' /\ stage' = "idle"
<1>1. conv.pending \in Pendings /\ conv.pending.reasks + 1 \in 0 .. MaxReasks
  BY ConvIs, Limits DEF Reask, Pendings
<1> DEFINE pending == [conv.pending EXCEPT !.reasks = @ + 1]
<1>2. pending \in Pendings /\ pending.candidates = conv.pending.candidates
  BY <1>1 DEF Pendings
<1>3. conv' = [conv EXCEPT !.pending = pending]
  BY ConvIs DEF Reask, Conversation
<1>4. Cardinality(conv.pending.candidates) > 1
  BY ConvIs DEF Reask, Pending, ConvOK
<1> HIDE DEF pending
<1>5. ConvOK(conv')
  BY <1>2, <1>3, <1>4, ConvIs DEF ConvOK, Conversation
<1>6. QED
  BY <1>5, ReplyTurn DEF Reask

LEMMA AbandonTurn ==
    ASSUME TurnInv, Abandon
    PROVE  TurnInv' /\ stage' \in Planning
<1>1. ConvOK(conv')
  BY ConvIs, NoPendingIs DEF Abandon, ConvOK, Conversation
<1>2. message' \in Question
  BY ConvIs DEF Abandon
<1>3. QED
  BY <1>1, <1>2, ConvIs, RetrieveTurn DEF Abandon, Resolving

LEMMA UniqueTurn ==
    ASSUME TurnInv, Unique
    PROVE  TurnInv' /\ stage' \in Planning
<1>1. ConvOK(conv')
  BY ConvIs, CalledAre DEF Unique, Lookup, Pending, ConvOK, Conversation
<1>2. Rewritten(PerEntry, Queries) \in Seq(EntryType)
  BY ConvIs, CalledAre, QueriesAre, RewrittenType
<1>3. QED
  BY <1>1, <1>2, ConvIs, CalledAre, RetrieveTurn DEF Unique, Lookup, Resolving

\* The entries are scoped to the documents the conversation is bound to.
LEMMA BoundPlan ==
    ASSUME TurnInv
    PROVE  Rewritten(AllOf(conv.bound), Queries) \in Seq(EntryType)
<1>1. \A i \in DOMAIN plan : AllOf(conv.bound)[i] \in SUBSET Docs
  BY ConvIs DEF AllOf
<1>2. QED
  BY <1>1, ConvIs, QueriesAre, RewrittenType

LEMMA ClarifyTurn ==
    ASSUME TurnInv, NEW n \in message.names, Clarify(n)
    PROVE  TurnInv' /\ stage' = "idle"
<1>1. n \in Names /\ Called(n) \subseteq Docs /\ Cardinality(Called(n)) > 1
  BY ConvIs, CalledAre DEF Clarify, Ambiguous, Question
<1>2. [question |-> message, name |-> {n}, candidates |-> Called(n), reasks |-> 0] \in Pendings
  BY <1>1, ConvIs, Limits DEF Pendings
<1>3. ConvOK(conv')
  BY <1>1, <1>2, ConvIs DEF Clarify, ConvOK, Conversation
<1>4. QED
  BY <1>3, ReplyTurn DEF Clarify

LEMMA ResolveTurn ==
    ASSUME TurnInv, Resolve
    PROVE  TurnInv' /\ stage' \in {"idle"} \cup Planning
<1>1. CASE NothingToResolve
  BY <1>1, ConvIs, RetrieveTurn DEF NothingToResolve, Resolving
<1>2. CASE TooMany
  BY <1>2, ConvIs, ReplyTurn DEF TooMany
<1>3. CASE Inherit
  BY <1>3, ConvIs, BoundPlan, RetrieveTurn DEF Inherit, Lookup, Resolving
<1>4. CASE Unresolved
  <2>1. ConvOK(conv')
    BY <1>4, ConvIs DEF Unresolved, Lookup, Pending, ConvOK, Conversation
  <2>2. QED
    BY <1>4, <2>1, ConvIs, RetrieveTurn DEF Unresolved, Lookup, Resolving
<1>5. ASSUME NEW n \in message.names, AlreadyBound(n)
      PROVE  TurnInv' /\ stage' \in Planning
  BY <1>5, ConvIs, BoundPlan, RetrieveTurn DEF AlreadyBound, Lookup, Resolving
<1>6. QED
  BY <1>1, <1>2, <1>3, <1>4, <1>5, SelectTurn, ReaskTurn, AbandonTurn, UniqueTurn, ClarifyTurn
     DEF Resolve

-----------------------------------------------------------------------------
(* Retrieval and the answer.                                               *)

LEMMA RepairTurn ==
    ASSUME TurnInv, RepairScopes
    PROVE  TurnInv' /\ stage' \in Planning
<1>1. plan' \in Seq(EntryType)
  <2>1. CASE UNCHANGED plan
    BY <2>1, ConvIs
  <2>2. CASE plan' = [i \in DOMAIN plan |->
                         IF plan[i].rejected THEN plan[i]
                         ELSE [plan[i] EXCEPT !.scope = Repaired(@)]]
    <3>1. \A i \in DOMAIN plan : plan[i] \in EntryType
      BY ConvIs DEF PlanOK
    <3>2. \A i \in DOMAIN plan : plan'[i] \in EntryType
      BY <2>2, <3>1 DEF EntryType, Repaired
    <3>3. plan' = [i \in DOMAIN plan |-> plan'[i]]
      BY <2>2
    <3>4. QED
      BY <3>2, <3>3, ConvIs, RewrittenIs
  <2>3. QED
    BY <2>1, <2>2 DEF RepairScopes
<1>2. DocsOK' /\ ConvsOK' /\ PlanOK'
  BY <1>1 DEF RepairScopes, TurnInv, DocsOK, ConvsOK, PlanOK
<1>3. AskedOK' /\ AnsweredOK'
  BY DEF RepairScopes, TurnInv, AskedOK, AnsweredOK, Planning
<1>4. QED
  BY <1>2, <1>3 DEF RepairScopes, TurnInv, Planning

\* What the properties are about is left as it is.
LEMMA TurnFrame ==
    ASSUME BudgetInv, FoundInv, HonestInv, UNCHANGED <<plan, resolved, unscoped, results, recovery, answer>>
    PROVE  BudgetInv' /\ FoundInv' /\ HonestInv'
<1>1. BudgetInv'
  BY DEF BudgetInv, WithinBudget, Invocations, Due
<1>2. FoundInv'
  BY DEF FoundInv, Confined
<1>3. HonestInv'
  BY DEF HonestInv, NegativeIsHonest, KeptToSubject
<1>4. QED
  BY <1>1, <1>2, <1>3

LEMMA TickTurn ==
    ASSUME TurnInv, Tick
    PROVE  TurnInv' /\ UNCHANGED <<plan, resolved, unscoped, results, recovery, answer>>
<1>1. DocsOK' /\ ConvsOK' /\ PlanOK'
  BY DEF Tick, state, TurnInv, DocsOK, ConvsOK, PlanOK
<1>2. AskedOK' /\ AnsweredOK'
  BY DEF Tick, state, TurnInv, AskedOK, AnsweredOK, Planning
<1>3. QED
  BY <1>1, <1>2 DEF Tick, state, TurnInv

LEMMA DeleteTurn ==
    ASSUME TurnInv, NEW d \in docs, Delete(d)
    PROVE  TurnInv' /\ UNCHANGED <<plan, resolved, unscoped, results, recovery, answer>>
<1>1. DocsOK' /\ ConvsOK' /\ PlanOK'
  BY DEF Delete, turn, state, TurnInv, DocsOK, ConvsOK, PlanOK
<1>2. AskedOK' /\ AnsweredOK'
  BY DEF Delete, turn, state, TurnInv, AskedOK, AnsweredOK
<1>3. QED
  BY <1>1, <1>2 DEF Delete, turn, state, TurnInv

-----------------------------------------------------------------------------
(* The budget.                                                             *)

\* A set of naturals below a bound has a greatest element.
LEMMA Greatest ==
    ASSUME NEW n \in Nat, NEW S \in SUBSET (1 .. n), S # {}
    PROVE  \E k \in S : \A l \in S : l <= k
<1> DEFINE T == {k \in Nat : \A l \in S : l <= k}
           R == OpToRel(<, Nat)
<1>1. n \in T /\ T \subseteq Nat
  OBVIOUS
<1>2. PICK k \in T : \A l \in T : <<l, k>> \notin R
  <2>1. IsWellFoundedOn(R, Nat)
    BY NatLessThanWellFounded
  <2>2. T # {} /\ T \in SUBSET Nat
    BY <1>1
  <2> HIDE DEF R, T
  <2>3. QED
    BY <2>1, <2>2, WFMin
<1>3. \A l \in T : ~ (l < k)
  BY <1>2 DEF OpToRel
<1>4. k \in S
  <2>1. SUFFICES ASSUME k \notin S PROVE FALSE
    OBVIOUS
  <2>2. PICK s \in S : s \in 1 .. n
    OBVIOUS
  <2>3. \A l \in S : l <= k - 1
    <3>1. TAKE l \in S
    <3>2. l \in 1 .. n /\ l # k
      BY <2>1
    <3>3. k \in Nat /\ l <= k
      BY <1>2
    <3>4. QED
      BY <3>2, <3>3
  <2>4. k - 1 \in T
    BY <2>2, <2>3
  <2>5. QED
    BY <1>3, <2>4
<1>5. QED
  BY <1>2, <1>4

\* The entries with so many before them are as many at most.
LEMMA FirstOnes ==
    ASSUME NEW n \in Nat, NEW S \in SUBSET (1 .. n), NEW m \in Nat
    PROVE  Cardinality({i \in S : Cardinality({j \in S : j <= i}) <= m}) <= m
<1> DEFINE T == {i \in S : Cardinality({j \in S : j <= i}) <= m}
<1> SUFFICES Cardinality(T) <= m
  OBVIOUS
<1>1. CASE T = {}
  <2> HIDE DEF T
  <2>1. QED
    BY <1>1, FS_EmptySet
<1>2. CASE T # {}
  <2>1. PICK k \in T : \A l \in T : l <= k
    <3>1. T \in SUBSET (1 .. n)
      OBVIOUS
    <3> HIDE DEF T
    <3>2. QED
      BY <1>2, <3>1, Greatest
  <2> DEFINE U == {j \in S : j <= k}
  <2>2. Cardinality(U) <= m
    BY <2>1
  <2>3. T \subseteq U
    BY <2>1
  <2>4. IsFiniteSet(U)
    <3>1. IsFiniteSet(1 .. n)
      BY FS_Interval
    <3>2. QED
      BY <3>1, FS_Subset
  <2> HIDE DEF T, U
  <2>5. Cardinality(T) <= Cardinality(U) /\ IsFiniteSet(T)
    BY <2>3, <2>4, FS_Subset
  <2>6. Cardinality(T) \in Nat /\ Cardinality(U) \in Nat
    BY <2>4, <2>5, FS_CardinalityType
  <2>7. QED
    BY <2>2, <2>5, <2>6
<1>3. QED
  BY <1>1, <1>2

LEMMA ExecutableAreFew ==
    ASSUME PlanOK
    PROVE  Cardinality(Executable) <= MaxInvocations
<1>1. CASE clock = "spent"
  BY <1>1, FS_EmptySet, Limits DEF Executable
<1>2. CASE clock # "spent"
  <2>1. Len(plan) \in Nat /\ Live(plan) \in SUBSET (1 .. Len(plan))
    BY DEF PlanOK, Live
  <2>2. Executable = {i \in Live(plan) : Cardinality({j \in Live(plan) : j <= i}) <= MaxInvocations}
    BY <1>2 DEF Executable
  <2>3. QED
    BY <2>1, <2>2, FirstOnes, Limits
<1>3. QED
  BY <1>1, <1>2

LEMMA AttemptedAreDue ==
    ASSUME NEW rs \in Seq(Results)
    PROVE  /\ IsFiniteSet(Due(rs)) /\ Cardinality(Due(rs)) \in Nat
           /\ Invocations(rs) \in Nat /\ Invocations(rs) <= Cardinality(Due(rs))
<1> DEFINE Made == {i \in DOMAIN rs : rs[i].outcome \in Attempted}
<1>1. DOMAIN rs = 1 .. Len(rs) /\ Len(rs) \in Nat
  OBVIOUS
<1>2. IsFiniteSet(DOMAIN rs)
  BY <1>1, FS_Interval
<1>3. IsFiniteSet(Due(rs))
  BY <1>2, FS_Subset DEF Due
<1>4. Made \in SUBSET Due(rs)
  BY DEF Due
<1>5. IsFiniteSet(Made) /\ Cardinality(Made) <= Cardinality(Due(rs))
  BY <1>3, <1>4, FS_Subset
<1>6. Cardinality(Made) \in Nat /\ Cardinality(Due(rs)) \in Nat
  BY <1>3, <1>5, FS_CardinalityType
<1>7. Invocations(rs) = Cardinality(Made)
  BY DEF Invocations
<1>8. QED
  BY <1>3, <1>5, <1>6, <1>7

-----------------------------------------------------------------------------
(* What the calls find.                                                    *)

LEMMA DispatchTurn ==
    ASSUME TurnInv, Dispatch
    PROVE  TurnInv' /\ BudgetInv' /\ FoundInv' /\ HonestInv'
<1> DEFINE rs == [i \in DOMAIN plan |->
                     Outcome(IF i \in Executable THEN "waiting" ELSE "not_attempted")]
<1>1. results' = rs /\ UNCHANGED <<docs, indexed, conv, saved, state, clock, recovery, answer>>
      /\ stage = "dispatch" /\ stage' = "retrieval"
  BY DEF Dispatch
<1>2. /\ DOMAIN rs = DOMAIN plan
      /\ \A i \in DOMAIN rs : rs[i] = Outcome(IF i \in Executable THEN "waiting" ELSE "not_attempted")
  OBVIOUS
<1>3. rs \in Seq(Results)
  <2>1. DOMAIN plan = 1 .. Len(plan) /\ Len(plan) \in Nat
    BY DEF TurnInv, PlanOK
  <2>2. \A i \in DOMAIN plan : rs[i] \in Results
    BY DEF Results, Outcome, Outcomes, Errors
  <2>3. QED
    BY <2>1, <2>2
<1> HIDE DEF rs
<1>4. recovery = Outcome("none") /\ answer = Unanswered
  BY <1>1 DEF TurnInv, AskedOK, Planning
<1>5. TurnInv'
  <2>1. DocsOK' /\ ConvsOK' /\ PlanOK'
    BY <1>1 DEF state, TurnInv, DocsOK, ConvsOK, PlanOK
  <2>2. AskedOK' /\ AnsweredOK'
    BY <1>1, <1>2, <1>3, <1>4 DEF state, TurnInv, AskedOK, AnsweredOK, Planning
  <2>3. QED
    BY <1>1, <2>1, <2>2 DEF TurnInv
<1>6. BudgetInv'
  <2>1. Due(rs) \in SUBSET Executable /\ Invocations(rs) = 0
    <3>1. \A i \in DOMAIN rs : rs[i].outcome \notin Attempted
      BY <1>2 DEF Outcome, Attempted
    <3>2. {i \in DOMAIN rs : rs[i].outcome \in Attempted} = {}
      BY <3>1
    <3>3. \A i \in DOMAIN rs : i \in Executable \/ rs[i].outcome = "not_attempted"
      BY <1>2 DEF Outcome
    <3>4. QED
      BY <3>2, <3>3, FS_EmptySet DEF Due, Attempted, Invocations
  <2>2. IsFiniteSet(Executable)
    <3>1. IsFiniteSet(1 .. Len(plan)) /\ Executable \in SUBSET (1 .. Len(plan))
      BY FS_Interval DEF TurnInv, PlanOK, Executable, Live
    <3>2. QED
      BY <3>1, FS_Subset
  <2>3. Cardinality(Due(rs)) <= MaxInvocations
    <3>1. Cardinality(Executable) <= MaxInvocations
      BY ExecutableAreFew DEF TurnInv
    <3>2. Cardinality(Due(rs)) <= Cardinality(Executable) /\ IsFiniteSet(Due(rs))
      BY <2>1, <2>2, FS_Subset
    <3>3. Cardinality(Due(rs)) \in Nat /\ Cardinality(Executable) \in Nat
      BY <2>2, <3>2, FS_CardinalityType
    <3>4. QED
      BY <3>1, <3>2, <3>3, Limits
  <2>4. {recovery.outcome} \cap Attempted = {}
    BY <1>4 DEF Outcome, Attempted
  <2>5. Cardinality({recovery.outcome} \cap Attempted) = 0
    BY <2>4, FS_EmptySet
  <2>6. QED
    BY <1>1, <2>1, <2>3, <2>5, Limits DEF BudgetInv, WithinBudget
<1>7. FoundInv'
  BY <1>1, <1>2, <1>4 DEF FoundInv, Outcome
<1>8. HonestInv'
  BY <1>1, <1>4 DEF HonestInv, NegativeIsHonest, KeptToSubject, Unanswered
<1>9. QED
  BY <1>5, <1>6, <1>7, <1>8

\* A call is attempted, and what a search finds is a document of its scope.
LEMMA ResultIs ==
    ASSUME DocsOK, NEW entry, NEW r \in ResultsOf(entry)
    PROVE  /\ r \in Results /\ r.outcome \in Attempted
           /\ r.found # {} => /\ entry.capability \in Searching
                              /\ entry.scope = Everything \/ r.found \subseteq entry.scope
           /\ r.outcome = "ok" /\ r.found = {} => entry.capability = "tabular"
           /\ r.error = "worded" => r.outcome = "failed"
<1>1. Findable(entry) \subseteq docs
  BY DEF DocsOK, Findable, InScope
<1>2. CASE r = Outcome("ok") /\ entry.capability = "tabular"
  BY <1>2 DEF Outcome, Results, Outcomes, Attempted, Errors
<1>3. ASSUME NEW error \in Errors, r = Returned(error, {})
      PROVE  /\ r \in Results /\ r.outcome \in {"failed", "empty"} /\ r.found = {}
             /\ r.error = "worded" => r.outcome = "failed"
  BY <1>3 DEF Returned, StatusOf, Results, Outcomes, Attempted, Errors
<1>4. ASSUME NEW d \in Findable(entry), r = Returned("none", {d})
      PROVE  /\ r \in Results /\ r.outcome \in Attempted
             /\ r.found # {} => /\ entry.capability \in Searching
                                /\ entry.scope = Everything \/ r.found \subseteq entry.scope
             /\ r.outcome = "ok" /\ r.found = {} => entry.capability = "tabular"
             /\ r.error = "worded" => r.outcome = "failed"
  <2>1. r \in Results /\ r.outcome \in Attempted /\ r.found = {d} /\ r.error = "none"
    BY <1>1, <1>4 DEF Returned, StatusOf, Results, Outcomes, Attempted, Errors, DocsOK
  <2>2. entry.capability \in Searching /\ d \in InScope(entry.scope)
    BY DEF Findable, Searching
  <2>3. entry.scope = Everything \/ d \in entry.scope
    BY <2>2 DEF InScope
  <2>4. QED
    BY <2>1, <2>2, <2>3
<1>5. \/ \E error \in Errors : r = Returned(error, {})
      \/ \E d \in Findable(entry) : r = Returned("none", {d})
      \/ r = Outcome("ok") /\ entry.capability = "tabular"
  BY DEF ResultsOf, Errors
<1>6. QED
  BY <1>2, <1>3, <1>4, <1>5 DEF Attempted

LEMMA InvokeTurn ==
    ASSUME TurnInv, BudgetInv, FoundInv, HonestInv, NEW i \in DOMAIN results, Invoke(i)
    PROVE  TurnInv' /\ BudgetInv' /\ FoundInv' /\ HonestInv'
<1>1. PICK r \in ResultsOf(plan[i]) : results' = [results EXCEPT ![i] = r]
  BY DEF Invoke
<1>2. /\ r \in Results /\ r.outcome \in Attempted
      /\ r.found # {} => /\ plan[i].capability \in Searching
                         /\ plan[i].scope = Everything \/ r.found \subseteq plan[i].scope
      /\ r.outcome = "ok" /\ r.found = {} => plan[i].capability = "tabular"
      /\ r.error = "worded" => r.outcome = "failed"
  BY ResultIs DEF TurnInv
<1>3. stage = "retrieval" /\ results[i].outcome = "waiting"
      /\ UNCHANGED <<docs, indexed, conv, saved, stage, state, clock, recovery, answer>>
  BY DEF Invoke
<1>4. results \in Seq(Results) /\ DOMAIN results = DOMAIN plan
      /\ recovery = Outcome("none") /\ answer = Unanswered
  BY <1>3 DEF TurnInv, AnsweredOK, AskedOK, Planning
<1>5. results' \in Seq(Results) /\ DOMAIN results' = DOMAIN results
  BY <1>1, <1>2, <1>4
<1>6. TurnInv'
  <2>1. DocsOK' /\ ConvsOK' /\ PlanOK'
    BY <1>3 DEF state, TurnInv, DocsOK, ConvsOK, PlanOK
  <2>2. AskedOK' /\ AnsweredOK'
    BY <1>3, <1>4, <1>5 DEF state, TurnInv, AskedOK, AnsweredOK, Planning
  <2>3. QED
    BY <1>3, <2>1, <2>2 DEF TurnInv
<1>7. BudgetInv'
  <2>1. \A k \in DOMAIN results : results'[k] = IF k = i THEN r ELSE results[k]
    BY <1>1, <1>4
  <2>2. Due(results') = Due(results)
    BY <1>2, <1>3, <1>5, <2>1 DEF Due
  <2>3. Cardinality(Due(results')) <= MaxInvocations
    BY <2>2 DEF BudgetInv
  <2>4. {recovery.outcome} \cap Attempted = {}
    BY <1>4 DEF Outcome, Attempted
  <2>5. Cardinality({recovery.outcome} \cap Attempted) = 0
    BY <2>4, FS_EmptySet
  <2>6. /\ Cardinality(Due(results')) \in Nat /\ Invocations(results') \in Nat
        /\ Invocations(results') <= Cardinality(Due(results'))
    BY <1>5, AttemptedAreDue
  <2>7. QED
    BY <1>3, <2>3, <2>5, <2>6, Limits DEF BudgetInv, WithinBudget
<1>8. FoundInv'
  BY <1>1, <1>2, <1>3, <1>4, <1>5 DEF FoundInv, Confined, state, Outcome
<1>9. HonestInv'
  BY <1>3, <1>4 DEF HonestInv, NegativeIsHonest, KeptToSubject, Unanswered
<1>10. QED
  BY <1>6, <1>7, <1>8, <1>9

\* The recovery searches where the searches it recovers were confined to.
LEMMA RecoveryConfined ==
    ASSUME NEW ds, Confined(ds), RecoveryWarranted
    PROVE  RecoveryScope = ds
<1> DEFINE entries == IF PartialTargets # {} THEN PartialTargets ELSE Structured
           scopes == {plan[i].scope : i \in entries}
<1>1. entries # {} /\ entries \subseteq Structured
  BY DEF RecoveryWarranted, PartialTargets, With
<1>2. \A i \in entries : plan[i].scope = ds
  BY <1>1 DEF Confined, Structured, Searching
<1> HIDE DEF entries
<1>3. scopes = {ds}
  BY <1>1, <1>2
<1>4. SharedScope(entries) = ds
  <2>1. SharedScope(entries) = IF Cardinality(scopes) = 1 THEN CHOOSE s \in scopes : TRUE ELSE Everything
    BY DEF SharedScope
  <2>2. Cardinality({ds}) = 1
    BY FS_Singleton
  <2>3. QED
    BY <1>3, <2>1, <2>2
<1>5. QED
  BY <1>4 DEF RecoveryScope, entries

LEMMA GatherTurn ==
    ASSUME TurnInv, BudgetInv, FoundInv, HonestInv, Gather
    PROVE  TurnInv' /\ BudgetInv' /\ FoundInv' /\ HonestInv'
<1>1. stage = "retrieval" /\ stage' = "generation"
      /\ UNCHANGED <<docs, indexed, conv, saved, state, clock, results, answer>> /\ Recover
  BY DEF Gather
<1>2. results \in Seq(Results) /\ DOMAIN results = DOMAIN plan
      /\ recovery = Outcome("none") /\ answer = Unanswered
  BY <1>1 DEF TurnInv, AnsweredOK, AskedOK, Planning
<1> DEFINE Recovers == /\ RecoveryWarranted /\ ~RecoverySkipped
                       /\ recovery' \in ResultsOf(Entry("semantic", {}, RecoveryScope))
<1>3. recovery' \in {Outcome("none"), Outcome("skipped")} \/ Recovers
  BY <1>1, <1>2 DEF Recover
<1>4. Recovers => /\ recovery' \in Results /\ recovery'.outcome \in Attempted
                  /\ RecoveryScope = Everything \/ recovery'.found \subseteq RecoveryScope
                  /\ recovery'.outcome = "ok" => recovery'.found # {}
                  /\ recovery'.error = "worded" => recovery'.outcome = "failed"
  <2>1. SUFFICES ASSUME Recovers
                 PROVE  /\ recovery' \in Results /\ recovery'.outcome \in Attempted
                        /\ RecoveryScope = Everything \/ recovery'.found \subseteq RecoveryScope
                        /\ recovery'.outcome = "ok" => recovery'.found # {}
                        /\ recovery'.error = "worded" => recovery'.outcome = "failed"
    OBVIOUS
  <2> DEFINE entry == Entry("semantic", {}, RecoveryScope)
  <2>2. entry.capability = "semantic" /\ entry.scope = RecoveryScope
    BY DEF Entry
  <2>3. DocsOK /\ recovery' \in ResultsOf(entry)
    BY <2>1 DEF TurnInv
  <2> HIDE DEF entry, Recovers
  <2>4. QED
    BY <2>2, <2>3, ResultIs
<1>5. TurnInv'
  <2>1. recovery' \in Recoveries
    BY <1>3, <1>4 DEF Outcome, Recoveries, Results, Errors
  <2>2. DocsOK' /\ ConvsOK' /\ PlanOK'
    BY <1>1 DEF state, TurnInv, DocsOK, ConvsOK, PlanOK
  <2>3. AskedOK' /\ AnsweredOK'
    BY <1>1, <1>2, <2>1 DEF state, TurnInv, AskedOK, AnsweredOK, Planning
  <2>4. QED
    BY <1>1, <2>2, <2>3 DEF TurnInv
<1>6. BudgetInv'
  <2>1. /\ Cardinality(Due(results)) \in Nat /\ Invocations(results) \in Nat
        /\ Invocations(results) <= Cardinality(Due(results))
        /\ Cardinality(Due(results)) <= MaxInvocations
    BY <1>2, AttemptedAreDue DEF BudgetInv
  <2>2. \/ Cardinality({recovery'.outcome} \cap Attempted) = 0
        \/ /\ Cardinality({recovery'.outcome} \cap Attempted) = 1
           /\ ~ (Invocations(results) >= MaxInvocations)
    <3>1. CASE recovery' \in {Outcome("none"), Outcome("skipped")}
      <4>1. {recovery'.outcome} \cap Attempted = {}
        BY <3>1 DEF Outcome, Attempted
      <4>2. QED
        BY <4>1, FS_EmptySet
    <3>2. CASE Recovers
      <4>1. {recovery'.outcome} \cap Attempted = {recovery'.outcome}
        BY <1>4, <3>2
      <4>2. QED
        BY <3>2, <4>1, FS_Singleton DEF RecoverySkipped
    <3>3. QED
      BY <1>3, <3>1, <3>2
  <2>3. QED
    BY <1>1, <2>1, <2>2, Limits DEF BudgetInv, WithinBudget
<1>7. FoundInv'
  <2>1. UNCHANGED <<plan, results>>
    BY <1>1 DEF state
  <2>2. /\ recovery'.outcome = "ok" => recovery'.found # {}
        /\ recovery'.error = "worded" => recovery'.outcome = "failed"
    BY <1>3, <1>4 DEF Outcome
  <2>3. ASSUME NEW ds \in (SUBSET Docs) \ {{}}, Confined(ds)
        PROVE  recovery'.found \subseteq ds
    <3>1. CASE recovery' \in {Outcome("none"), Outcome("skipped")}
      BY <3>1 DEF Outcome
    <3>2. CASE Recovers
      <4>1. RecoveryScope = ds /\ ds # Everything
        BY <2>3, <3>2, RecoveryConfined DEF Everything
      <4>2. QED
        BY <1>4, <3>2, <4>1
    <3>3. QED
      BY <1>3, <3>1, <3>2
  <2>4. QED
    BY <2>1, <2>2, <2>3 DEF FoundInv, Confined
<1>8. HonestInv'
  BY <1>1, <1>2 DEF HonestInv, NegativeIsHonest, KeptToSubject, Unanswered
<1>9. QED
  BY <1>5, <1>6, <1>7, <1>8

LEMMA GenerateTurn ==
    ASSUME TurnInv, BudgetInv, FoundInv, HonestInv, Generate
    PROVE  TurnInv' /\ BudgetInv' /\ FoundInv' /\ HonestInv'
<1>1. PICK cited \in SUBSET (Rows \cup Chunks), table \in BOOLEAN :
         /\ Admissible(cited, table)
         /\ answer' = [reply |-> Enforced(cited # {} \/ table), cited |-> cited]
  BY DEF Generate
<1>2. stage = "generation" /\ stage' = "persist"
      /\ UNCHANGED <<docs, indexed, conv, saved, state, clock, results, recovery>>
  BY DEF Generate
<1>3. results \in Seq(Results) /\ recovery \in Recoveries /\ DOMAIN results = DOMAIN plan
  BY <1>2 DEF TurnInv, AnsweredOK, Planning
<1>4. \A c : FoundBy(c) \subseteq Docs
  <2>1. \A i \in DOMAIN plan : results[i] \in Results
    BY <1>3
  <2>2. QED
    BY <2>1 DEF FoundBy, Results
<1>5. TurnInv'
  <2>1. cited \subseteq Docs
    BY <1>3, <1>4 DEF Rows, Chunks, Recoveries
  <2>2. answer' \in Answers
    BY <1>1, <2>1 DEF Answers, Enforced
  <2>3. DocsOK' /\ ConvsOK' /\ PlanOK'
    BY <1>2 DEF state, TurnInv, DocsOK, ConvsOK, PlanOK
  <2>4. AskedOK' /\ AnsweredOK'
    BY <1>2, <1>3, <2>2 DEF state, TurnInv, AskedOK, AnsweredOK, Planning
  <2>5. QED
    BY <1>2, <2>3, <2>4 DEF TurnInv
<1>6. BudgetInv' /\ FoundInv'
  BY <1>2 DEF state, BudgetInv, WithinBudget, Invocations, Due, FoundInv, Confined
<1>7. NegativeIsHonest'
  <2>1. SUFFICES ASSUME answer'.reply = "nothing_found"
                 PROVE  /\ \A i \in DOMAIN results :
                              /\ results[i].error # "worded"
                              /\ results[i].outcome = "ok" =>
                                    \/ plan[i].capability = "tabular"
                                    \/ /\ plan[i].capability = "structured"
                                       /\ resolved # {} /\ ~unscoped
                                       /\ results[i].found \cap resolved = {}
                        /\ recovery.error # "worded" /\ recovery.outcome \in {"none", "empty"}
    BY <1>2 DEF state, NegativeIsHonest
  <2>2. Enforced(cited # {} \/ table) = "nothing_found"
    BY <1>1, <2>1
  <2>3. cited = {} /\ TurnStatuses \cap {"failed", "skipped"} = {}
    BY <2>2 DEF Enforced
  <2>4. Rows = {} /\ Chunks = {}
    BY <1>1, <2>3 DEF Admissible
  <2>5. FoundBy("semantic") = {} /\ recovery.found = {}
    BY <2>4 DEF Chunks
  <2>6. /\ \A i \in DOMAIN results : results[i].outcome # "failed" /\ results[i].error # "worded"
        /\ recovery.outcome # "failed" /\ recovery.error # "worded"
    BY <2>3 DEF TurnStatuses, FoundInv
  <2>7. \A i \in DOMAIN results : results[i].found \subseteq FoundBy(plan[i].capability)
    BY <1>3 DEF FoundBy
  <2>8. ASSUME NEW i \in DOMAIN results, results[i].outcome = "ok", plan[i].capability # "tabular"
        PROVE  /\ plan[i].capability = "structured"
               /\ resolved # {} /\ ~unscoped
               /\ results[i].found \cap resolved = {}
    <3>1. results[i].found # {} /\ plan[i].capability \in Searching
      BY <2>8 DEF FoundInv
    <3>2. plan[i].capability = "structured" /\ results[i].found \subseteq FoundBy("structured")
      BY <2>5, <2>7, <3>1 DEF Searching
    <3>3. QED
      BY <2>4, <3>1, <3>2 DEF Rows
  <2>9. recovery.outcome \in {"none", "empty"}
    BY <1>3, <2>3, <2>5 DEF Recoveries, Attempted, TurnStatuses, FoundInv
  <2>10. QED
    BY <2>6, <2>8, <2>9
<1>8. KeptToSubject'
  <2>1. SUFFICES ASSUME NEW ds \in (SUBSET resolved) \ {{}}, Confined(ds)
                 PROVE  cited \subseteq resolved
    BY <1>1, <1>2 DEF state, KeptToSubject, Confined
  <2>2. ds \in (SUBSET Docs) \ {{}}
    BY DEF TurnInv, PlanOK
  <2>3. \A i \in DOMAIN plan : results[i].found \subseteq ds
    BY <1>3, <2>1, <2>2 DEF FoundInv, Confined, Everything
  <2>4. \A c : FoundBy(c) \subseteq ds
    BY <2>3 DEF FoundBy
  <2>5. recovery.found \subseteq ds
    BY <2>1, <2>2 DEF FoundInv
  <2>6. Rows \subseteq ds /\ Chunks \subseteq ds
    BY <2>4, <2>5 DEF Rows, Chunks
  <2>7. QED
    BY <2>1, <2>6
<1>9. QED
  BY <1>5, <1>6, <1>7, <1>8 DEF HonestInv

LEMMA StepTurn ==
    ASSUME TurnInv, BudgetInv, FoundInv, HonestInv, [TurnNext]_turnVars
    PROVE  TurnInv' /\ BudgetInv' /\ FoundInv' /\ HonestInv'
<1>1. ASSUME NEW q \in Questions, NEW p \in Plans(q), Ask(q, p)
      PROVE  TurnInv' /\ stage' \in Planning
  BY <1>1, AskTurn
<1>2. CASE Resolve
  BY <1>2, ResolveTurn, Nothing DEF TurnInv
<1>3. CASE RepairScopes
  BY <1>3, RepairTurn, Nothing DEF TurnInv
<1>4. CASE Tick
  BY <1>4, TickTurn, TurnFrame
<1>5. CASE Persist \/ Fail
  <2>1. DocsOK' /\ ConvsOK' /\ EndTurn
    BY <1>5 DEF Persist, Fail, TurnInv, DocsOK, ConvsOK
  <2>2. QED
    BY <2>1, Ended, Nothing DEF TurnInv
<1>6. ASSUME NEW d \in docs, Delete(d)
      PROVE  TurnInv' /\ BudgetInv' /\ FoundInv' /\ HonestInv'
  BY <1>6, DeleteTurn, TurnFrame
<1>7. CASE UNCHANGED turnVars
  <2>1. TurnInv'
    BY <1>7 DEF turnVars, turn, state, TurnInv, DocsOK, ConvsOK, PlanOK, AskedOK, AnsweredOK
  <2>2. QED
    BY <1>7, <2>1, TurnFrame DEF turnVars, turn, state
<1>8. QED
  BY <1>1, <1>2, <1>3, <1>4, <1>5, <1>6, <1>7, Nothing, DispatchTurn, InvokeTurn, GatherTurn,
     GenerateTurn DEF TurnNext, TurnInv

LEMMA Turns == TurnSpec => [](TurnInv /\ BudgetInv /\ FoundInv /\ HonestInv)
BY InitTurn, StepTurn, PTL DEF TurnSpec

\* A conversation's state and a turn's have the types of their columns and fields, and
\* a plan has one result per entry once it is dispatched (ConversationState, execute_plan).
THEOREM TurnTypeCorrect == TurnSpec => []TurnTypeOK
<1>1. TurnInv => TurnTypeOK
  BY DEF TurnInv, TurnTypeOK, DocsOK, ConvsOK, ConvOK, PlanOK, AskedOK, AnsweredOK, Conversation,
         Pendings, Results, Recoveries, Answers
<1>2. QED
  BY <1>1, Turns, PTL

\* A turn makes no more retrieval calls than orchestrator_max_invocations, whatever the
\* plan, the order the calls end in, the deadline and the recovery (execute_plan).
THEOREM BudgetKept == TurnSpec => []WithinBudget
<1>1. BudgetInv => WithinBudget
  BY DEF BudgetInv
<1>2. QED
  BY <1>1, Turns, PTL

\* That nothing was found is said only when no call failed with a message, no recovery was
\* passed over, and what was found were rows of files or, once the question is resolved to
\* somebody, rows about somebody else (enforce_sources).
THEOREM NegativesAreHonest == TurnSpec => []NegativeIsHonest
<1>1. HonestInv => NegativeIsHonest
  BY DEF HonestInv
<1>2. QED
  BY <1>1, Turns, PTL

\* A question that was resolved and whose searches are confined to the same documents is
\* answered from resolved documents alone, through clarifications, inherited bindings,
\* repaired scopes, the recovery and deletions (_rewrite_plan_for_resolution).
THEOREM SubjectKept == TurnSpec => []KeptToSubject
<1>1. HonestInv => KeptToSubject
  BY DEF HonestInv
<1>2. QED
  BY <1>1, Turns, PTL

=============================================================================
