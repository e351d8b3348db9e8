----------------------- MODULE ConnectionCatalogProofs -----------------------
(***************************************************************************)
(* Proofs about ConnectionCatalog, for every set of requests, connections  *)
(* and integrations, both stores and every limit.                          *)
(***************************************************************************)
EXTENDS ConnectionCatalog, SumProofs

(* The parts of CatalogTypeOK that the request's own steps change ...             *)
RequestOK ==
    /\ pc \in [Task -> OnConn \cup OnConns \cup OnRow \cup {"idle"}]
    /\ conn \in [Task -> Conn]
    /\ slug \in [Task -> Slug]
    /\ row \in [Task -> Record \cup {NoRow}]
    /\ \A t \in Task : pc[t] \in OnRow => row[t] # NoRow
    /\ listing \in [Task -> SUBSET Name]

(* ... and those that hold the three tables.                               *)
TablesOK ==
    /\ backend \in {"memory", "sqlite"}
    /\ integrations \in [Slug -> Record \cup {NoRow}]
    /\ connections \subseteq Conn
    /\ tools \in [Conn -> SUBSET Name]
    /\ spawned \subseteq Conn

HistoryOK ==
    /\ overlapped \in [Task -> BOOLEAN]
    /\ disturbed \subseteq Conn

(* CatalogTypeOK is the conjunction of the three.                                 *)
LEMMA Parts ==
  /\ CatalogTypeOK <=> RequestOK /\ TablesOK /\ HistoryOK
  /\ CatalogTypeOK' <=> RequestOK' /\ TablesOK' /\ HistoryOK'
  BY DEF CatalogTypeOK, RequestOK, TablesOK, HistoryOK

(* The values that stand for no request.                                   *)
LEMMA NoRequest == AConn \in Conn /\ ASlug \in Slug
  BY CatalogAssumption DEF AConn, ASlug

-----------------------------------------------------------------------------
(* The ways a step moves its request *)

(* A request that arrives or moves on in its handler stays well typed.     *)
LEMMA GotoOK ==
  ASSUME RequestOK, HistoryOK, NEW t \in Task, NEW point \in OnConn \cup OnConns \cup OnRow,
         point \in OnRow => row[t] # NoRow, Goto(t, point)
  PROVE  RequestOK' /\ HistoryOK'
  <1>1. RequestOK'
    BY DEF Goto, RequestOK
  <1>2. HistoryOK'
    BY DEF Goto, HistoryOK, history
  <1>3. QED
    BY <1>1, <1>2

(* The overlap of two requests is recorded as a set of connections.        *)
LEMMA OverlapOK ==
  ASSUME RequestOK, HistoryOK, NEW t \in Task, NEW cs \in SUBSET Conn, Overlap(t, cs)
  PROVE  HistoryOK'
  <1> DEFINE others == {u \in Task \ {t} : Touches(u) \cap cs # {}}
  <1>1. overlapped' \in [Task -> BOOLEAN]
    BY DEF Overlap, HistoryOK
  <1>2. UNION {Touches(u) \cap cs : u \in others} \subseteq Conn
    OBVIOUS
  <1>3. disturbed' \subseteq Conn
    BY <1>2 DEF Overlap, HistoryOK
  <1>4. QED
    BY <1>1, <1>3 DEF HistoryOK

(* A request on a connection begins.                                       *)
LEMMA BeginOK ==
  ASSUME RequestOK, HistoryOK, NEW t \in Task, NEW c \in Conn, NEW point \in OnConn,
         Begin(t, point, c)
  PROVE  RequestOK' /\ HistoryOK'
  <1>1. RequestOK'
    BY DEF Begin, RequestOK, OnConn, OnRow
  <1>2. HistoryOK'
    BY OverlapOK DEF Begin
  <1>3. QED
    BY <1>1, <1>2

(* A request is over.                                                      *)
LEMMA IdleOK ==
  ASSUME RequestOK, HistoryOK, NEW t \in Task, Idle(t)
  PROVE  RequestOK' /\ overlapped' \in [Task -> BOOLEAN]
  <1>1. RequestOK'
    BY NoRequest DEF Idle, RequestOK, OnRow
  <1>2. QED
    BY <1>1 DEF Idle, HistoryOK

(* It is over without having stored anything.                              *)
LEMMA ReturnOK ==
  ASSUME RequestOK, HistoryOK, NEW t \in Task, Return(t)
  PROVE  RequestOK' /\ HistoryOK'
  BY IdleOK DEF Return, HistoryOK

(* It is over and has settled what it touches.                             *)
LEMMA SettledOK ==
  ASSUME RequestOK, HistoryOK, NEW t \in Task, Settled(t)
  PROVE  RequestOK' /\ HistoryOK'
  BY IdleOK DEF Settled, HistoryOK

-----------------------------------------------------------------------------
(* Type correctness *)

(* A step that leaves the tables alone but may take a spawned refresh.     *)
LEMMA TablesKept ==
  ASSUME TablesOK, UNCHANGED tables, spawned' \subseteq Conn
  PROVE  TablesOK'
  BY DEF TablesOK, tables

(* Every step of refresh_connection keeps CatalogTypeOK.                          *)
LEMMA RefreshType ==
  ASSUME CatalogTypeOK, NEW t \in Task, Refresh(t)
  PROVE  CatalogTypeOK'
  <1>0. RequestOK /\ TablesOK /\ HistoryOK
    BY Parts
  <1>1. ASSUME NEW c \in Conn, RefreshConnection(t, c) PROVE CatalogTypeOK'
    BY <1>0, <1>1, BeginOK, TablesKept, Parts DEF RefreshConnection, OnConn, TablesOK
  <1>2. ASSUME NEW c \in Conn, RunSpawned(t, c) PROVE CatalogTypeOK'
    BY <1>0, <1>2, BeginOK, TablesKept, Parts DEF RunSpawned, OnConn, TablesOK
  <1>3. ASSUME ReadConnection(t) PROVE CatalogTypeOK'
    BY <1>0, <1>3, GotoOK, ReturnOK, TablesKept, Parts
    DEF ReadConnection, OnConn, OnRow, TablesOK
  <1>4. ASSUME ReadRecord(t) PROVE CatalogTypeOK'
    BY <1>0, <1>4, GotoOK, ReturnOK, TablesKept, Parts
    DEF ReadRecord, OnConn, OnRow, TablesOK
  <1>5. ASSUME CountTools(t) PROVE CatalogTypeOK'
    BY <1>0, <1>5, GotoOK, ReturnOK, TablesKept, Parts
    DEF CountTools, OnConn, OnRow, TablesOK
  <1>6. ASSUME ToolsListed(t) PROVE CatalogTypeOK'
    <2>1. RequestOK'
      BY <1>0, <1>6 DEF ToolsListed, RequestOK, OnConn, OnRow
    <2>2. TablesOK' /\ HistoryOK'
      BY <1>0, <1>6, TablesKept DEF ToolsListed, HistoryOK, history, TablesOK
    <2>3. QED
      BY <2>1, <2>2, Parts
  <1>7. ASSUME NotListed(t) PROVE CatalogTypeOK'
    BY <1>0, <1>7, ReturnOK, TablesKept, Parts DEF NotListed, TablesOK
  <1>8. ASSUME ReplaceTools(t) PROVE CatalogTypeOK'
    <2>1. TablesOK'
      BY <1>0, <1>8 DEF ReplaceTools, TablesOK, RequestOK
    <2>2. QED
      BY <1>0, <1>8, <2>1, SettledOK, Parts DEF ReplaceTools
  <1>9. ASSUME ReplaceDelete(t) PROVE CatalogTypeOK'
    <2>1. TablesOK'
      BY <1>0, <1>9 DEF ReplaceDelete, TablesOK, RequestOK
    <2>2. QED
      BY <1>0, <1>9, <2>1, GotoOK, Parts DEF ReplaceDelete, OnConn, OnRow
  <1>10. ASSUME ReplaceInsert(t) PROVE CatalogTypeOK'
    <2>1. PICK n \in listing[t] :
            IF n \in tools[conn[t]]
              THEN Return(t) /\ UNCHANGED tools
              ELSE /\ tools' = [tools EXCEPT ![conn[t]] = @ \cup {n}]
                   /\ listing' = [listing EXCEPT ![t] = @ \ {n}]
                   /\ UNCHANGED <<pc, conn, slug, row, history>>
      BY <1>10 DEF ReplaceInsert
    <2>2. UNCHANGED <<backend, integrations, connections, spawned>>
      BY <1>10 DEF ReplaceInsert
    <2>3. CASE n \in tools[conn[t]]
      BY <1>0, <2>1, <2>2, <2>3, ReturnOK, Parts DEF TablesOK
    <2>4. CASE n \notin tools[conn[t]]
      <3>1. TablesOK'
        BY <1>0, <2>1, <2>2, <2>4 DEF TablesOK, RequestOK
      <3>2. RequestOK' /\ HistoryOK'
        BY <1>0, <2>1, <2>4 DEF RequestOK, HistoryOK, history
      <3>3. QED
        BY <3>1, <3>2, Parts
    <2>5. QED
      BY <2>3, <2>4
  <1>11. ASSUME ReplaceDone(t) PROVE CatalogTypeOK'
    BY <1>0, <1>11, SettledOK, TablesKept, Parts DEF ReplaceDone, TablesOK
  <1>12. QED
    BY <1>1, <1>2, <1>3, <1>4, <1>5, <1>6, <1>7, <1>8, <1>9, <1>10, <1>11 DEF Refresh

(* Every step that edits a connection keeps CatalogTypeOK.                        *)
LEMMA EditType ==
  ASSUME CatalogTypeOK, NEW t \in Task, Edit(t)
  PROVE  CatalogTypeOK'
  <1>0. RequestOK /\ TablesOK /\ HistoryOK
    BY Parts
  <1>1. ASSUME NEW c \in Conn, CreateOverHttp(t, c) PROVE CatalogTypeOK'
    BY <1>0, <1>1, BeginOK, TablesKept, Parts DEF CreateOverHttp, OnConn, TablesOK
  <1>2. ASSUME NEW c \in Conn, CreateByTool(t, c) PROVE CatalogTypeOK'
    BY <1>0, <1>2, BeginOK, TablesKept, Parts DEF CreateByTool, OnConn, TablesOK
  <1>3. ASSUME NEW c \in Conn, PatchConnection(t, c) PROVE CatalogTypeOK'
    BY <1>0, <1>3, BeginOK, TablesKept, Parts DEF PatchConnection, OnConn, TablesOK
  <1>4. ASSUME NEW c \in Conn, RemoveConnectionMemory(t, c) PROVE CatalogTypeOK'
    <2>1. TablesOK' /\ RequestOK'
      BY <1>0, <1>4 DEF RemoveConnectionMemory, TablesOK, RequestOK, request
    <2>2. HistoryOK'
      BY <1>0, <1>4 DEF RemoveConnectionMemory, HistoryOK
    <2>3. QED
      BY <2>1, <2>2, Parts
  <1>5. ASSUME NEW c \in Conn, DeleteConnection(t, c) PROVE CatalogTypeOK'
    <2>1. TablesOK'
      BY <1>0, <1>5 DEF DeleteConnection, TablesOK
    <2>2. QED
      BY <1>0, <1>5, <2>1, BeginOK, Parts DEF DeleteConnection, OnConn
  <1>6. ASSUME EnsureProviderPut(t) PROVE CatalogTypeOK'
    <2>1. TablesOK'
      BY <1>0, <1>6, CatalogAssumption DEF EnsureProviderPut, TablesOK
    <2>2. QED
      BY <1>0, <1>6, <2>1, GotoOK, Parts DEF EnsureProviderPut, OnConn, OnRow
  <1>7. ASSUME CreateConnection(t) PROVE CatalogTypeOK'
    BY <1>0, <1>7, GotoOK, ReturnOK, TablesKept, Parts
    DEF CreateConnection, OnConn, OnRow, TablesOK
  <1>8. ASSUME CreateCheck(t) PROVE CatalogTypeOK'
    BY <1>0, <1>8, GotoOK, ReturnOK, TablesKept, Parts
    DEF CreateCheck, OnConn, OnRow, TablesOK
  <1>9. ASSUME CreatePut(t) PROVE CatalogTypeOK'
    <2>1. TablesOK'
      BY <1>0, <1>9 DEF CreatePut, TablesOK, RequestOK
    <2>2. QED
      BY <1>0, <1>9, <2>1, GotoOK, Parts DEF CreatePut, OnConn, OnRow
  <1>10. ASSUME PatchPut(t) PROVE CatalogTypeOK'
    <2>1. TablesOK'
      BY <1>0, <1>10 DEF PatchPut, TablesOK, RequestOK
    <2>2. QED
      BY <1>0, <1>10, <2>1, ReturnOK, Parts DEF PatchPut
  <1>11. ASSUME DeleteItsTools(t) PROVE CatalogTypeOK'
    <2>1. TablesOK'
      BY <1>0, <1>11 DEF DeleteItsTools, TablesOK
    <2>2. QED
      BY <1>0, <1>11, <2>1, SettledOK, Parts DEF DeleteItsTools
  <1>12. QED
    BY <1>1, <1>2, <1>3, <1>4, <1>5, <1>6, <1>7, <1>8, <1>9, <1>10, <1>11 DEF Edit

(* Every step that edits an integration keeps CatalogTypeOK.                      *)
LEMMA ConfigureType ==
  ASSUME CatalogTypeOK, NEW t \in Task, Configure(t)
  PROVE  CatalogTypeOK'
  <1>0. RequestOK /\ TablesOK /\ HistoryOK
    BY Parts
  <1>1. ASSUME NEW s \in Slug, NEW r \in Record, Register(t, s, r) PROVE CatalogTypeOK'
    <2>1. RequestOK' /\ HistoryOK'
      BY <1>0, <1>1, CatalogAssumption
      DEF Register, RequestOK, HistoryOK, history, OnRow
    <2>2. TablesOK'
      BY <1>0, <1>1, TablesKept DEF Register, TablesOK
    <2>3. QED
      BY <2>1, <2>2, Parts
  <1>2. ASSUME NEW s \in Slug, PatchConfig(t, s) PROVE CatalogTypeOK'
    <2>1. RequestOK' /\ HistoryOK'
      BY <1>0, <1>2 DEF PatchConfig, RequestOK, TablesOK, HistoryOK, history, OnRow
    <2>2. TablesOK'
      BY <1>0, <1>2, TablesKept DEF PatchConfig, TablesOK
    <2>3. QED
      BY <2>1, <2>2, Parts
  <1>3. ASSUME NEW s \in Slug, RemoveIntegration(t, s) PROVE CatalogTypeOK'
    <2>1. RequestOK'
      BY <1>0, <1>3 DEF RemoveIntegration, RequestOK, OnConns, OnRow
    <2>2. HistoryOK'
      BY <1>0, <1>3, OverlapOK DEF RemoveIntegration, On
    <2>3. TablesOK'
      BY <1>0, <1>3, TablesKept DEF RemoveIntegration, TablesOK
    <2>4. QED
      BY <2>1, <2>2, <2>3, Parts
  <1>4. ASSUME RegisterPut(t) PROVE CatalogTypeOK'
    <2>1. TablesOK'
      BY <1>0, <1>4 DEF RegisterPut, TablesOK, RequestOK
    <2>2. QED
      BY <1>0, <1>4, <2>1, ReturnOK, Parts DEF RegisterPut
  <1>5. ASSUME PatchConfigPut(t) PROVE CatalogTypeOK'
    <2>1. TablesOK'
      BY <1>0, <1>5 DEF PatchConfigPut, TablesOK, RequestOK
    <2>2. row[t] # NoRow
      BY <1>0, <1>5 DEF PatchConfigPut, RequestOK, OnRow
    <2>3. QED
      BY <1>0, <1>5, <2>1, <2>2, GotoOK, ReturnOK, Parts DEF PatchConfigPut, OnRow
  <1>6. ASSUME PatchConfigRefresh(t) PROVE CatalogTypeOK'
    <2>1. TablesOK'
      BY <1>0, <1>6, TablesKept DEF PatchConfigRefresh, TablesOK
    <2>2. QED
      BY <1>0, <1>6, <2>1, ReturnOK, Parts DEF PatchConfigRefresh
  <1>7. ASSUME RemoveIntegrationMemory(t) PROVE CatalogTypeOK'
    <2>1. TablesOK'
      BY <1>0, <1>7 DEF RemoveIntegrationMemory, TablesOK, RequestOK
    <2>2. QED
      BY <1>0, <1>7, <2>1, SettledOK, Parts DEF RemoveIntegrationMemory
  <1>8. ASSUME DeleteIntegration(t) PROVE CatalogTypeOK'
    <2>1. TablesOK'
      BY <1>0, <1>8 DEF DeleteIntegration, TablesOK, RequestOK
    <2>2. QED
      BY <1>0, <1>8, <2>1, GotoOK, Parts DEF DeleteIntegration, OnConns, OnRow, OnConn
  <1>9. ASSUME DeleteConnections(t) PROVE CatalogTypeOK'
    <2>1. TablesOK'
      BY <1>0, <1>9 DEF DeleteConnections, TablesOK
    <2>2. QED
      BY <1>0, <1>9, <2>1, GotoOK, Parts DEF DeleteConnections, OnConns, OnRow, OnConn
  <1>10. ASSUME DeleteTools(t) PROVE CatalogTypeOK'
    <2>1. TablesOK'
      BY <1>0, <1>10 DEF DeleteTools, TablesOK
    <2>2. QED
      BY <1>0, <1>10, <2>1, SettledOK, Parts DEF DeleteTools
  <1>11. QED
    BY <1>1, <1>2, <1>3, <1>4, <1>5, <1>6, <1>7, <1>8, <1>9, <1>10 DEF Configure

(* Requests that share a connection, or that the process does not outlive, *)
(* are about connections.                                                  *)
LEMMA TouchedType ==
  ASSUME RequestOK
  PROVE  UNION {Touches(t) : t \in Task} \subseteq Conn
  <1> SUFFICES ASSUME NEW t \in Task PROVE Touches(t) \subseteq Conn
    OBVIOUS
  <1>1. CASE pc[t] \in OnConn
    <2>1. Touches(t) = {conn[t]}
      BY <1>1, Zenon DEF Touches, OnConn, OnConns
    <2>2. QED
      BY <2>1 DEF RequestOK
  <1>2. CASE pc[t] \notin OnConn /\ pc[t] \in OnConns
    <2>1. Touches(t) = On(slug[t])
      BY <1>2, Zenon DEF Touches
    <2>2. QED
      BY <2>1 DEF On
  <1>3. CASE pc[t] \notin OnConn /\ pc[t] \notin OnConns
    <2>1. Touches(t) = {}
      BY <1>3, Zenon DEF Touches
    <2>2. QED
      BY <2>1
  <1>4. QED
    BY <1>1, <1>2, <1>3

(* The end of the process keeps CatalogTypeOK.                                    *)
LEMMA CrashType ==
  ASSUME CatalogTypeOK, Crash
  PROVE  CatalogTypeOK'
  <1>0. RequestOK /\ TablesOK /\ HistoryOK
    BY Parts
  <1>1. RequestOK'
    BY NoRequest DEF Crash, RequestOK, OnRow
  <1>2. TablesOK'
    BY <1>0 DEF Crash, TablesOK, tables, NoTools
  <1>3. HistoryOK'
    BY <1>0, TouchedType DEF Crash, HistoryOK
  <1>4. QED
    BY <1>1, <1>2, <1>3, Parts

(* Every step of the catalog keeps CatalogTypeOK.                                 *)
LEMMA NextType == CatalogTypeOK /\ [CatalogNext]_catalogVars => CatalogTypeOK'
  <1> SUFFICES ASSUME CatalogTypeOK, [CatalogNext]_catalogVars PROVE CatalogTypeOK'
    OBVIOUS
  <1>1. CASE \E t \in Task : Refresh(t) \/ Edit(t) \/ Configure(t)
    BY <1>1, RefreshType, EditType, ConfigureType
  <1>2. ASSUME NEW s \in Slug, NEW r \in Record, RegisterIntegration(s, r)
        PROVE  CatalogTypeOK'
    BY <1>2 DEF RegisterIntegration, CatalogTypeOK, request, history
  <1>3. CASE Crash
    BY <1>3, CrashType
  <1>4. CASE UNCHANGED catalogVars
    BY <1>4 DEF catalogVars, request, history, CatalogTypeOK
  <1>5. QED
    BY <1>1, <1>2, <1>3, <1>4 DEF CatalogNext

(* Type correctness of the three tables and of every request's locals.     *)
THEOREM CatalogTypeCorrect == CatalogSpec => []CatalogTypeOK
  <1>1. CatalogInit => CatalogTypeOK
    BY NoRequest DEF CatalogInit, CatalogTypeOK, NoTools, OnRow
  <1>2. QED
    BY <1>1, NextType, PTL DEF CatalogSpec

-----------------------------------------------------------------------------
(* The limit on a connection's tools *)

(* A listing on its way to the store has been measured, and only SQLite    *)
(* stores it piecemeal.                                                    *)
ListingOK ==
    \A t \in Task : /\ pc[t] = "replace" => Cardinality(listing[t]) <= MaxToolsPerConnection
                    /\ backend = "memory" => pc[t] # "insert"

LimitInv == ListingOK /\ MemoryKeepsTheLimit

(* A step that neither begins to store a listing nor adds a tool, and asks *)
(* for one only where the catalog has room.                                *)
Quiet(t) ==
    /\ \A u \in Task : u # t => pc'[u] = pc[u] /\ listing'[u] = listing[u]
    /\ pc'[t] \notin {"replace", "insert"}
    /\ pc'[t] = "fetch" => ~(CatalogSize >= MaxCatalogTools) /\ tools' = tools
    /\ listing'[t] \in {listing[t], {}}
    /\ \A c \in Conn : tools'[c] \in {tools[c], {}}
    /\ backend' = backend

(* No tools are within any limit.                                          *)
LEMMA NoneIsWithin == Cardinality({}) <= MaxToolsPerConnection
  BY FS_EmptySet, CatalogAssumption

(* Such a step keeps the limit.                                            *)
LEMMA QuietLimit ==
  ASSUME LimitInv, NEW t \in Task, Quiet(t)
  PROVE  LimitInv'
  <1>1. ListingOK'
    BY DEF Quiet, LimitInv, ListingOK
  <1>2. MemoryKeepsTheLimit'
    BY NoneIsWithin DEF Quiet, LimitInv, MemoryKeepsTheLimit
  <1>3. QED
    BY <1>1, <1>2 DEF LimitInv

(* A step that moves its request to a point of no interest here.           *)
LEMMA MovesQuietly ==
  ASSUME CatalogTypeOK, NEW t \in Task, \A c \in Conn : tools'[c] \in {tools[c], {}},
         backend' = backend,
         \/ \E point \in (OnConn \cup OnConns \cup OnRow) \ {"fetch", "replace", "insert"} :
              Goto(t, point)
         \/ \E point \in OnConn \ {"fetch", "replace", "insert"}, c \in Conn : Begin(t, point, c)
         \/ Return(t)
         \/ Settled(t)
  PROVE  Quiet(t)
  BY DEF CatalogTypeOK, Goto, Begin, Return, Settled, Idle, Quiet

(* Every step of refresh_connection is quiet or has to do with a listing.  *)
LEMMA RefreshQuiet ==
  ASSUME CatalogTypeOK, NEW t \in Task, Refresh(t)
  PROVE  Quiet(t) \/ ToolsListed(t) \/ ReplaceTools(t) \/ ReplaceDelete(t) \/ ReplaceInsert(t)
  <1>1. CASE \/ \E c \in Conn : RefreshConnection(t, c) \/ RunSpawned(t, c)
             \/ ReadConnection(t) \/ ReadRecord(t)
             \/ NotListed(t) \/ ReplaceDone(t)
    <2>1. UNCHANGED tables
      BY <1>1 DEF RefreshConnection, RunSpawned, ReadConnection, ReadRecord,
                  NotListed, ReplaceDone
    <2>2. /\ \A c \in Conn : tools'[c] \in {tools[c], {}}
          /\ backend' = backend
      BY <2>1 DEF tables
    <2>3. \/ \E point \in OnConn \ {"fetch", "replace", "insert"} : Goto(t, point)
          \/ \E point \in OnConn \ {"fetch", "replace", "insert"}, c \in Conn : Begin(t, point, c)
          \/ Return(t)
          \/ Settled(t)
      BY <1>1 DEF RefreshConnection, RunSpawned, ReadConnection, ReadRecord,
                  NotListed, ReplaceDone, OnConn
    <2>4. QED
      BY <2>2, <2>3, MovesQuietly
  <1>2. CASE CountTools(t)
    <2>1. UNCHANGED <<tools, backend>>
      BY <1>2 DEF CountTools, tables
    <2>2. CASE CatalogSize >= MaxCatalogTools
      <3>1. Return(t)
        BY <1>2, <2>2 DEF CountTools
      <3>2. QED
        BY <2>1, <3>1, MovesQuietly
    <2>3. CASE ~(CatalogSize >= MaxCatalogTools)
      <3>1. Goto(t, "fetch")
        BY <1>2, <2>3 DEF CountTools
      <3>2. QED
        BY <2>1, <2>3, <3>1 DEF CatalogTypeOK, Goto, Quiet
    <2>4. QED
      BY <2>2, <2>3
  <1>3. QED
    BY <1>1, <1>2 DEF Refresh

(* Every step that edits a connection is quiet, or removes one at once.    *)
LEMMA EditQuiet ==
  ASSUME CatalogTypeOK, NEW t \in Task, Edit(t)
  PROVE  Quiet(t) \/ \E c \in Conn : RemoveConnectionMemory(t, c)
  <1>1. CASE \/ \E c \in Conn : \/ CreateOverHttp(t, c) \/ CreateByTool(t, c)
                                \/ PatchConnection(t, c) \/ DeleteConnection(t, c)
             \/ EnsureProviderPut(t) \/ CreateConnection(t) \/ CreateCheck(t)
             \/ CreatePut(t) \/ PatchPut(t) \/ DeleteItsTools(t)
    <2>1. /\ \A c \in Conn : tools'[c] \in {tools[c], {}}
          /\ backend' = backend
      BY <1>1 DEF CreateOverHttp, CreateByTool, PatchConnection, DeleteConnection,
                  EnsureProviderPut, CreateConnection, CreateCheck, CreatePut, PatchPut,
                  DeleteItsTools, tables, CatalogTypeOK
    <2>2. \/ \E point \in OnConn \ {"fetch", "replace", "insert"} : Goto(t, point)
          \/ \E point \in OnConn \ {"fetch", "replace", "insert"}, c \in Conn : Begin(t, point, c)
          \/ Return(t)
          \/ Settled(t)
      BY <1>1 DEF CreateOverHttp, CreateByTool, PatchConnection, DeleteConnection,
                  EnsureProviderPut, CreateConnection, CreateCheck, CreatePut, PatchPut,
                  DeleteItsTools, OnConn
    <2>3. QED
      BY <2>1, <2>2, MovesQuietly
  <1>2. QED
    BY <1>1 DEF Edit

(* Every step that edits an integration is quiet.                          *)
LEMMA ConfigureQuiet ==
  ASSUME CatalogTypeOK, NEW t \in Task, Configure(t)
  PROVE  Quiet(t)
  <1>1. CASE \E s \in Slug : \/ \E r \in Record : Register(t, s, r)
                             \/ PatchConfig(t, s) \/ RemoveIntegration(t, s)
    BY <1>1 DEF Register, PatchConfig, RemoveIntegration, Quiet, tables, CatalogTypeOK
  <1>2. CASE \/ RegisterPut(t) \/ PatchConfigPut(t) \/ PatchConfigRefresh(t)
             \/ RemoveIntegrationMemory(t)
             \/ DeleteIntegration(t) \/ DeleteConnections(t) \/ DeleteTools(t)
    <2>1. /\ \A c \in Conn : tools'[c] \in {tools[c], {}}
          /\ backend' = backend
      BY <1>2 DEF RegisterPut, PatchConfigPut, PatchConfigRefresh, RemoveIntegrationMemory,
                  DeleteIntegration, DeleteConnections, DeleteTools, tables, CatalogTypeOK
    <2>2. \/ \E point \in OnConns \cup OnRow : Goto(t, point)
          \/ Return(t)
          \/ Settled(t)
      BY <1>2 DEF RegisterPut, PatchConfigPut, PatchConfigRefresh, RemoveIntegrationMemory,
                  DeleteIntegration, DeleteConnections, DeleteTools, OnConns, OnRow
    <2>3. \A point \in OnConns \cup OnRow : point \notin {"fetch", "replace", "insert"}
      BY DEF OnConns, OnRow
    <2>4. QED
      BY <2>1, <2>2, <2>3, MovesQuietly
  <1>3. QED
    BY <1>1, <1>2 DEF Configure

(* Every step of refresh_connection keeps the limit.                       *)
LEMMA RefreshLimit ==
  ASSUME CatalogTypeOK, LimitInv, NEW t \in Task, Refresh(t)
  PROVE  LimitInv'
  <1>1. CASE Quiet(t)
    BY <1>1, QuietLimit
  <1>2. CASE ToolsListed(t)
    <2>1. PICK names \in SUBSET Name :
            /\ Cardinality(names) <= MaxToolsPerConnection
            /\ listing' = [listing EXCEPT ![t] = names]
      BY <1>2 DEF ToolsListed
    <2>2. pc' = [pc EXCEPT ![t] = "replace"] /\ UNCHANGED <<backend, tools>>
      BY <1>2 DEF ToolsListed, tables
    <2>3. ListingOK'
      BY <2>1, <2>2 DEF CatalogTypeOK, LimitInv, ListingOK
    <2>4. QED
      BY <2>2, <2>3 DEF LimitInv, MemoryKeepsTheLimit
  <1>3. CASE ReplaceTools(t)
    <2>1. ListingOK'
      BY <1>3 DEF ReplaceTools, Settled, Idle, CatalogTypeOK, LimitInv, ListingOK
    <2>2. ASSUME NEW c \in Conn PROVE Cardinality(tools'[c]) <= MaxToolsPerConnection
      BY <1>3 DEF ReplaceTools, CatalogTypeOK, LimitInv, ListingOK, MemoryKeepsTheLimit
    <2>3. QED
      BY <2>1, <2>2 DEF LimitInv, MemoryKeepsTheLimit
  <1>4. CASE ReplaceDelete(t) \/ ReplaceInsert(t)
    <2>1. backend = "sqlite" /\ UNCHANGED backend
      BY <1>4 DEF ReplaceDelete, ReplaceInsert, LimitInv, ListingOK, CatalogTypeOK
    <2>2. \A u \in Task : pc'[u] = "replace" =>
            pc[u] = "replace" /\ listing'[u] = listing[u]
      BY <1>4 DEF ReplaceDelete, ReplaceInsert, Goto, Return, Idle, CatalogTypeOK
    <2>3. QED
      BY <2>1, <2>2 DEF LimitInv, ListingOK, MemoryKeepsTheLimit
  <1>5. QED
    BY <1>1, <1>2, <1>3, <1>4, RefreshQuiet

(* Every step that edits a connection keeps the limit.                     *)
LEMMA EditLimit ==
  ASSUME CatalogTypeOK, LimitInv, NEW t \in Task, Edit(t)
  PROVE  LimitInv'
  <1>1. CASE \E c \in Conn : RemoveConnectionMemory(t, c)
    <2>1. /\ UNCHANGED <<pc, listing, backend>>
          /\ \A c \in Conn : tools'[c] \in {tools[c], {}}
      BY <1>1 DEF RemoveConnectionMemory, request, CatalogTypeOK
    <2>2. QED
      BY <2>1, NoneIsWithin DEF LimitInv, ListingOK, MemoryKeepsTheLimit
  <1>2. CASE Quiet(t)
    BY <1>2, QuietLimit
  <1>3. QED
    BY <1>1, <1>2, EditQuiet

(* Every step that edits an integration keeps the limit.                   *)
LEMMA ConfigureLimit ==
  ASSUME CatalogTypeOK, LimitInv, NEW t \in Task, Configure(t)
  PROVE  LimitInv'
  BY ConfigureQuiet, QuietLimit

(* Every step of the catalog keeps the limit.                              *)
LEMMA NextLimit == CatalogTypeOK /\ LimitInv /\ [CatalogNext]_catalogVars => LimitInv'
  <1> SUFFICES ASSUME CatalogTypeOK, LimitInv, [CatalogNext]_catalogVars PROVE LimitInv'
    OBVIOUS
  <1>1. CASE \E t \in Task : Refresh(t) \/ Edit(t) \/ Configure(t)
    BY <1>1, RefreshLimit, EditLimit, ConfigureLimit
  <1>2. CASE \/ \E s \in Slug, r \in Record : RegisterIntegration(s, r)
             \/ UNCHANGED catalogVars
    <2>1. UNCHANGED <<pc, listing, backend, tools>>
      BY <1>2 DEF RegisterIntegration, catalogVars, request
    <2>2. QED
      BY <2>1 DEF LimitInv, ListingOK, MemoryKeepsTheLimit
  <1>3. CASE Crash
    <2>1. /\ \A t \in Task : pc'[t] = "idle"
          /\ backend' = backend
          /\ \A c \in Conn : tools'[c] \in {tools[c], {}}
      BY <1>3 DEF Crash, tables, NoTools
    <2>2. QED
      BY <2>1, NoneIsWithin DEF LimitInv, ListingOK, MemoryKeepsTheLimit
  <1>4. QED
    BY <1>1, <1>2, <1>3 DEF CatalogNext

(* On the in-memory catalog max_tools_per_connection holds at all times,   *)
(* however refreshes, removals and restarts interleave.                    *)
THEOREM MemoryLimitHolds == CatalogSpec => []MemoryKeepsTheLimit
  <1>1. CatalogInit => LimitInv
    BY NoneIsWithin DEF CatalogInit, LimitInv, ListingOK, MemoryKeepsTheLimit, NoTools
  <1>2. LimitInv => MemoryKeepsTheLimit
    BY DEF LimitInv
  <1>3. QED
    BY <1>1, <1>2, NextLimit, CatalogTypeCorrect, PTL DEF CatalogSpec
-----------------------------------------------------------------------------
(* The three tables together *)

(* What a connection nobody has disturbed is between requests.             *)
Whole(c) ==
    /\ tools[c] # {} => c \in connections
    /\ c \in connections => integrations[SlugOf[c]] # NoRow
    /\ Cardinality(tools[c]) <= MaxToolsPerConnection

(* Two requests on one connection both know, and the connection is known.  *)
SharedInv ==
    \A t, u \in Task : t # u =>
        \A c \in Touches(t) \cap Touches(u) : overlapped[t] /\ c \in disturbed

(* A request that can rely on what it has read about a connection: it was  *)
(* alone, or the connection at least was not shared.                       *)
Sole(t, c) == c \in Touches(t) /\ (overlapped[t] => c \notin disturbed)

(* What such a request has made sure of by the point it has reached.       *)
Progress(t, c) ==
    /\ pc[t] \in {"record", "count", "fetch", "replace", "insert", "patch_put"}
         => c \in connections
    /\ pc[t] \in {"count", "fetch", "replace", "insert", "create_check", "create_put"}
         => integrations[SlugOf[c]] # NoRow
    /\ pc[t] = "insert"
         => Cardinality(tools[c]) + Cardinality(listing[t]) <= MaxToolsPerConnection
    /\ pc[t] \in {"unregister_tools", "remove_tools"} => c \notin connections

ProgressInv == \A t \in Task : \A c \in Touches(t) : Sole(t, c) => Progress(t, c)

(* Between the statements of a removal a connection is not whole.          *)
Removing == {"unregister_conns", "unregister_tools", "remove_tools"}
Removed(c) == \E t \in Task : c \in Touches(t) /\ pc[t] \in Removing

WholeInv == \A c \in Conn \ disturbed : ~Removed(c) => Whole(c)

(* Listings are finite and measured.                                       *)
MeasuredInv ==
    /\ \A c \in Conn : IsFiniteSet(tools[c])
    /\ \A t \in Task : /\ IsFiniteSet(listing[t])
                       /\ Cardinality(listing[t]) <= MaxToolsPerConnection

(* The room a request that has looked at the size may still take.          *)
Reserve(t) == IF pc[t] = "fetch" THEN MaxToolsPerConnection
              ELSE IF pc[t] \in {"replace", "insert"} THEN Cardinality(listing[t])
              ELSE 0
Reserved == SumFunction([t \in Task |-> Reserve(t)])

SizeInv == CatalogSize + Reserved
             <= MaxCatalogTools - 1 + Cardinality(Task) * MaxToolsPerConnection

-----------------------------------------------------------------------------
(* The size of the whole catalog *)

(* The limit that CatalogIsWhole states is a number.                       *)
Room == MaxCatalogTools - 1 + Cardinality(Task) * MaxToolsPerConnection

(* The terms of that limit.                                                *)
LEMMA RoomIsANumber ==
  /\ Cardinality(Task) \in Nat
  /\ Cardinality(Task) * MaxToolsPerConnection \in Nat
  /\ Room \in Int
  <1>1. Cardinality(Task) \in Nat /\ MaxToolsPerConnection \in Nat /\ MaxCatalogTools \in Nat
    BY CatalogAssumption, FS_CardinalityType
  <1>2. Cardinality(Task) * MaxToolsPerConnection \in Nat
    BY <1>1, OneMoreTimes
  <1>3. QED
    BY <1>1, <1>2 DEF Room

(* What each connection and each request counts for.                       *)
SizesOK ==
    /\ \A c \in Conn : Cardinality(tools[c]) \in Nat
    /\ \A t \in Task : Cardinality(listing[t]) \in Nat
    /\ \A t \in Task : Reserve(t) \in Nat /\ Reserve(t) <= MaxToolsPerConnection

(* Their sizes are numbers.                                                *)
LEMMA MeasuredSizes == MeasuredInv => SizesOK
  <1> SUFFICES ASSUME MeasuredInv PROVE SizesOK
    OBVIOUS
  <1>1. /\ \A c \in Conn : Cardinality(tools[c]) \in Nat
        /\ \A t \in Task : Cardinality(listing[t]) \in Nat
    BY FS_CardinalityType DEF MeasuredInv
  <1>2. ASSUME NEW t \in Task
        PROVE  Reserve(t) \in Nat /\ Reserve(t) <= MaxToolsPerConnection
    BY <1>1, CatalogAssumption DEF MeasuredInv, Reserve
  <1>3. QED
    BY <1>1, <1>2 DEF SizesOK

(* Two addends that do not grow ...                                        *)
LEMMA BothShrink ==
  ASSUME NEW a \in Int, NEW b \in Int, NEW c \in Int, NEW d \in Int, NEW limit \in Int,
         a <= c, b <= d, c + d <= limit
  PROVE  a + b <= limit
  OBVIOUS

(* ... or that are each within a limit.                                    *)
LEMMA BothWithin ==
  ASSUME NEW a \in Int, NEW b \in Int, NEW m \in Nat, NEW k \in Int, a <= m - 1, b <= k
  PROVE  a + b <= m - 1 + k
  OBVIOUS

(* A step that takes nothing more for any connection or any request.       *)
LEMMA SizesShrink ==
  ASSUME MeasuredInv, MeasuredInv', SizeInv,
         \A c \in Conn : Cardinality(tools'[c]) <= Cardinality(tools[c]),
         \A t \in Task : Reserve(t)' <= Reserve(t)
  PROVE  SizeInv'
  <1>1. PICK f : f = [c \in Conn |-> Cardinality(tools[c])]
    OBVIOUS
  <1>2. PICK g : g = [c \in Conn |-> Cardinality(tools'[c])]
    OBVIOUS
  <1>3. PICK p : p = [t \in Task |-> Reserve(t)]
    OBVIOUS
  <1>4. PICK q : q = [t \in Task |-> Reserve(t)']
    OBVIOUS
  <1>5. /\ CatalogSize = SumFunctionOnSet(f, Conn) /\ CatalogSize' = SumFunctionOnSet(g, Conn)
        /\ Reserved = SumFunctionOnSet(p, Task) /\ Reserved' = SumFunctionOnSet(q, Task)
    BY <1>1, <1>2, <1>3, <1>4 DEF CatalogSize, Reserved, SumFunction
  <1>6. /\ \A c \in Conn : f[c] \in Int /\ g[c] \in Int /\ g[c] <= f[c]
        /\ \A t \in Task : p[t] \in Int /\ q[t] \in Int /\ q[t] <= p[t]
    <2>1. SizesOK /\ SizesOK'
      BY MeasuredSizes, PTL
    <2>2. QED
      BY <1>1, <1>2, <1>3, <1>4, <2>1 DEF SizesOK
  <1>7. IsFiniteSet(Conn) /\ IsFiniteSet(Task)
    BY CatalogAssumption
  <1>8. /\ CatalogSize \in Int /\ CatalogSize' \in Int
        /\ Reserved \in Int /\ Reserved' \in Int
    BY <1>5, <1>6, <1>7, SumType
  <1>9. CatalogSize' <= CatalogSize /\ Reserved' <= Reserved
    BY <1>5, <1>6, <1>7, SumGrows
  <1>10. CatalogSize + Reserved <= Room
    BY DEF SizeInv, Room
  <1>11. CatalogSize' + Reserved' <= Room
    <2>1. Room \in Int
      BY RoomIsANumber
    <2>2. QED
      BY <1>8, <1>9, <1>10, <2>1, BothShrink
  <1>12. QED
    BY <1>11 DEF SizeInv, Room

(* A step that only shrinks tools and listings keeps them measured.        *)
LEMMA StillMeasured ==
  ASSUME MeasuredInv, \A c \in Conn : tools'[c] \in {tools[c], {}},
         \A t \in Task : listing'[t] \in {listing[t], {}}
  PROVE  /\ MeasuredInv'
         /\ \A c \in Conn : Cardinality(tools'[c]) <= Cardinality(tools[c])
  <1>1. IsFiniteSet({}) /\ Cardinality({}) = 0 /\ Cardinality({}) <= MaxToolsPerConnection
    BY FS_EmptySet, NoneIsWithin
  <1>2. ASSUME NEW c \in Conn
        PROVE  IsFiniteSet(tools'[c]) /\ Cardinality(tools'[c]) <= Cardinality(tools[c])
    <2>1. IsFiniteSet(tools[c]) /\ Cardinality(tools[c]) \in Nat
      BY MeasuredSizes DEF MeasuredInv, SizesOK
    <2>2. CASE tools'[c] = tools[c]
      BY <2>1, <2>2
    <2>3. CASE tools'[c] = {}
      <3>1. IsFiniteSet(tools'[c]) /\ Cardinality(tools'[c]) = 0
        BY <1>1, <2>3
      <3>2. QED
        BY <2>1, <3>1
    <2>4. QED
      BY <2>2, <2>3
  <1>3. ASSUME NEW t \in Task
        PROVE  IsFiniteSet(listing'[t]) /\ Cardinality(listing'[t]) <= MaxToolsPerConnection
    BY <1>1 DEF MeasuredInv
  <1>4. QED
    BY <1>2, <1>3 DEF MeasuredInv

(* A request may ask for a listing only where the catalog has room.        *)
LEMMA QuietSize ==
  ASSUME MeasuredInv, SizeInv, NEW t \in Task, Quiet(t)
  PROVE  MeasuredInv' /\ SizeInv'
  <1>1. /\ MeasuredInv'
        /\ \A c \in Conn : Cardinality(tools'[c]) <= Cardinality(tools[c])
    BY StillMeasured DEF Quiet
  <1>2. SizesOK /\ SizesOK'
    BY <1>1, MeasuredSizes, PTL
  <1>3. CASE pc'[t] = "fetch"
    <2>1. ~(CatalogSize >= MaxCatalogTools) /\ tools' = tools
      BY <1>3 DEF Quiet
    <2>2. PICK q : q = [u \in Task |-> Reserve(u)']
      OBVIOUS
    <2>3. Reserved' = SumFunctionOnSet(q, Task)
      BY <2>2 DEF Reserved, SumFunction
    <2>4. \A u \in Task : q[u] \in Int /\ q[u] <= MaxToolsPerConnection
      BY <1>2, <2>2 DEF SizesOK
    <2>5. PICK most : most = Cardinality(Task) * MaxToolsPerConnection
      OBVIOUS
    <2>6. Reserved' \in Int /\ Reserved' <= most /\ most \in Int
      BY <2>3, <2>4, <2>5, CatalogAssumption, SumBounded, SumType, RoomIsANumber
    <2>7. CatalogSize' = CatalogSize
      BY <2>1 DEF CatalogSize
    <2>8. CatalogSize \in Int
      <3>1. PICK f : f = [c \in Conn |-> Cardinality(tools[c])]
        OBVIOUS
      <3>2. CatalogSize = SumFunctionOnSet(f, Conn)
        BY <3>1 DEF CatalogSize, SumFunction
      <3>3. \A c \in Conn : f[c] \in Int
        BY <1>2, <3>1 DEF SizesOK
      <3>4. QED
        BY <3>2, <3>3, CatalogAssumption, SumType
    <2>9. CatalogSize <= MaxCatalogTools - 1
      BY <2>1, <2>8, CatalogAssumption
    <2>10. CatalogSize' + Reserved' <= MaxCatalogTools - 1 + most
      BY <2>6, <2>7, <2>8, <2>9, CatalogAssumption, BothWithin
    <2>11. QED
      BY <1>1, <2>5, <2>10 DEF SizeInv
  <1>4. CASE pc'[t] # "fetch"
    <2>1. ASSUME NEW u \in Task PROVE Reserve(u)' <= Reserve(u)
      BY <1>2, <1>4, CatalogAssumption DEF Quiet, Reserve, SizesOK
    <2>2. QED
      BY <1>1, <2>1, SizesShrink
  <1>5. QED
    BY <1>3, <1>4

(* A listing that came back takes no more than was set aside for it.       *)
LEMMA ListedSize ==
  ASSUME CatalogTypeOK, MeasuredInv, SizeInv, NEW t \in Task, ToolsListed(t)
  PROVE  MeasuredInv' /\ SizeInv'
  <1>1. PICK names \in SUBSET Name :
          /\ IsFiniteSet(names) /\ Cardinality(names) <= MaxToolsPerConnection
          /\ listing' = [listing EXCEPT ![t] = names]
    BY DEF ToolsListed
  <1>2. /\ tools' = tools /\ pc[t] = "fetch"
        /\ pc' = [pc EXCEPT ![t] = "replace"]
    BY DEF ToolsListed, tables
  <1>3. /\ \A u \in Task : u # t => pc'[u] = pc[u] /\ listing'[u] = listing[u]
        /\ pc'[t] = "replace" /\ listing'[t] = names
    BY <1>1, <1>2 DEF CatalogTypeOK
  <1>4. MeasuredInv'
    BY <1>1, <1>2, <1>3 DEF MeasuredInv
  <1>5. SizesOK /\ SizesOK'
    BY <1>4, MeasuredSizes, PTL
  <1>6. ASSUME NEW u \in Task PROVE Reserve(u)' <= Reserve(u)
    BY <1>1, <1>2, <1>3, <1>5, CatalogAssumption DEF Reserve, SizesOK
  <1>7. \A c \in Conn : Cardinality(tools'[c]) <= Cardinality(tools[c])
    BY <1>2, <1>5 DEF SizesOK
  <1>8. QED
    BY <1>4, <1>6, <1>7, SizesShrink

(* What a step adds to a connection's tools, its request had set aside.    *)
LEMMA SizesMove ==
  ASSUME MeasuredInv, MeasuredInv', SizeInv, NEW t \in Task, NEW c \in Conn,
         \A d \in Conn : d # c => tools'[d] = tools[d],
         \A u \in Task : u # t => Reserve(u)' = Reserve(u),
         Cardinality(tools'[c]) + Reserve(t)' <= Cardinality(tools[c]) + Reserve(t)
  PROVE  SizeInv'
  <1>1. PICK f : f = [d \in Conn |-> Cardinality(tools[d])]
    OBVIOUS
  <1>2. PICK g : g = [d \in Conn |-> Cardinality(tools'[d])]
    OBVIOUS
  <1>3. PICK p : p = [u \in Task |-> Reserve(u)]
    OBVIOUS
  <1>4. PICK q : q = [u \in Task |-> Reserve(u)']
    OBVIOUS
  <1>5. /\ CatalogSize = SumFunctionOnSet(f, Conn) /\ CatalogSize' = SumFunctionOnSet(g, Conn)
        /\ Reserved = SumFunctionOnSet(p, Task) /\ Reserved' = SumFunctionOnSet(q, Task)
    BY <1>1, <1>2, <1>3, <1>4 DEF CatalogSize, Reserved, SumFunction
  <1>6. SizesOK /\ SizesOK'
    BY MeasuredSizes, PTL
  <1>7. /\ \A d \in Conn : f[d] \in Int /\ g[d] \in Int /\ (d # c => g[d] = f[d])
        /\ \A u \in Task : p[u] \in Int /\ q[u] \in Int /\ (u # t => q[u] = p[u])
    BY <1>1, <1>2, <1>3, <1>4, <1>6 DEF SizesOK
  <1>8. IsFiniteSet(Conn) /\ IsFiniteSet(Task)
    BY CatalogAssumption
  <1>9. /\ CatalogSize' = CatalogSize - f[c] + g[c] /\ CatalogSize \in Int
        /\ Reserved' = Reserved - p[t] + q[t] /\ Reserved \in Int
    BY <1>5, <1>7, <1>8, SumChange, SumType
  <1>10. g[c] + q[t] <= f[c] + p[t]
    BY <1>1, <1>2, <1>3, <1>4
  <1>11. Room \in Int /\ CatalogSize + Reserved <= Room
    BY RoomIsANumber DEF SizeInv, Room
  <1>12. CatalogSize' + Reserved' <= Room
    <2>1. f[c] \in Int /\ g[c] \in Int /\ p[t] \in Int /\ q[t] \in Int
      BY <1>7
    <2>2. QED
      BY <1>9, <1>10, <1>11, <2>1
  <1>13. QED
    BY <1>12 DEF SizeInv, Room

(* Storing a listing takes what its request had set aside.                 *)
LEMMA ReplaceSize ==
  ASSUME CatalogTypeOK, MeasuredInv, SizeInv, NEW t \in Task, ReplaceTools(t)
  PROVE  MeasuredInv' /\ SizeInv'
  <1>1. PICK c : c = conn[t] /\ c \in Conn
    BY DEF CatalogTypeOK
  <1>2. /\ pc[t] = "replace" /\ pc'[t] = "idle" /\ listing'[t] = {}
        /\ \A u \in Task : u # t => pc'[u] = pc[u] /\ listing'[u] = listing[u]
        /\ tools'[c] = listing[t]
        /\ \A d \in Conn : d # c => tools'[d] = tools[d]
    BY <1>1 DEF ReplaceTools, Settled, Idle, CatalogTypeOK
  <1>3. IsFiniteSet({}) /\ Cardinality({}) = 0 /\ Cardinality({}) <= MaxToolsPerConnection
    BY FS_EmptySet, NoneIsWithin
  <1>4. MeasuredInv'
    BY <1>2, <1>3 DEF MeasuredInv
  <1>5. SizesOK /\ SizesOK'
    BY <1>4, MeasuredSizes, PTL
  <1>6. /\ Reserve(t) = Cardinality(listing[t]) /\ Reserve(t)' = 0
        /\ \A u \in Task : u # t => Reserve(u)' = Reserve(u)
    BY <1>2 DEF Reserve
  <1>7. Cardinality(tools'[c]) + Reserve(t)' <= Cardinality(tools[c]) + Reserve(t)
    <2>1. Cardinality(tools'[c]) = Cardinality(listing[t])
      BY <1>2
    <2>2. Cardinality(listing[t]) \in Nat /\ Cardinality(tools[c]) \in Nat
      BY <1>1, <1>5 DEF SizesOK
    <2>3. QED
      BY <1>6, <2>1, <2>2
  <1>8. QED
    BY <1>1, <1>2, <1>4, <1>6, <1>7, SizesMove

(* SQLite first removes what the connection listed before ...              *)
LEMMA ReplaceDeleteSize ==
  ASSUME CatalogTypeOK, MeasuredInv, SizeInv, NEW t \in Task, ReplaceDelete(t)
  PROVE  MeasuredInv' /\ SizeInv'
  <1>1. /\ pc[t] = "replace" /\ pc'[t] = "insert" /\ listing' = listing
        /\ \A u \in Task : u # t => pc'[u] = pc[u]
        /\ \A c \in Conn : tools'[c] \in {tools[c], {}}
    BY DEF ReplaceDelete, Goto, CatalogTypeOK
  <1>2. /\ MeasuredInv'
        /\ \A c \in Conn : Cardinality(tools'[c]) <= Cardinality(tools[c])
    BY <1>1, StillMeasured
  <1>3. SizesOK
    BY MeasuredSizes
  <1>4. ASSUME NEW u \in Task PROVE Reserve(u)' <= Reserve(u)
    BY <1>1, <1>3 DEF Reserve, SizesOK
  <1>5. QED
    BY <1>2, <1>4, SizesShrink

(* ... and then moves the tools from the listing one by one.               *)
LEMMA InsertSize ==
  ASSUME CatalogTypeOK, MeasuredInv, SizeInv, NEW t \in Task, ReplaceInsert(t)
  PROVE  MeasuredInv' /\ SizeInv'
  <1>1. PICK n \in listing[t] :
          IF n \in tools[conn[t]]
            THEN Return(t) /\ UNCHANGED tools
            ELSE /\ tools' = [tools EXCEPT ![conn[t]] = @ \cup {n}]
                 /\ listing' = [listing EXCEPT ![t] = @ \ {n}]
                 /\ UNCHANGED <<pc, conn, slug, row, history>>
    BY DEF ReplaceInsert
  <1>2. pc[t] = "insert" /\ backend' = backend
    BY DEF ReplaceInsert
  <1>3. CASE n \in tools[conn[t]]
    <2>1. Quiet(t)
      BY <1>1, <1>2, <1>3, MovesQuietly
    <2>2. QED
      BY <2>1, QuietSize
  <1>4. CASE n \notin tools[conn[t]]
    <2>1. PICK c : c = conn[t] /\ c \in Conn
      BY DEF CatalogTypeOK
    <2>2. /\ pc' = pc /\ listing'[t] = listing[t] \ {n} /\ tools'[c] = tools[c] \cup {n}
          /\ \A u \in Task : u # t => listing'[u] = listing[u]
          /\ \A d \in Conn : d # c => tools'[d] = tools[d]
      BY <1>1, <1>4, <2>1 DEF CatalogTypeOK
    <2>3. /\ IsFiniteSet(tools'[c]) /\ IsFiniteSet(listing'[t])
          /\ Cardinality(tools'[c]) = Cardinality(tools[c]) + 1
          /\ Cardinality(listing'[t]) = Cardinality(listing[t]) - 1
      <3>1. IsFiniteSet(tools[c]) /\ IsFiniteSet(listing[t])
        BY <2>1 DEF MeasuredInv
      <3>2. n \notin tools[c] /\ n \in listing[t]
        BY <1>4, <2>1
      <3>3. /\ IsFiniteSet(tools[c] \cup {n})
            /\ Cardinality(tools[c] \cup {n}) = Cardinality(tools[c]) + 1
        BY <3>1, <3>2, FS_AddElement
      <3>4. /\ IsFiniteSet(listing[t] \ {n})
            /\ Cardinality(listing[t] \ {n}) = Cardinality(listing[t]) - 1
        BY <3>1, <3>2, FS_RemoveElement
      <3>5. QED
        BY <2>2, <3>3, <3>4
    <2>4. SizesOK
      BY MeasuredSizes
    <2>5. MeasuredInv'
      <3>1. Cardinality(listing'[t]) <= MaxToolsPerConnection
        BY <2>3, <2>4, CatalogAssumption DEF MeasuredInv, SizesOK
      <3>2. QED
        BY <2>2, <2>3, <3>1 DEF MeasuredInv
    <2>6. /\ Reserve(t) = Cardinality(listing[t]) /\ Reserve(t)' = Cardinality(listing'[t])
          /\ \A u \in Task : u # t => Reserve(u)' = Reserve(u)
      BY <1>2, <2>2 DEF Reserve
    <2>7. Cardinality(tools'[c]) + Reserve(t)' <= Cardinality(tools[c]) + Reserve(t)
      BY <2>1, <2>3, <2>4, <2>6 DEF SizesOK
    <2>8. QED
      BY <2>1, <2>2, <2>5, <2>6, <2>7, SizesMove
  <1>5. QED
    BY <1>3, <1>4

(* Every step keeps the listings measured and the catalog within its room. *)
LEMMA NextSize ==
  CatalogTypeOK /\ MeasuredInv /\ SizeInv /\ [CatalogNext]_catalogVars
    => MeasuredInv' /\ SizeInv'
  <1> SUFFICES ASSUME CatalogTypeOK, MeasuredInv, SizeInv, [CatalogNext]_catalogVars
               PROVE  MeasuredInv' /\ SizeInv'
    OBVIOUS
  <1>1. ASSUME \A c \in Conn : tools'[c] \in {tools[c], {}},
               \/ UNCHANGED <<pc, listing>>
               \/ \A t \in Task : pc'[t] = "idle" /\ listing'[t] = {}
        PROVE  MeasuredInv' /\ SizeInv'
    <2>1. /\ MeasuredInv'
          /\ \A c \in Conn : Cardinality(tools'[c]) <= Cardinality(tools[c])
      BY <1>1, StillMeasured
    <2>2. SizesOK
      BY MeasuredSizes
    <2>3. ASSUME NEW t \in Task PROVE Reserve(t)' <= Reserve(t)
      BY <1>1, <2>2 DEF Reserve, SizesOK
    <2>4. QED
      BY <2>1, <2>3, SizesShrink
  <1>2. ASSUME NEW t \in Task, Refresh(t) PROVE MeasuredInv' /\ SizeInv'
    BY <1>2, RefreshQuiet, QuietSize, ListedSize, ReplaceSize, ReplaceDeleteSize, InsertSize
  <1>3. ASSUME NEW t \in Task, Edit(t) PROVE MeasuredInv' /\ SizeInv'
    <2>1. CASE \E c \in Conn : RemoveConnectionMemory(t, c)
      <3>1. /\ UNCHANGED <<pc, listing>>
            /\ \A c \in Conn : tools'[c] \in {tools[c], {}}
        BY <2>1 DEF RemoveConnectionMemory, request, CatalogTypeOK
      <3>2. QED
        BY <1>1, <3>1
    <2>2. QED
      BY <1>3, <2>1, EditQuiet, QuietSize
  <1>4. ASSUME NEW t \in Task, Configure(t) PROVE MeasuredInv' /\ SizeInv'
    BY <1>4, ConfigureQuiet, QuietSize
  <1>5. CASE \/ \E s \in Slug, r \in Record : RegisterIntegration(s, r)
             \/ UNCHANGED catalogVars
    <2>1. UNCHANGED <<pc, listing, tools>>
      BY <1>5 DEF RegisterIntegration, catalogVars, request
    <2>2. QED
      BY <1>1, <2>1
  <1>6. CASE Crash
    <2>1. /\ \A t \in Task : pc'[t] = "idle" /\ listing'[t] = {}
          /\ \A c \in Conn : tools'[c] \in {tools[c], {}}
      BY <1>6 DEF Crash, tables, NoTools
    <2>2. QED
      BY <1>1, <2>1
  <1>7. QED
    BY <1>2, <1>3, <1>4, <1>5, <1>6 DEF CatalogNext

(* The empty catalog has room.                                             *)
LEMMA InitSize == CatalogInit => MeasuredInv /\ SizeInv
  <1> SUFFICES ASSUME CatalogInit PROVE MeasuredInv /\ SizeInv
    OBVIOUS
  <1>1. IsFiniteSet({}) /\ Cardinality({}) = 0 /\ Cardinality({}) <= MaxToolsPerConnection
    BY FS_EmptySet, NoneIsWithin
  <1>2. MeasuredInv
    BY <1>1 DEF CatalogInit, NoTools, MeasuredInv
  <1>3. PICK f : f = [c \in Conn |-> Cardinality(tools[c])]
    OBVIOUS
  <1>4. PICK p : p = [t \in Task |-> Reserve(t)]
    BY Zenon
  <1>5. (\A c \in Conn : f[c] = 0) /\ \A t \in Task : p[t] = 0
    BY <1>1, <1>3, <1>4 DEF CatalogInit, NoTools, Reserve
  <1>6. CatalogSize = SumFunctionOnSet(f, Conn) /\ Reserved = SumFunctionOnSet(p, Task)
    BY <1>3, <1>4 DEF CatalogSize, Reserved, SumFunction
  <1>7. CatalogSize = 0 /\ Reserved = 0
    BY <1>5, <1>6, CatalogAssumption, SumOfZeros
  <1>8. SizeInv
    <2>1. PICK most \in Nat : most = Cardinality(Task) * MaxToolsPerConnection
      BY RoomIsANumber
    <2>2. 0 + 0 <= MaxCatalogTools - 1 + most
      BY <2>1, CatalogAssumption
    <2>3. QED
      BY <1>7, <2>1, <2>2 DEF SizeInv
  <1>9. QED
    BY <1>2, <1>8

-----------------------------------------------------------------------------
(* A step of one request, as the others see it *)

WholenessInv == SharedInv /\ ProgressInv /\ WholeInv

(* What a request touches depends on its point and its subject only.       *)
LEMMA TouchesSame ==
  ASSUME NEW u \in Task, pc'[u] = pc[u], conn'[u] = conn[u], slug'[u] = slug[u]
  PROVE  Touches(u)' = Touches(u)
  BY Zenon DEF Touches, On

(* What a request touches, by its point,                                   *)
LEMMA TouchesOfPoint ==
  ASSUME NEW u \in Task
  PROVE  /\ pc[u] \in OnConn => Touches(u) = {conn[u]}
         /\ pc[u] \in OnConns => Touches(u) = On(slug[u])
         /\ pc[u] \notin OnConn \cup OnConns => Touches(u) = {}
  <1>1. \A p \in OnConns : p \notin OnConn
    BY DEF OnConn, OnConns
  <1>2. QED
    BY <1>1, Zenon DEF Touches

(* The other requests stay where they are.                                 *)
OthersStay(t) ==
    \A u \in Task : u # t => /\ pc'[u] = pc[u] /\ conn'[u] = conn[u]
                             /\ slug'[u] = slug[u] /\ listing'[u] = listing[u]

(* The four ways a step changes what is known of overlaps: its request     *)
(* goes on, returns, settles what it touches, or arrives.                  *)
GoesOn(t) == Touches(t)' = Touches(t) /\ UNCHANGED history
Returns(t) ==
    /\ Touches(t)' = {}
    /\ overlapped' = [overlapped EXCEPT ![t] = FALSE]
    /\ disturbed' = disturbed
Settles(t) ==
    /\ Touches(t)' = {}
    /\ overlapped' = [overlapped EXCEPT ![t] = FALSE]
    /\ disturbed' = IF overlapped[t] THEN disturbed ELSE disturbed \ Touches(t)
Arrives(t) == Touches(t) = {} /\ Overlap(t, Touches(t)')

(* Whatever is known afterwards of the connections it touches, the rest of *)
(* the catalog stays, but for integrations that are put.                   *)
RestStays(t) ==
    \A c \in Conn : c \notin Touches(t) \cup Touches(t)' =>
        /\ c \in connections' <=> c \in connections
        /\ tools'[c] = tools[c]
        /\ integrations[SlugOf[c]] # NoRow => integrations'[SlugOf[c]] # NoRow

Steps(t) == /\ OthersStay(t) /\ RestStays(t)
            /\ GoesOn(t) \/ Returns(t) \/ Settles(t) \/ Arrives(t)

(* What its request has to answer for.                                     *)
Answers(t) ==
    /\ \A c \in Touches(t)' : Sole(t, c)' => Progress(t, c)'
    /\ \A c \in Touches(t) \cup Touches(t)' :
         c \notin disturbed' /\ ~Removed(c)' => Whole(c)'

(* What overlaps do to the history: others that share what the request     *)
(* touches know, and are told; the rest hear nothing.                      *)
LEMMA OverlapsAreTold ==
  ASSUME CatalogTypeOK, SharedInv, NEW t \in Task, Steps(t)
  PROVE  /\ \A u \in Task : u # t =>
              /\ Touches(u)' = Touches(u)
              /\ overlapped[u] => overlapped'[u]
              /\ \A c \in Touches(u) : c \in Touches(t) \cup Touches(t)' =>
                   overlapped'[u] /\ c \in disturbed'
         /\ \A c \in Conn : c \notin Touches(t) \cup Touches(t)' =>
              (c \in disturbed' <=> c \in disturbed)
  <1>1. ASSUME NEW u \in Task, u # t PROVE Touches(u)' = Touches(u)
    BY <1>1, TouchesSame DEF Steps, OthersStay
  <1>2. CASE GoesOn(t)
    BY <1>1, <1>2 DEF GoesOn, history, SharedInv
  <1>3. CASE Returns(t)
    BY <1>1, <1>3 DEF Returns, SharedInv, CatalogTypeOK
  <1>4. CASE Settles(t)
    BY <1>1, <1>4 DEF Settles, SharedInv, CatalogTypeOK
  <1>5. CASE Arrives(t)
    <2>1. PICK cs : cs = Touches(t)'
      OBVIOUS
    <2>2. PICK others : others = {u \in Task \ {t} : Touches(u) \cap cs # {}}
      OBVIOUS
    <2>3. /\ overlapped' = [u \in Task |-> IF u = t THEN others # {}
                                           ELSE overlapped[u] \/ u \in others]
          /\ disturbed' = disturbed \cup UNION {Touches(u) \cap cs : u \in others}
          /\ Touches(t) = {}
      BY <1>5, <2>1, <2>2 DEF Arrives, Overlap
    <2>4. ASSUME NEW u \in Task, u # t
          PROVE  /\ overlapped[u] => overlapped'[u]
                 /\ \A c \in Touches(u) : c \in cs => overlapped'[u] /\ c \in disturbed'
      <3>1. overlapped'[u] <=> overlapped[u] \/ u \in others
        BY <2>3, <2>4
      <3>2. ASSUME NEW c \in Touches(u), c \in cs
            PROVE  u \in others /\ c \in disturbed'
        <4>1. u \in others
          BY <2>2, <2>4, <3>2
        <4>2. c \in UNION {Touches(v) \cap cs : v \in others}
          BY <3>2, <4>1
        <4>3. QED
          BY <2>3, <4>1, <4>2
      <3>3. QED
        BY <3>1, <3>2
    <2>5. ASSUME NEW c \in Conn, c \notin cs PROVE c \in disturbed' <=> c \in disturbed
      BY <2>2, <2>3, <2>5
    <2>6. QED
      BY <1>1, <2>1, <2>3, <2>4, <2>5
  <1>6. QED
    BY <1>2, <1>3, <1>4, <1>5 DEF Steps

(* Two requests on one connection still both know.                         *)
LEMMA SharedStep ==
  ASSUME CatalogTypeOK, SharedInv, NEW t \in Task, Steps(t)
  PROVE  SharedInv'
  <1>1. /\ \A u \in Task : u # t =>
             /\ Touches(u)' = Touches(u)
             /\ overlapped[u] => overlapped'[u]
             /\ \A c \in Touches(u) : c \in Touches(t) \cup Touches(t)' =>
                  overlapped'[u] /\ c \in disturbed'
        /\ \A c \in Conn : c \notin Touches(t) \cup Touches(t)' =>
             (c \in disturbed' <=> c \in disturbed)
    BY OverlapsAreTold
  <1>2. \A u \in Task : Touches(u) \subseteq Conn
    BY TouchedType, Parts
  <1>3. ASSUME NEW u \in Task, u # t, NEW c \in Touches(u), c \in Touches(t)'
        PROVE  overlapped'[t]
    <2>1. Touches(t)' # {}
      BY <1>3
    <2>2. CASE GoesOn(t)
      BY <1>3, <2>2 DEF GoesOn, history, SharedInv
    <2>3. CASE Arrives(t)
      <3>1. PICK cs : cs = Touches(t)'
        OBVIOUS
      <3>2. PICK others : others = {v \in Task \ {t} : Touches(v) \cap cs # {}}
        OBVIOUS
      <3>3. overlapped' = [v \in Task |-> IF v = t THEN others # {}
                                          ELSE overlapped[v] \/ v \in others]
        BY <2>3, <3>1, <3>2 DEF Arrives, Overlap
      <3>4. u \in others
        BY <1>3, <3>1, <3>2
      <3>5. QED
        BY <3>3, <3>4
    <2>4. QED
      BY <2>1, <2>2, <2>3 DEF Steps, Returns, Settles
  <1>4. ASSUME NEW u \in Task, NEW v \in Task, u # v, u # t, v # t,
               NEW c \in Touches(u), c \in Touches(v)
        PROVE  overlapped'[u] /\ c \in disturbed'
    <2>1. overlapped[u] /\ c \in disturbed
      BY <1>4 DEF SharedInv
    <2>2. QED
      BY <1>1, <1>2, <1>4, <2>1
  <1>5. ASSUME NEW u \in Task, NEW v \in Task, u # v,
               NEW c \in Touches(u)' \cap Touches(v)'
        PROVE  overlapped'[u] /\ c \in disturbed'
    <2>1. CASE u = t
      BY <1>1, <1>3, <1>5, <2>1
    <2>2. CASE v = t
      BY <1>1, <1>5, <2>2
    <2>3. CASE u # t /\ v # t
      BY <1>1, <1>4, <1>5, <2>3
    <2>4. QED
      BY <2>1, <2>2, <2>3
  <1>6. QED
    BY <1>5 DEF SharedInv

(* One request's step, if it answers for what it touches, leaves the three *)
(* tables together.                                                        *)
LEMMA OwnStep ==
  ASSUME CatalogTypeOK, WholenessInv, NEW t \in Task, Steps(t), Answers(t)
  PROVE  WholenessInv'
  <1>1. /\ \A u \in Task : u # t =>
             /\ Touches(u)' = Touches(u)
             /\ overlapped[u] => overlapped'[u]
             /\ \A c \in Touches(u) : c \in Touches(t) \cup Touches(t)' =>
                  overlapped'[u] /\ c \in disturbed'
        /\ \A c \in Conn : c \notin Touches(t) \cup Touches(t)' =>
             (c \in disturbed' <=> c \in disturbed)
    BY OverlapsAreTold DEF WholenessInv
  <1>2. SharedInv'
    BY SharedStep DEF WholenessInv
  <1>3. \A u \in Task : Touches(u) \subseteq Conn
    BY TouchedType, Parts
  <1>4. ASSUME NEW u \in Task, NEW c \in Touches(u)', Sole(u, c)'
        PROVE  Progress(u, c)'
    <2>1. CASE u = t
      BY <1>4, <2>1 DEF Answers
    <2>2. CASE u # t
      <3>1. c \in Touches(u) /\ c \in Conn
        BY <1>1, <1>3, <1>4, <2>2
      <3>2. c \notin Touches(t) \cup Touches(t)'
        BY <1>1, <1>4, <2>2, <3>1 DEF Sole
      <3>3. Sole(u, c)
        BY <1>1, <1>4, <2>2, <3>1, <3>2 DEF Sole
      <3>4. Progress(u, c)
        BY <3>1, <3>3 DEF WholenessInv, ProgressInv
      <3>5. /\ pc'[u] = pc[u] /\ listing'[u] = listing[u]
            /\ c \in connections' <=> c \in connections
            /\ tools'[c] = tools[c]
            /\ integrations[SlugOf[c]] # NoRow => integrations'[SlugOf[c]] # NoRow
        BY <2>2, <3>1, <3>2 DEF Steps, OthersStay, RestStays
      <3>6. QED
        BY <3>4, <3>5, Zenon DEF Progress
    <2>3. QED
      BY <2>1, <2>2
  <1>5. ASSUME NEW c \in Conn, c \notin disturbed', ~Removed(c)'
        PROVE  Whole(c)'
    <2>1. CASE c \in Touches(t) \cup Touches(t)'
      BY <1>5, <2>1 DEF Answers
    <2>2. CASE c \notin Touches(t) \cup Touches(t)'
      <3>1. ~Removed(c)
        <4>1. ASSUME NEW u \in Task, c \in Touches(u), pc[u] \in Removing
              PROVE  FALSE
          <5>1. u # t
            BY <2>2, <4>1
          <5>2. c \in Touches(u)' /\ pc'[u] \in Removing
            BY <1>1, <4>1, <5>1 DEF Steps, OthersStay
          <5>3. QED
            BY <1>5, <5>2 DEF Removed, Removing
        <4>2. QED
          BY <4>1 DEF Removed
      <3>2. Whole(c)
        BY <1>1, <1>5, <2>2, <3>1 DEF WholenessInv, WholeInv
      <3>3. /\ c \in connections' <=> c \in connections
            /\ tools'[c] = tools[c]
            /\ integrations[SlugOf[c]] # NoRow => integrations'[SlugOf[c]] # NoRow
        BY <2>2 DEF Steps, RestStays
      <3>4. QED
        BY <3>2, <3>3 DEF Whole
    <2>3. QED
      BY <2>1, <2>2
  <1>6. QED
    BY <1>2, <1>4, <1>5 DEF WholenessInv, ProgressInv, WholeInv

-----------------------------------------------------------------------------
(* What a request answers for, by the way its step moves it *)

(* and by the point its step takes it to.                                  *)
LEMMA TouchesNext ==
  ASSUME NEW u \in Task
  PROVE  /\ pc'[u] \in OnConn => Touches(u)' = {conn'[u]}
         /\ pc'[u] \in OnConns => Touches(u)' = On(slug'[u])
         /\ pc'[u] \notin OnConn \cup OnConns => Touches(u)' = {}
  <1>1. \A p \in OnConns : p \notin OnConn
    BY DEF OnConn, OnConns
  <1>2. QED
    BY <1>1, Zenon DEF Touches, On

(* What a request may rely on about a connection it touches.               *)
LEMMA Relies ==
  ASSUME CatalogTypeOK, WholenessInv, NEW t \in Task, NEW c \in Touches(t)
  PROVE  /\ c \notin disturbed => Sole(t, c)
         /\ Sole(t, c) => Progress(t, c)
         /\ c \notin disturbed /\ pc[t] \notin Removing => Whole(c)
  <1>1. c \in Conn
    BY TouchedType, Parts
  <1>2. ASSUME c \notin disturbed, pc[t] \notin Removing PROVE Whole(c)
    <2>1. ASSUME NEW u \in Task, c \in Touches(u), pc[u] \in Removing PROVE FALSE
      <3>1. u # t
        BY <1>2, <2>1
      <3>2. c \in disturbed
        BY <2>1, <3>1 DEF WholenessInv, SharedInv
      <3>3. QED
        BY <1>2, <3>2
    <2>2. ~Removed(c)
      BY <2>1 DEF Removed
    <2>3. QED
      BY <1>1, <1>2, <2>2 DEF WholenessInv, WholeInv
  <1>3. c \notin disturbed => Sole(t, c)
    BY DEF Sole
  <1>4. Sole(t, c) => Progress(t, c)
    BY DEF WholenessInv, ProgressInv
  <1>5. QED
    BY <1>2, <1>3, <1>4

(* A request that goes on.                                                 *)
KeepsOn(t) ==
    /\ pc[t] \in Removing => pc'[t] \in Removing
    /\ \A c \in Touches(t) :
         Progress(t, c) => /\ Progress(t, c)'
                           /\ Whole(c) /\ pc'[t] \notin Removing => Whole(c)'

(* It leaves the tables together.                                          *)
LEMMA GoingOn ==
  ASSUME CatalogTypeOK, WholenessInv, NEW t \in Task, OthersStay(t), RestStays(t),
         GoesOn(t), KeepsOn(t)
  PROVE  WholenessInv'
  <1>1. Touches(t)' = Touches(t) /\ overlapped' = overlapped /\ disturbed' = disturbed
    BY DEF GoesOn, history
  <1>2. ASSUME NEW c \in Touches(t)', Sole(t, c)' PROVE Progress(t, c)'
    <2>1. c \in Touches(t) /\ Sole(t, c)
      BY <1>1, <1>2 DEF Sole
    <2>2. QED
      BY <2>1, Relies DEF KeepsOn
  <1>3. ASSUME NEW c \in Touches(t), c \notin disturbed', ~Removed(c)' PROVE Whole(c)'
    <2>1. c \notin disturbed /\ pc'[t] \notin Removing
      BY <1>1, <1>3 DEF Removed, Removing
    <2>2. Progress(t, c) /\ Whole(c)
      BY <1>3, <2>1, Relies DEF KeepsOn
    <2>3. QED
      BY <2>1, <2>2 DEF KeepsOn
  <1>4. Answers(t)
    BY <1>1, <1>2, <1>3 DEF Answers
  <1>5. QED
    BY <1>4, OwnStep DEF Steps

(* A request that returns.                                                 *)
KeepsWhole(t) ==
    /\ pc[t] \notin Removing
    /\ \A c \in Touches(t) : Progress(t, c) /\ Whole(c) => Whole(c)'

(* It leaves the tables together.                                          *)
LEMMA Returning ==
  ASSUME CatalogTypeOK, WholenessInv, NEW t \in Task, OthersStay(t), RestStays(t),
         Returns(t), KeepsWhole(t)
  PROVE  WholenessInv'
  <1>1. Touches(t)' = {} /\ disturbed' = disturbed
    BY DEF Returns
  <1>2. ASSUME NEW c \in Touches(t), c \notin disturbed' PROVE Whole(c)'
    BY <1>1, <1>2, Relies DEF KeepsWhole
  <1>3. Answers(t)
    BY <1>1, <1>2 DEF Answers
  <1>4. QED
    BY <1>3, OwnStep DEF Steps

(* A request that settles what it touches.                                 *)
MakesWhole(t) == \A c \in Touches(t) : Progress(t, c) => Whole(c)'

(* It leaves the tables together.                                          *)
LEMMA Settling ==
  ASSUME CatalogTypeOK, WholenessInv, NEW t \in Task, OthersStay(t), RestStays(t),
         Settles(t), MakesWhole(t)
  PROVE  WholenessInv'
  <1>1. Touches(t)' = {}
    BY DEF Settles
  <1>2. ASSUME NEW c \in Touches(t), c \notin disturbed' PROVE Whole(c)'
    <2>1. Sole(t, c)
      BY <1>2 DEF Settles, Sole
    <2>2. QED
      BY <2>1, Relies DEF MakesWhole
  <1>3. Answers(t)
    BY <1>1, <1>2 DEF Answers
  <1>4. QED
    BY <1>3, OwnStep DEF Steps

(* A request that arrives.                                                 *)
StartsWhole(t) ==
    \A c \in Touches(t)' : /\ Progress(t, c)'
                           /\ Whole(c) /\ pc'[t] \notin Removing => Whole(c)'

(* It leaves the tables together.                                          *)
LEMMA Arriving ==
  ASSUME CatalogTypeOK, CatalogTypeOK', WholenessInv, NEW t \in Task, OthersStay(t),
         RestStays(t), Arrives(t), StartsWhole(t)
  PROVE  WholenessInv'
  <1>1. Steps(t)
    BY DEF Steps
  <1>2. \A u \in Task : u # t =>
          /\ Touches(u)' = Touches(u)
          /\ \A c \in Touches(u) : c \in Touches(t)' => c \in disturbed'
    BY <1>1, OverlapsAreTold DEF WholenessInv
  <1>3. Touches(t)' \subseteq Conn /\ Touches(t) = {} /\ disturbed \subseteq disturbed'
    <2>1. Touches(t)' \subseteq Conn
      <3>1. /\ pc'[t] \in OnConn => Touches(t)' = {conn'[t]}
            /\ pc'[t] \in OnConns => Touches(t)' = On(slug'[t])
            /\ pc'[t] \notin OnConn \cup OnConns => Touches(t)' = {}
        BY TouchesNext
      <3>2. conn'[t] \in Conn
        BY DEF CatalogTypeOK
      <3>3. QED
        BY <3>1, <3>2 DEF On
    <2>2. QED
      BY <2>1 DEF Arrives, Overlap
  <1>4. ASSUME NEW c \in Touches(t)', c \notin disturbed', ~Removed(c)' PROVE Whole(c)'
    <2>1. pc'[t] \notin Removing
      BY <1>4 DEF Removed, Removing
    <2>2. ASSUME NEW u \in Task, c \in Touches(u) PROVE FALSE
      BY <1>2, <1>3, <1>4, <2>2
    <2>3. ~Removed(c)
      BY <2>2 DEF Removed
    <2>4. Whole(c)
      BY <1>3, <1>4, <2>3 DEF WholenessInv, WholeInv
    <2>5. QED
      BY <1>4, <2>1, <2>4 DEF StartsWhole
  <1>5. Answers(t)
    BY <1>3, <1>4 DEF Answers, StartsWhole
  <1>6. QED
    BY <1>1, <1>5, OwnStep

-----------------------------------------------------------------------------
(* The moves of a request are of these kinds *)

SameKind(p, q) == /\ p \in OnConn <=> q \in OnConn
                  /\ p \in OnConns <=> q \in OnConns

(* A request that moves to a point of the same kind goes on.               *)
LEMMA GotoGoesOn ==
  ASSUME CatalogTypeOK, NEW t \in Task, NEW point, Goto(t, point), SameKind(pc[t], point)
  PROVE  /\ OthersStay(t) /\ GoesOn(t)
         /\ pc'[t] = point /\ conn'[t] = conn[t] /\ slug'[t] = slug[t]
         /\ listing'[t] = listing[t]
  <1>1. /\ OthersStay(t)
        /\ pc'[t] = point /\ conn'[t] = conn[t] /\ slug'[t] = slug[t]
        /\ listing'[t] = listing[t]
        /\ UNCHANGED history
    BY DEF Goto, OthersStay, CatalogTypeOK
  <1>2. Touches(t)' = Touches(t)
    BY <1>1, TouchesNext, TouchesOfPoint DEF SameKind
  <1>3. QED
    BY <1>1, <1>2 DEF GoesOn

(* A request that is over touches nothing.                                 *)
LEMMA IdleTouches ==
  ASSUME CatalogTypeOK, NEW t \in Task, Idle(t)
  PROVE  /\ OthersStay(t) /\ Touches(t)' = {}
         /\ overlapped' = [overlapped EXCEPT ![t] = FALSE]
  <1>1. pc'[t] = "idle"
    BY DEF Idle, CatalogTypeOK
  <1>2. Touches(t)' = {}
    BY <1>1, TouchesNext DEF OnConn, OnConns
  <1>3. OthersStay(t)
    BY DEF Idle, OthersStay, CatalogTypeOK
  <1>4. QED
    BY <1>2, <1>3 DEF Idle

(* An error, or an end that leaves the tools alone.                        *)
LEMMA ReturnReturns ==
  ASSUME CatalogTypeOK, NEW t \in Task, Return(t)
  PROVE  OthersStay(t) /\ Returns(t)
  BY IdleTouches DEF Return, Returns

(* The end of a request that sets what it touches.                         *)
LEMMA SettledSettles ==
  ASSUME CatalogTypeOK, NEW t \in Task, Settled(t)
  PROVE  OthersStay(t) /\ Settles(t)
  BY IdleTouches DEF Settled, Settles

(* A request on one connection arrives.                                    *)
LEMMA BeginArrives ==
  ASSUME CatalogTypeOK, NEW t \in Task, NEW point \in OnConn, NEW c \in Conn,
         Begin(t, point, c)
  PROVE  /\ OthersStay(t) /\ Arrives(t)
         /\ Touches(t)' = {c} /\ pc'[t] = point
  <1>1. /\ pc[t] = "idle" /\ pc'[t] = point /\ conn'[t] = c
        /\ OthersStay(t)
    BY DEF Begin, OthersStay, CatalogTypeOK
  <1>2. Touches(t) = {} /\ Touches(t)' = {c}
    BY <1>1, TouchesNext, TouchesOfPoint DEF OnConn, OnConns
  <1>3. Overlap(t, {c})
    BY DEF Begin
  <1>4. QED
    BY <1>1, <1>2, <1>3 DEF Arrives

-----------------------------------------------------------------------------
(* Every step leaves the three tables together *)

(* Requests that change no table.                                          *)
LEMMA TablesRest ==
  ASSUME UNCHANGED tables, NEW t \in Task
  PROVE  RestStays(t) /\ \A c \in Conn : Whole(c)' <=> Whole(c)
  BY DEF tables, RestStays, Whole

(* Requests touch connections.                                             *)
LEMMA TouchesConns ==
  ASSUME CatalogTypeOK
  PROVE  \A t \in Task : Touches(t) \subseteq Conn
  BY TouchedType, Parts

(* A request arrives and has changed no table.                             *)
LEMMA BeginsQuietly ==
  ASSUME CatalogTypeOK, CatalogTypeOK', WholenessInv, NEW t \in Task, NEW c \in Conn,
         NEW point \in {"conn", "create", "ensure_put", "patch_put"},
         point = "patch_put" => c \in connections,
         Begin(t, point, c), UNCHANGED tables
  PROVE  WholenessInv'
  <1>1. /\ OthersStay(t) /\ Arrives(t)
        /\ Touches(t)' = {c} /\ pc'[t] = point
    BY BeginArrives DEF OnConn
  <1>2. connections' = connections
    BY DEF tables
  <1>3. Progress(t, c)'
    BY <1>1, <1>2, Zenon DEF Progress
  <1>4. RestStays(t) /\ StartsWhole(t)
    BY <1>1, <1>3, TablesRest DEF StartsWhole
  <1>5. QED
    BY <1>1, <1>4, Arriving

(* A request returns and has changed no table.                             *)
LEMMA ReturnsQuietly ==
  ASSUME CatalogTypeOK, WholenessInv, NEW t \in Task, pc[t] \notin Removing, Return(t),
         UNCHANGED tables
  PROVE  WholenessInv'
  <1>1. OthersStay(t) /\ Returns(t)
    BY ReturnReturns
  <1>2. RestStays(t) /\ KeepsWhole(t)
    BY TablesRest, TouchesConns DEF KeepsWhole
  <1>3. QED
    BY <1>1, <1>2, Returning

(* A request about one connection goes on without changing a table.        *)
LEMMA GoesOnQuietly ==
  ASSUME CatalogTypeOK, WholenessInv, NEW t \in Task, NEW point \in OnConn \ Removing,
         pc[t] \in OnConn \ Removing, Goto(t, point), UNCHANGED tables,
         Progress(t, conn[t]) => /\ point \in {"record", "count", "fetch", "replace"}
                                      => conn[t] \in connections
                                 /\ point \in {"count", "fetch", "replace", "create_check",
                                               "create_put"}
                                      => integrations[SlugOf[conn[t]]] # NoRow,
         point \notin {"insert", "patch_put"}
  PROVE  WholenessInv'
  <1>1. PICK c : c = conn[t]
    OBVIOUS
  <1>2. Touches(t) = {c} /\ c \in Conn
    BY <1>1, TouchesOfPoint DEF CatalogTypeOK
  <1>3. SameKind(pc[t], point)
    BY DEF SameKind, OnConn, OnConns, Removing
  <1>4. OthersStay(t) /\ GoesOn(t) /\ pc'[t] = point
    BY <1>3, GotoGoesOn
  <1>5. connections' = connections /\ integrations' = integrations
    BY DEF tables
  <1>6. Progress(t, c) => Progress(t, c)'
    <2> SUFFICES ASSUME Progress(t, c) PROVE Progress(t, c)'
      OBVIOUS
    <2>1. /\ point \in {"record", "count", "fetch", "replace"} => c \in connections
          /\ point \in {"count", "fetch", "replace", "create_check", "create_put"}
               => integrations[SlugOf[c]] # NoRow
      BY <1>1
    <2>2. point \notin {"unregister_tools", "remove_tools"}
      BY DEF Removing
    <2>3. QED
      BY <1>4, <1>5, <2>1, <2>2 DEF Progress
  <1>7. RestStays(t) /\ KeepsOn(t)
    BY <1>2, <1>4, <1>6, TablesRest DEF KeepsOn
  <1>8. QED
    BY <1>4, <1>7, GoingOn

(* A step that changes the tables of the request's connection only.        *)
LEMMA RestOfOne ==
  ASSUME CatalogTypeOK, NEW t \in Task, NEW c, Touches(t) = {c},
         \A d \in Conn : d # c => /\ d \in connections' <=> d \in connections
                                  /\ tools'[d] = tools[d],
         \A s \in Slug : integrations[s] # NoRow => integrations'[s] # NoRow
  PROVE  RestStays(t)
  BY CatalogAssumption DEF RestStays

(* A connection about which a request is at a point.                       *)
LEMMA AtPoint ==
  ASSUME CatalogTypeOK, NEW t \in Task, pc[t] \in OnConn
  PROVE  Touches(t) = {conn[t]} /\ conn[t] \in Conn
  BY TouchesOfPoint DEF CatalogTypeOK

(* The steps of a refresh up to the listing.                               *)
LEMMA ReadingWhole ==
  ASSUME CatalogTypeOK, CatalogTypeOK', WholenessInv, NEW t \in Task,
         \/ \E c \in Conn : RefreshConnection(t, c) \/ RunSpawned(t, c)
         \/ ReadConnection(t) \/ ReadRecord(t) \/ CountTools(t) \/ NotListed(t)
  PROVE  WholenessInv'
  <1>1. ASSUME NEW c \in Conn, RefreshConnection(t, c) \/ RunSpawned(t, c)
        PROVE  WholenessInv'
    <2>1. Begin(t, "conn", c) /\ UNCHANGED tables
      BY <1>1 DEF RefreshConnection, RunSpawned
    <2>2. QED
      BY <2>1, BeginsQuietly
  <1>2. CASE ReadConnection(t)
    <2>1. pc[t] = "conn" /\ UNCHANGED tables
      BY <1>2 DEF ReadConnection
    <2>2. \/ conn[t] \in connections /\ Goto(t, "record")
          \/ Return(t)
      BY <1>2 DEF ReadConnection
    <2>3. QED
      BY <2>1, <2>2, GoesOnQuietly, ReturnsQuietly DEF OnConn, Removing
  <1>3. CASE ReadRecord(t)
    <2>1. pc[t] = "record" /\ UNCHANGED tables
      BY <1>3 DEF ReadRecord
    <2>2. \/ integrations[SlugOf[conn[t]]] \in Loaded /\ Goto(t, "count")
          \/ Return(t)
      BY <1>3 DEF ReadRecord
    <2>3. CASE integrations[SlugOf[conn[t]]] \in Loaded /\ Goto(t, "count")
      <3>1. integrations[SlugOf[conn[t]]] # NoRow
        BY <2>3, CatalogAssumption
      <3>2. Progress(t, conn[t]) => conn[t] \in connections
        BY <2>1 DEF Progress
      <3>3. QED
        BY <2>1, <2>3, <3>1, <3>2, GoesOnQuietly DEF OnConn, Removing
    <2>4. QED
      BY <2>1, <2>2, <2>3, ReturnsQuietly DEF Removing
  <1>4. CASE CountTools(t)
    <2>1. pc[t] = "count" /\ UNCHANGED tables /\ (Goto(t, "fetch") \/ Return(t))
      BY <1>4 DEF CountTools
    <2>2. Progress(t, conn[t]) => /\ conn[t] \in connections
                                  /\ integrations[SlugOf[conn[t]]] # NoRow
      BY <2>1 DEF Progress
    <2>3. QED
      BY <2>1, <2>2, GoesOnQuietly, ReturnsQuietly DEF OnConn, Removing
  <1>5. CASE NotListed(t)
    BY <1>5, ReturnsQuietly DEF NotListed, Removing
  <1>6. QED
    BY <1>1, <1>2, <1>3, <1>4, <1>5

(* A listing comes back.                                                   *)
LEMMA ListedWhole ==
  ASSUME CatalogTypeOK, WholenessInv, NEW t \in Task, ToolsListed(t)
  PROVE  WholenessInv'
  <1>1. PICK c : c = conn[t]
    OBVIOUS
  <1>2. /\ pc[t] = "fetch" /\ pc'[t] = "replace" /\ UNCHANGED tables
        /\ UNCHANGED <<conn, slug, history>> /\ OthersStay(t)
    BY DEF ToolsListed, OthersStay, CatalogTypeOK
  <1>3. Touches(t) = {c} /\ c \in Conn /\ Touches(t)' = {c}
    BY <1>1, <1>2, AtPoint, TouchesNext DEF OnConn
  <1>4. connections' = connections /\ integrations' = integrations
    BY <1>2 DEF tables
  <1>5. Progress(t, c) => Progress(t, c)'
    BY <1>2, <1>4 DEF Progress
  <1>6. RestStays(t) /\ KeepsOn(t)
    BY <1>2, <1>3, <1>5, TablesRest DEF KeepsOn, Removing
  <1>7. QED
    BY <1>2, <1>3, <1>6, GoingOn DEF GoesOn

(* The listing is stored, in memory.                                       *)
LEMMA ReplaceWhole ==
  ASSUME CatalogTypeOK, MeasuredInv, WholenessInv, NEW t \in Task, ReplaceTools(t)
  PROVE  WholenessInv'
  <1>1. PICK c : c = conn[t]
    OBVIOUS
  <1>2. /\ pc[t] = "replace" /\ Settled(t)
        /\ tools' = [tools EXCEPT ![c] = listing[t]]
        /\ connections' = connections /\ integrations' = integrations
    BY <1>1 DEF ReplaceTools
  <1>3. Touches(t) = {c} /\ c \in Conn
    BY <1>1, <1>2, AtPoint DEF OnConn
  <1>4. OthersStay(t) /\ Settles(t)
    BY <1>2, SettledSettles
  <1>5. RestStays(t)
    BY <1>2, <1>3, RestOfOne DEF CatalogTypeOK
  <1>6. Progress(t, c) => Whole(c)'
    <2>1. tools'[c] = listing[t]
      BY <1>2, <1>3 DEF CatalogTypeOK
    <2>2. Cardinality(tools'[c]) <= MaxToolsPerConnection
      BY <2>1 DEF MeasuredInv
    <2>3. Progress(t, c) => c \in connections' /\ integrations'[SlugOf[c]] # NoRow
      BY <1>2 DEF Progress
    <2>4. QED
      BY <2>2, <2>3 DEF Whole
  <1>7. MakesWhole(t)
    BY <1>3, <1>6 DEF MakesWhole
  <1>8. QED
    BY <1>4, <1>5, <1>7, Settling

(* On SQLite the old tools go first,                                       *)
LEMMA ReplaceDeleteWhole ==
  ASSUME CatalogTypeOK, MeasuredInv, WholenessInv, NEW t \in Task, ReplaceDelete(t)
  PROVE  WholenessInv'
  <1>1. PICK c : c = conn[t]
    OBVIOUS
  <1>2. /\ pc[t] = "replace" /\ Goto(t, "insert")
        /\ tools' = [tools EXCEPT ![c] = {}]
        /\ connections' = connections /\ integrations' = integrations
    BY <1>1 DEF ReplaceDelete
  <1>3. Touches(t) = {c} /\ c \in Conn
    BY <1>1, <1>2, AtPoint DEF OnConn
  <1>4. /\ OthersStay(t) /\ GoesOn(t) /\ pc'[t] = "insert"
        /\ listing'[t] = listing[t]
    BY <1>2, GotoGoesOn DEF SameKind, OnConn, OnConns
  <1>5. RestStays(t)
    BY <1>2, <1>3, RestOfOne DEF CatalogTypeOK
  <1>6. tools'[c] = {} /\ Cardinality(tools'[c]) = 0
    BY <1>2, <1>3, FS_EmptySet DEF CatalogTypeOK
  <1>7. Progress(t, c) => Progress(t, c)' /\ (Whole(c) => Whole(c)')
    <2> SUFFICES ASSUME Progress(t, c) PROVE Progress(t, c)' /\ (Whole(c) => Whole(c)')
      OBVIOUS
    <2>1. c \in connections' /\ integrations'[SlugOf[c]] # NoRow
      BY <1>2 DEF Progress
    <2>2. Cardinality(listing'[t]) <= MaxToolsPerConnection /\ Cardinality(listing'[t]) \in Nat
      BY <1>4, MeasuredSizes DEF MeasuredInv, SizesOK
    <2>3. Cardinality(tools'[c]) + Cardinality(listing'[t]) <= MaxToolsPerConnection
      BY <1>6, <2>2
    <2>4. Progress(t, c)'
      BY <1>4, <2>1, <2>3 DEF Progress
    <2>5. Whole(c)'
      BY <1>6, <2>1, NoneIsWithin DEF Whole
    <2>6. QED
      BY <2>4, <2>5
  <1>8. KeepsOn(t)
    BY <1>2, <1>3, <1>7 DEF KeepsOn, Removing
  <1>9. QED
    BY <1>4, <1>5, <1>8, GoingOn

(* and the new ones come one by one.                                       *)
LEMMA InsertWhole ==
  ASSUME CatalogTypeOK, MeasuredInv, WholenessInv, NEW t \in Task, ReplaceInsert(t)
  PROVE  WholenessInv'
  <1>1. PICK n \in listing[t] :
          IF n \in tools[conn[t]]
            THEN Return(t) /\ UNCHANGED tools
            ELSE /\ tools' = [tools EXCEPT ![conn[t]] = @ \cup {n}]
                 /\ listing' = [listing EXCEPT ![t] = @ \ {n}]
                 /\ UNCHANGED <<pc, conn, slug, row, history>>
    BY DEF ReplaceInsert
  <1>2. /\ pc[t] = "insert" /\ backend' = backend
        /\ connections' = connections /\ integrations' = integrations
    BY DEF ReplaceInsert
  <1>3. CASE n \in tools[conn[t]]
    <2>1. Return(t) /\ UNCHANGED tables
      BY <1>1, <1>2, <1>3 DEF tables
    <2>2. QED
      BY <1>2, <2>1, ReturnsQuietly DEF Removing
  <1>4. CASE n \notin tools[conn[t]]
    <2>1. PICK c : c = conn[t]
      OBVIOUS
    <2>2. Touches(t) = {c} /\ c \in Conn
      BY <1>2, <2>1, AtPoint DEF OnConn
    <2>3. /\ pc' = pc /\ conn' = conn /\ slug' = slug /\ UNCHANGED history
          /\ listing'[t] = listing[t] \ {n} /\ tools'[c] = tools[c] \cup {n}
          /\ OthersStay(t)
          /\ \A d \in Conn : d # c => tools'[d] = tools[d]
      BY <1>1, <1>4, <2>1, <2>2 DEF CatalogTypeOK, OthersStay
    <2>4. Touches(t)' = Touches(t)
      BY <2>3, TouchesSame
    <2>5. /\ Cardinality(tools'[c]) = Cardinality(tools[c]) + 1
          /\ Cardinality(listing'[t]) = Cardinality(listing[t]) - 1
      <3>1. IsFiniteSet(tools[c]) /\ IsFiniteSet(listing[t])
        BY <2>2 DEF MeasuredInv
      <3>2. n \notin tools[c] /\ n \in listing[t]
        BY <1>4, <2>1
      <3>3. Cardinality(tools[c] \cup {n}) = Cardinality(tools[c]) + 1
        BY <3>1, <3>2, FS_AddElement
      <3>4. Cardinality(listing[t] \ {n}) = Cardinality(listing[t]) - 1
        BY <3>1, <3>2, FS_RemoveElement
      <3>5. QED
        BY <2>3, <3>3, <3>4
    <2>6. /\ Cardinality(tools[c]) \in Nat /\ Cardinality(listing[t]) \in Nat
          /\ Cardinality(listing[t]) >= 1
      <3>1. /\ Cardinality(tools[c]) \in Nat /\ Cardinality(listing[t]) \in Nat
        BY <2>2, MeasuredSizes DEF SizesOK
      <3>2. IsFiniteSet(listing[t] \ {n})
        BY FS_RemoveElement DEF MeasuredInv
      <3>3. Cardinality(listing'[t]) \in Nat
        BY <2>3, <3>2, FS_CardinalityType
      <3>4. QED
        BY <2>5, <3>1, <3>3
    <2>7. RestStays(t)
      BY <1>2, <2>2, <2>3, RestOfOne
    <2>8. Progress(t, c) => Progress(t, c)' /\ Whole(c)'
      <3> SUFFICES ASSUME Progress(t, c) PROVE Progress(t, c)' /\ Whole(c)'
        OBVIOUS
      <3>1. /\ c \in connections' /\ integrations'[SlugOf[c]] # NoRow
            /\ Cardinality(tools[c]) + Cardinality(listing[t]) <= MaxToolsPerConnection
        BY <1>2 DEF Progress
      <3>2. /\ Cardinality(tools'[c]) + Cardinality(listing'[t]) <= MaxToolsPerConnection
            /\ Cardinality(tools'[c]) <= MaxToolsPerConnection
        BY <2>5, <2>6, <3>1, CatalogAssumption
      <3>3. Progress(t, c)'
        BY <1>2, <2>3, <3>1, <3>2 DEF Progress
      <3>4. Whole(c)'
        BY <3>1, <3>2 DEF Whole
      <3>5. QED
        BY <3>3, <3>4
    <2>9. KeepsOn(t)
      BY <1>2, <2>2, <2>3, <2>8 DEF KeepsOn, Removing
    <2>10. QED
      BY <2>3, <2>4, <2>7, <2>9, GoingOn DEF GoesOn
  <1>5. QED
    BY <1>3, <1>4

(* When the last tool is in, the connection is settled.                    *)
LEMMA ReplaceDoneWhole ==
  ASSUME CatalogTypeOK, MeasuredInv, WholenessInv, NEW t \in Task, ReplaceDone(t)
  PROVE  WholenessInv'
  <1>1. PICK c : c = conn[t]
    OBVIOUS
  <1>2. pc[t] = "insert" /\ listing[t] = {} /\ Settled(t) /\ UNCHANGED tables
    BY DEF ReplaceDone
  <1>3. Touches(t) = {c} /\ c \in Conn
    BY <1>1, <1>2, AtPoint DEF OnConn
  <1>4. OthersStay(t) /\ Settles(t)
    BY <1>2, SettledSettles
  <1>5. Progress(t, c) => Whole(c)
    <2>1. Cardinality(listing[t]) = 0 /\ Cardinality(tools[c]) \in Nat
      BY <1>2, <1>3, FS_EmptySet, MeasuredSizes DEF SizesOK
    <2>2. Progress(t, c) => Cardinality(tools[c]) <= MaxToolsPerConnection
      BY <1>2, <2>1, CatalogAssumption DEF Progress
    <2>3. QED
      BY <1>2, <2>2 DEF Progress, Whole
  <1>6. RestStays(t) /\ MakesWhole(t)
    BY <1>2, <1>3, <1>5, TablesRest DEF MakesWhole
  <1>7. QED
    BY <1>4, <1>6, Settling

(* Every step of refresh_connection leaves the three tables together.      *)
LEMMA RefreshWhole ==
  ASSUME CatalogTypeOK, CatalogTypeOK', MeasuredInv, WholenessInv, NEW t \in Task, Refresh(t)
  PROVE  WholenessInv'
  BY ReadingWhole, ListedWhole, ReplaceWhole, ReplaceDeleteWhole, InsertWhole,
     ReplaceDoneWhole DEF Refresh

(* A connection is created in four steps, after its integration.           *)
LEMMA CreatingWhole ==
  ASSUME CatalogTypeOK, CatalogTypeOK', WholenessInv, NEW t \in Task,
         \/ \E c \in Conn : CreateOverHttp(t, c) \/ CreateByTool(t, c)
         \/ EnsureProviderPut(t) \/ CreateConnection(t) \/ CreateCheck(t) \/ CreatePut(t)
  PROVE  WholenessInv'
  <1>1. ASSUME NEW c \in Conn, CreateOverHttp(t, c) \/ CreateByTool(t, c)
        PROVE  WholenessInv'
    <2>1. /\ UNCHANGED tables
          /\ Begin(t, "create", c) \/ Begin(t, "ensure_put", c)
      BY <1>1 DEF CreateOverHttp, CreateByTool
    <2>2. QED
      BY <2>1, BeginsQuietly
  <1>2. CASE EnsureProviderPut(t)
    <2>1. PICK c : c = conn[t]
      OBVIOUS
    <2>2. /\ pc[t] = "ensure_put" /\ Goto(t, "create")
          /\ connections' = connections /\ tools' = tools
          /\ integrations' = [integrations EXCEPT ![SlugOf[c]] = ProviderRow]
      BY <1>2, <2>1 DEF EnsureProviderPut
    <2>3. Touches(t) = {c} /\ c \in Conn
      BY <2>1, <2>2, AtPoint DEF OnConn
    <2>4. OthersStay(t) /\ GoesOn(t) /\ pc'[t] = "create"
      BY <2>2, GotoGoesOn DEF SameKind, OnConn, OnConns
    <2>5. \A s \in Slug : integrations[s] # NoRow => integrations'[s] # NoRow
      BY <2>2, CatalogAssumption DEF CatalogTypeOK
    <2>6. RestStays(t)
      BY <2>2, <2>3, <2>5, RestOfOne
    <2>7. Progress(t, c)'
      BY <2>4, Zenon DEF Progress
    <2>8. Whole(c) => Whole(c)'
      BY <2>2, <2>3, <2>5, CatalogAssumption DEF Whole
    <2>9. KeepsOn(t)
      BY <2>2, <2>3, <2>7, <2>8 DEF KeepsOn, Removing
    <2>10. QED
      BY <2>4, <2>6, <2>9, GoingOn
  <1>3. CASE CreateConnection(t)
    <2>1. pc[t] = "create" /\ UNCHANGED tables
      BY <1>3 DEF CreateConnection
    <2>2. \/ integrations[SlugOf[conn[t]]] # NoRow /\ Goto(t, "create_check")
          \/ Return(t)
      BY <1>3 DEF CreateConnection
    <2>3. QED
      BY <2>1, <2>2, GoesOnQuietly, ReturnsQuietly DEF OnConn, Removing
  <1>4. CASE CreateCheck(t)
    <2>1. pc[t] = "create_check" /\ UNCHANGED tables /\ (Goto(t, "create_put") \/ Return(t))
      BY <1>4 DEF CreateCheck
    <2>2. Progress(t, conn[t]) => integrations[SlugOf[conn[t]]] # NoRow
      BY <2>1 DEF Progress
    <2>3. QED
      BY <2>1, <2>2, GoesOnQuietly, ReturnsQuietly DEF OnConn, Removing
  <1>5. CASE CreatePut(t)
    <2>1. PICK c : c = conn[t]
      OBVIOUS
    <2>2. /\ pc[t] = "create_put" /\ Goto(t, "conn")
          /\ connections' = connections \cup {c}
          /\ tools' = tools /\ integrations' = integrations
      BY <1>5, <2>1 DEF CreatePut
    <2>3. Touches(t) = {c} /\ c \in Conn
      BY <2>1, <2>2, AtPoint DEF OnConn
    <2>4. OthersStay(t) /\ GoesOn(t) /\ pc'[t] = "conn"
      BY <2>2, GotoGoesOn DEF SameKind, OnConn, OnConns
    <2>5. RestStays(t)
      BY <2>2, <2>3, RestOfOne
    <2>6. Progress(t, c)'
      BY <2>4, Zenon DEF Progress
    <2>7. Progress(t, c) /\ Whole(c) => Whole(c)'
      BY <2>2 DEF Progress, Whole
    <2>8. KeepsOn(t)
      BY <2>2, <2>3, <2>6, <2>7 DEF KeepsOn, Removing
    <2>9. QED
      BY <2>4, <2>5, <2>8, GoingOn
  <1>6. QED
    BY <1>1, <1>2, <1>3, <1>4, <1>5

(* A connection is patched: read and written back.                         *)
LEMMA PatchingWhole ==
  ASSUME CatalogTypeOK, CatalogTypeOK', WholenessInv, NEW t \in Task,
         (\E c \in Conn : PatchConnection(t, c)) \/ PatchPut(t)
  PROVE  WholenessInv'
  <1>1. ASSUME NEW c \in Conn, PatchConnection(t, c) PROVE WholenessInv'
    <2>1. /\ UNCHANGED tables /\ c \in connections
          /\ Begin(t, "patch_put", c)
      BY <1>1 DEF PatchConnection
    <2>2. QED
      BY <2>1, BeginsQuietly
  <1>2. CASE PatchPut(t)
    <2>1. PICK c : c = conn[t]
      OBVIOUS
    <2>2. /\ pc[t] = "patch_put" /\ Return(t)
          /\ connections' = connections \cup {c}
          /\ tools' = tools /\ integrations' = integrations
      BY <1>2, <2>1 DEF PatchPut
    <2>3. Touches(t) = {c} /\ c \in Conn
      BY <2>1, <2>2, AtPoint DEF OnConn
    <2>4. OthersStay(t) /\ Returns(t)
      BY <2>2, ReturnReturns
    <2>5. RestStays(t)
      BY <2>2, <2>3, RestOfOne
    <2>6. Progress(t, c) /\ Whole(c) => Whole(c)'
      BY <2>2 DEF Progress, Whole
    <2>7. KeepsWhole(t)
      BY <2>2, <2>3, <2>6 DEF KeepsWhole, Removing
    <2>8. QED
      BY <2>4, <2>5, <2>7, Returning
  <1>3. QED
    BY <1>1, <1>2

(* A connection is removed on SQLite, in two statements.                   *)
LEMMA DeletingWhole ==
  ASSUME CatalogTypeOK, CatalogTypeOK', WholenessInv, NEW t \in Task,
         (\E c \in Conn : DeleteConnection(t, c)) \/ DeleteItsTools(t)
  PROVE  WholenessInv'
  <1>1. ASSUME NEW c \in Conn, DeleteConnection(t, c) PROVE WholenessInv'
    <2>1. /\ connections' = connections \ {c} /\ Begin(t, "remove_tools", c)
          /\ tools' = tools /\ integrations' = integrations
      BY <1>1 DEF DeleteConnection
    <2>2. /\ OthersStay(t) /\ Arrives(t)
          /\ Touches(t)' = {c} /\ pc'[t] = "remove_tools"
      BY <2>1, BeginArrives DEF OnConn
    <2>3. RestStays(t)
      BY <2>1, <2>2 DEF RestStays
    <2>4. Progress(t, c)'
      <3>1. c \notin connections'
        BY <2>1
      <3>2. QED
        BY <2>2, <3>1, Zenon DEF Progress
    <2>5. StartsWhole(t)
      BY <2>2, <2>4 DEF StartsWhole, Removing
    <2>6. QED
      BY <2>2, <2>3, <2>5, Arriving
  <1>2. CASE DeleteItsTools(t)
    <2>1. PICK c : c = conn[t]
      OBVIOUS
    <2>2. /\ pc[t] = "remove_tools" /\ Settled(t)
          /\ tools' = [tools EXCEPT ![c] = {}]
          /\ connections' = connections /\ integrations' = integrations
      BY <1>2, <2>1 DEF DeleteItsTools
    <2>3. Touches(t) = {c} /\ c \in Conn
      BY <2>1, <2>2, AtPoint DEF OnConn
    <2>4. OthersStay(t) /\ Settles(t)
      BY <2>2, SettledSettles
    <2>5. RestStays(t)
      BY <2>2, <2>3, RestOfOne DEF CatalogTypeOK
    <2>6. tools'[c] = {}
      BY <2>2, <2>3 DEF CatalogTypeOK
    <2>7. Progress(t, c) => Whole(c)'
      BY <2>2, <2>6, NoneIsWithin DEF Progress, Whole
    <2>8. MakesWhole(t)
      BY <2>3, <2>7 DEF MakesWhole
    <2>9. QED
      BY <2>4, <2>5, <2>8, Settling
  <1>3. QED
    BY <1>1, <1>2

(* A connection is removed at once, in memory.                             *)
LEMMA RemovingWhole ==
  ASSUME CatalogTypeOK, WholenessInv, NEW t \in Task, NEW c \in Conn,
         RemoveConnectionMemory(t, c)
  PROVE  WholenessInv'
  <1>1. /\ connections' = connections \ {c} /\ integrations' = integrations
        /\ UNCHANGED request
        /\ tools'[c] = {} /\ \A d \in Conn : d # c => tools'[d] = tools[d]
    BY DEF RemoveConnectionMemory, CatalogTypeOK
  <1>2. PICK others : others = {u \in Task : c \in Touches(u)}
    OBVIOUS
  <1>3. /\ overlapped' = [u \in Task |-> overlapped[u] \/ u \in others]
        /\ disturbed' = IF others = {} THEN disturbed \ {c} ELSE disturbed \cup {c}
    BY <1>2 DEF RemoveConnectionMemory
  <1>4. /\ \A u \in Task : Touches(u)' = Touches(u) /\ Touches(u) \subseteq Conn
        /\ pc' = pc /\ listing' = listing
    BY <1>1, TouchesSame, TouchesConns DEF request
  <1>5. \A u \in Task : overlapped[u] => overlapped'[u]
    BY <1>3
  <1>6. \A u \in Task : \A d \in Touches(u) :
          /\ d \in disturbed => d \in disturbed'
          /\ d = c => overlapped'[u] /\ d \in disturbed'
    BY <1>2, <1>3
  <1>7. SharedInv'
    <2>1. ASSUME NEW u \in Task, NEW v \in Task, u # v,
                 NEW d \in Touches(u)' \cap Touches(v)'
          PROVE  overlapped'[u] /\ d \in disturbed'
      <3>1. d \in Touches(u) \cap Touches(v)
        BY <1>4, <2>1
      <3>2. overlapped[u] /\ d \in disturbed
        BY <2>1, <3>1 DEF WholenessInv, SharedInv
      <3>3. QED
        BY <1>5, <1>6, <3>1, <3>2
    <2>2. QED
      BY <2>1 DEF SharedInv
  <1>8. ASSUME NEW u \in Task, NEW d \in Touches(u)', Sole(u, d)' PROVE Progress(u, d)'
    <2>1. d \in Touches(u) /\ d \in Conn
      BY <1>4, <1>8
    <2>2. d # c
      BY <1>6, <1>8, <2>1 DEF Sole
    <2>3. Sole(u, d)
      BY <1>5, <1>6, <1>8, <2>1 DEF Sole
    <2>4. Progress(u, d)
      BY <2>1, <2>3 DEF WholenessInv, ProgressInv
    <2>5. /\ d \in connections' <=> d \in connections
          /\ tools'[d] = tools[d] /\ integrations' = integrations
      BY <1>1, <2>1, <2>2
    <2>6. QED
      BY <1>4, <2>4, <2>5, Zenon DEF Progress
  <1>9. ASSUME NEW d \in Conn, d \notin disturbed', ~Removed(d)' PROVE Whole(d)'
    <2>1. CASE d = c
      BY <1>1, <2>1, NoneIsWithin DEF Whole
    <2>2. CASE d # c
      <3>1. ~Removed(d)
        BY <1>4, <1>9 DEF Removed, Removing
      <3>2. d \notin disturbed
        BY <1>3, <1>9, <2>2
      <3>3. Whole(d)
        BY <3>1, <3>2 DEF WholenessInv, WholeInv
      <3>4. QED
        BY <1>1, <2>2, <3>3 DEF Whole
    <2>3. QED
      BY <2>1, <2>2
  <1>10. QED
    BY <1>7, <1>8, <1>9 DEF WholenessInv, ProgressInv, WholeInv

(* Every step that edits a connection leaves the three tables together.    *)
LEMMA EditWhole ==
  ASSUME CatalogTypeOK, CatalogTypeOK', WholenessInv, NEW t \in Task, Edit(t)
  PROVE  WholenessInv'
  BY CreatingWhole, PatchingWhole, DeletingWhole, RemovingWhole DEF Edit

(* An integration is put: every connection that had one still has.         *)
LEMMA PutWhole ==
  ASSUME CatalogTypeOK, WholenessInv, NEW t \in Task,
         \/ \E s \in Slug : (\E r \in Record : Register(t, s, r)) \/ PatchConfig(t, s)
         \/ RegisterPut(t) \/ PatchConfigPut(t) \/ PatchConfigRefresh(t)
  PROVE  WholenessInv'
  <1>1. CASE \E s \in Slug : (\E r \in Record : Register(t, s, r)) \/ PatchConfig(t, s)
    <2>1. /\ pc[t] = "idle" /\ pc'[t] \in {"register_put", "config_put"}
          /\ OthersStay(t) /\ UNCHANGED tables /\ UNCHANGED history
      BY <1>1 DEF Register, PatchConfig, OthersStay, CatalogTypeOK
    <2>2. Touches(t) = {} /\ Touches(t)' = {}
      BY <2>1, TouchesOfPoint, TouchesNext DEF OnConn, OnConns
    <2>3. GoesOn(t) /\ RestStays(t) /\ KeepsOn(t)
      BY <2>1, <2>2, TablesRest DEF GoesOn, KeepsOn, Removing
    <2>4. QED
      BY <2>1, <2>3, GoingOn
  <1>2. CASE RegisterPut(t) \/ PatchConfigPut(t) \/ PatchConfigRefresh(t)
    <2>1. /\ pc[t] \in OnRow /\ connections' = connections /\ tools' = tools
          /\ \/ integrations' = integrations
             \/ integrations' = [integrations EXCEPT ![slug[t]] = row[t]]
          /\ Return(t) \/ Goto(t, "config_list")
      BY <1>2 DEF RegisterPut, PatchConfigPut, PatchConfigRefresh, OnRow, tables
    <2>2. \A s \in Slug : integrations[s] # NoRow => integrations'[s] # NoRow
      BY <2>1 DEF CatalogTypeOK
    <2>3. Touches(t) = {} /\ pc[t] \notin Removing
      BY <2>1, TouchesOfPoint DEF OnRow, OnConn, OnConns, Removing
    <2>4. RestStays(t)
      BY <2>1, <2>2, CatalogAssumption DEF RestStays
    <2>5. CASE Return(t)
      <3>1. KeepsWhole(t)
        BY <2>3 DEF KeepsWhole
      <3>2. QED
        BY <2>4, <2>5, <3>1, ReturnReturns, Returning
    <2>6. CASE Goto(t, "config_list")
      <3>1. SameKind(pc[t], "config_list")
        BY <2>1 DEF SameKind, OnRow, OnConn, OnConns
      <3>2. OthersStay(t) /\ GoesOn(t) /\ KeepsOn(t)
        BY <2>3, <2>6, <3>1, GotoGoesOn DEF KeepsOn
      <3>3. QED
        BY <2>4, <3>2, GoingOn
    <2>7. QED
      BY <2>1, <2>5, <2>6
  <1>3. QED
    BY <1>1, <1>2

(* A step that changes the tables of the request's integration only.       *)
LEMMA RestOfSlug ==
  ASSUME CatalogTypeOK, NEW t \in Task, NEW s \in Slug,
         Touches(t) = On(s) \/ Touches(t)' = On(s),
         \A d \in Conn : d \notin On(s) => /\ d \in connections' <=> d \in connections
                                           /\ tools'[d] = tools[d],
         \A x \in Slug : x # s => integrations'[x] = integrations[x]
  PROVE  RestStays(t)
  <1> SUFFICES ASSUME NEW d \in Conn, d \notin Touches(t) \cup Touches(t)'
               PROVE  /\ d \in connections' <=> d \in connections
                      /\ tools'[d] = tools[d]
                      /\ integrations[SlugOf[d]] # NoRow => integrations'[SlugOf[d]] # NoRow
    BY DEF RestStays
  <1>1. d \notin On(s)
    OBVIOUS
  <1>2. SlugOf[d] # s /\ SlugOf[d] \in Slug
    BY <1>1, CatalogAssumption DEF On
  <1>3. QED
    BY <1>1, <1>2

(* An integration is removed: its connections are on their way out.        *)
LEMMA UnregisterWhole ==
  ASSUME CatalogTypeOK, CatalogTypeOK', WholenessInv, NEW t \in Task,
         \/ \E s \in Slug : RemoveIntegration(t, s)
         \/ RemoveIntegrationMemory(t)
         \/ DeleteIntegration(t) \/ DeleteConnections(t) \/ DeleteTools(t)
  PROVE  WholenessInv'
  <1>1. ASSUME NEW s \in Slug, RemoveIntegration(t, s) PROVE WholenessInv'
    <2>1. /\ pc[t] = "idle" /\ pc'[t] = "unregister" /\ slug'[t] = s
          /\ OthersStay(t) /\ UNCHANGED tables /\ Overlap(t, On(s))
      BY <1>1 DEF RemoveIntegration, OthersStay, CatalogTypeOK
    <2>2. Touches(t) = {} /\ Touches(t)' = On(s)
      BY <2>1, TouchesOfPoint, TouchesNext DEF OnConn, OnConns
    <2>3. \A c : Progress(t, c)'
      BY <2>1, Zenon DEF Progress
    <2>4. RestStays(t) /\ StartsWhole(t)
      BY <2>1, <2>2, <2>3, TablesRest DEF StartsWhole, On
    <2>5. Arrives(t)
      BY <2>1, <2>2 DEF Arrives
    <2>6. QED
      BY <2>1, <2>4, <2>5, Arriving
  <1>2. PICK s \in Slug : s = slug[t]
    BY DEF CatalogTypeOK
  <1>3. pc[t] \in OnConns => Touches(t) = On(s)
    BY <1>2, TouchesOfPoint
  <1>4. CASE RemoveIntegrationMemory(t)
    <2>1. /\ pc[t] = "unregister" /\ Settled(t)
          /\ integrations' = [integrations EXCEPT ![s] = NoRow]
          /\ connections' = connections \ On(s)
          /\ tools' = [c \in Conn |-> IF c \in On(s) THEN {} ELSE tools[c]]
      BY <1>2, <1>4 DEF RemoveIntegrationMemory
    <2>2. Touches(t) = On(s)
      BY <1>3, <2>1 DEF OnConns
    <2>3. RestStays(t)
      BY <2>1, <2>2, RestOfSlug DEF CatalogTypeOK
    <2>4. ASSUME NEW c \in On(s) PROVE Whole(c)'
      BY <2>1, NoneIsWithin DEF Whole, On
    <2>5. MakesWhole(t)
      BY <2>2, <2>4 DEF MakesWhole
    <2>6. QED
      BY <2>1, <2>3, <2>5, SettledSettles, Settling
  <1>5. CASE DeleteIntegration(t) \/ DeleteConnections(t)
    <2>1. /\ pc[t] \in {"unregister", "unregister_conns"} /\ tools' = tools
          /\ \A x \in Slug : x # s => integrations'[x] = integrations[x]
          /\ \/ connections' = connections /\ Goto(t, "unregister_conns")
             \/ connections' = connections \ On(s) /\ Goto(t, "unregister_tools")
      BY <1>2, <1>5 DEF DeleteIntegration, DeleteConnections, CatalogTypeOK
    <2>2. Touches(t) = On(s)
      BY <1>3, <2>1 DEF OnConns
    <2>3. RestStays(t)
      BY <2>1, <2>2, RestOfSlug
    <2>4. /\ OthersStay(t) /\ GoesOn(t)
          /\ \/ pc'[t] = "unregister_conns"
             \/ pc'[t] = "unregister_tools" /\ connections' = connections \ On(s)
      BY <2>1, GotoGoesOn DEF SameKind, OnConn, OnConns
    <2>5. ASSUME NEW c \in On(s) PROVE Progress(t, c)'
      <3>1. pc'[t] = "unregister_tools" => c \notin connections'
        BY <2>4
      <3>2. /\ pc'[t] \notin {"record", "count", "fetch", "replace", "insert", "patch_put"}
            /\ pc'[t] \notin {"count", "fetch", "replace", "insert", "create_check",
                              "create_put"}
            /\ pc'[t] # "insert" /\ pc'[t] # "remove_tools"
        BY <2>4
      <3>3. QED
        BY <3>1, <3>2 DEF Progress
    <2>6. KeepsOn(t)
      BY <2>2, <2>4, <2>5 DEF KeepsOn, Removing
    <2>7. QED
      BY <2>3, <2>4, <2>6, GoingOn
  <1>6. CASE DeleteTools(t)
    <2>1. /\ pc[t] = "unregister_tools" /\ Settled(t)
          /\ integrations' = integrations /\ connections' = connections
          /\ tools' = [c \in Conn |-> IF c \in On(s) THEN {} ELSE tools[c]]
      BY <1>2, <1>6 DEF DeleteTools
    <2>2. Touches(t) = On(s)
      BY <1>3, <2>1 DEF OnConns
    <2>3. RestStays(t)
      BY <2>1, <2>2, RestOfSlug DEF CatalogTypeOK
    <2>4. ASSUME NEW c \in On(s), Progress(t, c) PROVE Whole(c)'
      <3>1. c \notin connections' /\ tools'[c] = {}
        BY <2>1, <2>4 DEF Progress, On
      <3>2. QED
        BY <3>1, NoneIsWithin DEF Whole
    <2>5. MakesWhole(t)
      BY <2>2, <2>4 DEF MakesWhole
    <2>6. QED
      BY <2>1, <2>3, <2>5, SettledSettles, Settling
  <1>7. QED
    BY <1>1, <1>4, <1>5, <1>6

(* So does every step that edits an integration.                           *)
LEMMA ConfigureWhole ==
  ASSUME CatalogTypeOK, CatalogTypeOK', WholenessInv, NEW t \in Task, Configure(t)
  PROVE  WholenessInv'
  BY PutWhole, UnregisterWhole DEF Configure

(* After the end of the process nothing is under way, and what was, is     *)
(* known to be disturbed.                                                  *)
LEMMA CrashWhole ==
  ASSUME CatalogTypeOK, WholenessInv, Crash
  PROVE  WholenessInv'
  <1>1. \A t \in Task : pc'[t] = "idle"
    BY DEF Crash
  <1>2. \A t \in Task : Touches(t)' = {}
    BY <1>1, TouchesNext DEF OnConn, OnConns
  <1>3. ASSUME NEW c \in Conn, c \notin disturbed' PROVE Whole(c)'
    <2>1. CASE backend = "sqlite"
      <3>1. UNCHANGED tables /\ disturbed' = disturbed \cup UNION {Touches(t) : t \in Task}
        BY <2>1 DEF Crash
      <3>2. c \notin disturbed /\ \A t \in Task : c \notin Touches(t)
        BY <1>3, <3>1
      <3>3. ~Removed(c)
        BY <3>2 DEF Removed
      <3>4. Whole(c)
        BY <3>2, <3>3 DEF WholenessInv, WholeInv
      <3>5. QED
        BY <3>1, <3>4 DEF Whole, tables
    <2>2. CASE backend # "sqlite"
      <3>1. connections' = {} /\ tools'[c] = {}
        BY <2>2 DEF Crash, NoTools
      <3>2. QED
        BY <3>1, NoneIsWithin DEF Whole
    <2>3. QED
      BY <2>1, <2>2
  <1>4. QED
    BY <1>2, <1>3 DEF WholenessInv, SharedInv, ProgressInv, WholeInv

CatalogInv == MeasuredInv /\ SizeInv /\ WholenessInv

(* Every step of the catalog leaves the three tables together.             *)
LEMMA NextWhole ==
  CatalogTypeOK /\ CatalogTypeOK' /\ MeasuredInv /\ WholenessInv /\ [CatalogNext]_catalogVars
    => WholenessInv'
  <1> SUFFICES ASSUME CatalogTypeOK, CatalogTypeOK', MeasuredInv, WholenessInv,
                      [CatalogNext]_catalogVars
               PROVE  WholenessInv'
    OBVIOUS
  <1>1. CASE \E t \in Task : Refresh(t) \/ Edit(t) \/ Configure(t)
    BY <1>1, RefreshWhole, EditWhole, ConfigureWhole
  <1>2. CASE \/ \E s \in Slug, r \in Record : RegisterIntegration(s, r)
             \/ UNCHANGED catalogVars
    <2>1. /\ UNCHANGED <<pc, conn, slug, listing, overlapped, disturbed, connections, tools>>
          /\ \A x \in Slug : integrations[x] # NoRow => integrations'[x] # NoRow
      BY <1>2, CatalogAssumption
      DEF RegisterIntegration, catalogVars, request, history, CatalogTypeOK
    <2>2. \A t \in Task : Touches(t)' = Touches(t) /\ Touches(t) \subseteq Conn
      BY <2>1, TouchesSame, TouchesConns
    <2>3. SharedInv'
      BY <2>1, <2>2 DEF WholenessInv, SharedInv
    <2>4. \A c \in Conn : integrations[SlugOf[c]] # NoRow => integrations'[SlugOf[c]] # NoRow
      BY <2>1, CatalogAssumption
    <2>5. ASSUME NEW t \in Task, NEW c \in Touches(t)', Sole(t, c)' PROVE Progress(t, c)'
      <3>1. c \in Touches(t) /\ c \in Conn /\ Sole(t, c)
        BY <2>1, <2>2, <2>5 DEF Sole
      <3>2. Progress(t, c)
        BY <3>1 DEF WholenessInv, ProgressInv
      <3>3. integrations[SlugOf[c]] # NoRow => integrations'[SlugOf[c]] # NoRow
        BY <2>4, <3>1
      <3>4. QED
        BY <2>1, <3>2, <3>3, Zenon DEF Progress
    <2>6. ASSUME NEW c \in Conn, c \notin disturbed', ~Removed(c)' PROVE Whole(c)'
      <3>1. c \notin disturbed /\ ~Removed(c)
        BY <2>1, <2>2, <2>6 DEF Removed, Removing
      <3>2. Whole(c)
        BY <3>1 DEF WholenessInv, WholeInv
      <3>3. QED
        BY <2>1, <2>4, <3>2 DEF Whole
    <2>7. QED
      BY <2>3, <2>5, <2>6 DEF WholenessInv, ProgressInv, WholeInv
  <1>3. CASE Crash
    BY <1>3, CrashWhole
  <1>4. QED
    BY <1>1, <1>2, <1>3 DEF CatalogNext

(* A catalog without anything is whole.                                    *)
LEMMA InitWhole == CatalogInit => WholenessInv
  <1> SUFFICES ASSUME CatalogInit PROVE WholenessInv
    OBVIOUS
  <1>1. \A t \in Task : Touches(t) = {}
    BY TouchesOfPoint DEF CatalogInit, OnConn, OnConns
  <1>2. \A c \in Conn : Whole(c)
    BY NoneIsWithin DEF CatalogInit, NoTools, Whole
  <1>3. QED
    BY <1>1, <1>2 DEF WholenessInv, SharedInv, ProgressInv, WholeInv

(* What the invariants say of the catalog.                                 *)
LEMMA InvsAreWhole == CatalogTypeOK /\ MeasuredInv /\ SizeInv /\ WholenessInv => CatalogIsWhole
  <1> SUFFICES ASSUME CatalogTypeOK, MeasuredInv, SizeInv, WholenessInv PROVE CatalogIsWhole
    OBVIOUS
  <1>1. UndisturbedIsWhole
    <2> SUFFICES ASSUME NEW c \in Conn \ disturbed, AtRest(c) PROVE Whole(c)
      BY DEF UndisturbedIsWhole, Whole
    <2>1. ~Removed(c)
      BY DEF AtRest, Removed
    <2>2. QED
      BY <2>1 DEF WholenessInv, WholeInv
  <1>2. CatalogSize <= Room
    <2>1. SizesOK
      BY MeasuredSizes
    <2>2. PICK f : f = [c \in Conn |-> Cardinality(tools[c])]
      OBVIOUS
    <2>3. PICK p : p = [t \in Task |-> Reserve(t)]
      BY Zenon
    <2>4. CatalogSize = SumFunctionOnSet(f, Conn) /\ Reserved = SumFunctionOnSet(p, Task)
      BY <2>2, <2>3 DEF CatalogSize, Reserved, SumFunction
    <2>5. /\ \A c \in Conn : f[c] \in Int
          /\ \A t \in Task : p[t] \in Int /\ p[t] >= 0
      BY <2>1, <2>2, <2>3 DEF SizesOK
    <2>6. CatalogSize \in Int /\ Reserved \in Int /\ Reserved >= 0
      BY <2>4, <2>5, CatalogAssumption, SumType
    <2>7. Room \in Int /\ CatalogSize + Reserved <= Room
      BY RoomIsANumber DEF SizeInv, Room
    <2>8. QED
      BY <2>6, <2>7
  <1>3. QED
    BY <1>1, <1>2 DEF CatalogIsWhole, Room

(* Requests that do not share a connection keep integrations, connections  *)
(* and tools together, a refresh or removal that nobody disturbs repairs   *)
(* what a race or a crash has left, and the catalog never holds more than  *)
(* its limit and one full listing for each request under way: for any      *)
(* number of requests, connections and tools, on both stores.              *)
THEOREM CatalogStaysWhole == CatalogSpec => []CatalogIsWhole
  <1>1. CatalogInit => CatalogInv
    BY InitSize, InitWhole DEF CatalogInv
  <1>2. CatalogTypeOK /\ CatalogTypeOK' /\ CatalogInv /\ [CatalogNext]_catalogVars
          => CatalogInv'
    BY NextSize, NextWhole DEF CatalogInv
  <1>3. CatalogTypeOK /\ CatalogInv => CatalogIsWhole
    BY InvsAreWhole DEF CatalogInv
  <1>4. QED
    BY <1>1, <1>2, <1>3, CatalogTypeCorrect, PTL DEF CatalogSpec

=============================================================================
