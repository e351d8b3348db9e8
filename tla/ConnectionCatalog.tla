-------------------------- MODULE ConnectionCatalog --------------------------
(***************************************************************************)
(* Integrations, their connections and the tools each connection lists: a  *)
(* catalog of three tables without transactions across them.  A task is    *)
(* one request; between two operations of the store, and while a plugin    *)
(* fetches a listing, other requests run.                                  *)
(***************************************************************************)
EXTENDS Integers, FiniteSets, Functions

CONSTANTS
    Task,                   \* concurrent requests and spawned refreshes
    Slug,                   \* integrations
    Conn,                   \* connection references
    SlugOf,                 \* the integration a reference names
    Name,                   \* tool names
    Record,                 \* integration rows
    Loaded,                 \* those of a kind whose plugin is loaded
    Removable,              \* those with can_remove
    ProviderRow,            \* what ensure_provider writes
    NoRow,
    MaxCatalogTools,
    MaxToolsPerConnection

ASSUME CatalogAssumption ==
    /\ SlugOf \in [Conn -> Slug]
    /\ Loaded \subseteq Record /\ Removable \subseteq Record
    /\ ProviderRow \in Removable \ Loaded
    /\ NoRow \notin Record
    /\ MaxCatalogTools \in Nat \ {0} /\ MaxToolsPerConnection \in Nat
    /\ IsFiniteSet(Task) /\ IsFiniteSet(Conn) /\ Conn # {}

VARIABLES
    backend,       \* MemoryCatalog or SqliteCatalog
    integrations,  \* each slug's row
    connections,   \* the references that have a row
    tools,         \* each connection's dynamic tools
    spawned,       \* refreshes spawned and not yet started
    pc,            \* each request's point in its handler
    conn,          \* the connection it is about,
    slug, row,     \* or the integration and the row it has read or writes,
    listing,       \* and the tools it has still to store
    \* history, read by properties only
    overlapped,    \* requests that shared a connection with another one
    disturbed      \* connections two requests shared, or one did not finish

request == <<pc, conn, slug, row, listing>>
history == <<overlapped, disturbed>>
catalogVars == <<backend, integrations, connections, tools, spawned, request, history>>

OnConn == {"ensure_put", "create", "create_check", "create_put", "conn", "record",
           "count", "fetch", "replace", "insert", "patch_put", "remove_tools"}
OnConns == {"unregister", "unregister_conns", "unregister_tools"}
OnRow == {"register_put", "config_put", "config_list"}

CatalogTypeOK ==
    /\ backend \in {"memory", "sqlite"}
    /\ integrations \in [Slug -> Record \cup {NoRow}]
    /\ connections \subseteq Conn
    /\ tools \in [Conn -> SUBSET Name]
    /\ spawned \subseteq Conn
    /\ pc \in [Task -> OnConn \cup OnConns \cup OnRow \cup {"idle"}]
    /\ conn \in [Task -> Conn]
    /\ slug \in [Task -> Slug]
    /\ row \in [Task -> Record \cup {NoRow}]
    /\ \A t \in Task : pc[t] \in OnRow => row[t] # NoRow
    /\ listing \in [Task -> SUBSET Name]
    /\ overlapped \in [Task -> BOOLEAN]
    /\ disturbed \subseteq Conn

AConn == CHOOSE c \in Conn : TRUE
ASlug == CHOOSE s \in Slug : TRUE

NoTools == [c \in Conn |-> {}]

CatalogInit ==
    /\ backend \in {"memory", "sqlite"}
    /\ integrations = [s \in Slug |-> NoRow]
    /\ connections = {}
    /\ tools = NoTools
    /\ spawned = {}
    /\ pc = [t \in Task |-> "idle"]
    /\ conn = [t \in Task |-> AConn]
    /\ slug = [t \in Task |-> ASlug]
    /\ row = [t \in Task |-> NoRow]
    /\ listing = [t \in Task |-> {}]
    /\ overlapped = [t \in Task |-> FALSE]
    /\ disturbed = {}

On(s) == {c \in Conn : SlugOf[c] = s}
CatalogSize == SumFunction([c \in Conn |-> Cardinality(tools[c])])

(* The connections whose rows a request under way reads or writes. *)
Touches(t) == CASE pc[t] \in OnConn -> {conn[t]}
                [] pc[t] \in OnConns -> On(slug[t])
                [] OTHER -> {}

(* A request that touches cs arrives. *)
Overlap(t, cs) ==
    LET others == {u \in Task \ {t} : Touches(u) \cap cs # {}}
    IN  /\ overlapped' = [u \in Task |-> IF u = t THEN others # {}
                                         ELSE overlapped[u] \/ u \in others]
        /\ disturbed' = disturbed \cup UNION {Touches(u) \cap cs : u \in others}

Begin(t, point, c) ==
    /\ pc[t] = "idle"
    /\ pc' = [pc EXCEPT ![t] = point]
    /\ conn' = [conn EXCEPT ![t] = c]
    /\ UNCHANGED <<slug, row, listing>>
    /\ Overlap(t, {c})

Goto(t, point) ==
    /\ pc' = [pc EXCEPT ![t] = point]
    /\ UNCHANGED <<conn, slug, row, listing, history>>

Idle(t) ==
    /\ pc' = [pc EXCEPT ![t] = "idle"]
    /\ conn' = [conn EXCEPT ![t] = AConn]
    /\ slug' = [slug EXCEPT ![t] = ASlug]
    /\ row' = [row EXCEPT ![t] = NoRow]
    /\ listing' = [listing EXCEPT ![t] = {}]
    /\ overlapped' = [overlapped EXCEPT ![t] = FALSE]

(* An error, or the end of a request that leaves the tools alone. *)
Return(t) == Idle(t) /\ UNCHANGED disturbed

(* The end of a request that sets the state of what it touches. *)
Settled(t) ==
    /\ Idle(t)
    /\ disturbed' = IF overlapped[t] THEN disturbed ELSE disturbed \ Touches(t)

tables == <<backend, integrations, connections, tools>>

-----------------------------------------------------------------------------
(* Integrations *)

(* register_kind looks the slug up and refuses one that is taken ...       *)
Register(t, s, r) ==
    /\ pc[t] = "idle"
    /\ r \in Loaded \cap Removable
    /\ integrations[s] = NoRow
    /\ pc' = [pc EXCEPT ![t] = "register_put"]
    /\ slug' = [slug EXCEPT ![t] = s]
    /\ row' = [row EXCEPT ![t] = r]
    /\ UNCHANGED <<tables, spawned, conn, listing, history>>

(* ... and then upserts it. *)
RegisterPut(t) ==
    /\ pc[t] = "register_put"
    /\ integrations' = [integrations EXCEPT ![slug[t]] = row[t]]
    /\ Return(t)
    /\ UNCHANGED <<backend, connections, tools, spawned>>

(* register_integration: register or replace. *)
RegisterIntegration(s, r) ==
    /\ r \in Loaded
    /\ integrations' = [integrations EXCEPT ![s] = r]
    /\ UNCHANGED <<backend, connections, tools, spawned, request, history>>

(* patch_config reads the row, merges the patch into its config, writes    *)
(* the whole row back, and, if asked to refresh, spawns one refresh for    *)
(* each connection it then finds.                                          *)
PatchConfig(t, s) ==
    /\ pc[t] = "idle"
    /\ integrations[s] # NoRow
    /\ pc' = [pc EXCEPT ![t] = "config_put"]
    /\ slug' = [slug EXCEPT ![t] = s]
    /\ row' = [row EXCEPT ![t] = integrations[s]]
    /\ UNCHANGED <<tables, spawned, conn, listing, history>>

PatchConfigPut(t) ==
    /\ pc[t] = "config_put"
    /\ integrations' = [integrations EXCEPT ![slug[t]] = row[t]]
    /\ \/ Goto(t, "config_list")
       \/ Return(t)
    /\ UNCHANGED <<backend, connections, tools, spawned>>

PatchConfigRefresh(t) ==
    /\ pc[t] = "config_list"
    /\ spawned' = spawned \cup (connections \cap On(slug[t]))
    /\ Return(t)
    /\ UNCHANGED tables

(* remove_integration reads the row for can_remove ... *)
RemoveIntegration(t, s) ==
    /\ pc[t] = "idle"
    /\ integrations[s] \in Removable
    /\ pc' = [pc EXCEPT ![t] = "unregister"]
    /\ slug' = [slug EXCEPT ![t] = s]
    /\ Overlap(t, On(s))
    /\ UNCHANGED <<tables, spawned, conn, row, listing>>

(* ... and then removes it, its connections and their tools: under one     *)
(* lock in memory,                                                         *)
RemoveIntegrationMemory(t) ==
    /\ pc[t] = "unregister" /\ backend = "memory"
    /\ integrations' = [integrations EXCEPT ![slug[t]] = NoRow]
    /\ connections' = connections \ On(slug[t])
    /\ tools' = [c \in Conn |-> IF c \in On(slug[t]) THEN {} ELSE tools[c]]
    /\ Settled(t)
    /\ UNCHANGED <<backend, spawned>>

(* in three statements on SQLite. *)
DeleteIntegration(t) ==
    /\ pc[t] = "unregister" /\ backend = "sqlite"
    /\ integrations' = [integrations EXCEPT ![slug[t]] = NoRow]
    /\ Goto(t, "unregister_conns")
    /\ UNCHANGED <<backend, connections, tools, spawned>>

DeleteConnections(t) ==
    /\ pc[t] = "unregister_conns"
    /\ connections' = connections \ On(slug[t])
    /\ Goto(t, "unregister_tools")
    /\ UNCHANGED <<backend, integrations, tools, spawned>>

(* Faulty: the tools of the integration stay. *)
ForgetTools(t) ==
    /\ pc[t] = "unregister_tools"
    /\ Settled(t)
    /\ UNCHANGED <<tables, spawned>>

DeleteTools(t) ==
    /\ pc[t] = "unregister_tools"
    /\ tools' = [c \in Conn |-> IF c \in On(slug[t]) THEN {} ELSE tools[c]]
    /\ Settled(t)
    /\ UNCHANGED <<backend, integrations, connections, spawned>>

-----------------------------------------------------------------------------
(* Connections *)

(* POST /api/connections: ensure_provider first, put if the get found none. *)
CreateOverHttp(t, c) ==
    /\ Begin(t, IF integrations[SlugOf[c]] = NoRow THEN "ensure_put" ELSE "create", c)
    /\ UNCHANGED <<tables, spawned>>

EnsureProviderPut(t) ==
    /\ pc[t] = "ensure_put"
    /\ integrations' = [integrations EXCEPT ![SlugOf[conn[t]]] = ProviderRow]
    /\ Goto(t, "create")
    /\ UNCHANGED <<backend, connections, tools, spawned>>

(* create_connection, of a static tool, the SDK or the HTTP handler: the   *)
(* integration must be there; the pasted values go to the secret store.    *)
CreateByTool(t, c) ==
    /\ Begin(t, "create", c)
    /\ UNCHANGED <<tables, spawned>>

CreateConnection(t) ==
    /\ pc[t] = "create"
    /\ IF integrations[SlugOf[conn[t]]] = NoRow THEN Return(t)
       ELSE Goto(t, "create_check")
    /\ UNCHANGED <<tables, spawned>>

CreateCheck(t) ==
    /\ pc[t] = "create_check"
    /\ IF conn[t] \in connections THEN Return(t) ELSE Goto(t, "create_put")
    /\ UNCHANGED <<tables, spawned>>

CreatePut(t) ==
    /\ pc[t] = "create_put"
    /\ connections' = connections \cup {conn[t]}
    /\ Goto(t, "conn")
    /\ UNCHANGED <<backend, integrations, tools, spawned>>

(* patch_connection: read the row, write it back. *)
PatchConnection(t, c) ==
    /\ c \in connections
    /\ Begin(t, "patch_put", c)
    /\ UNCHANGED <<tables, spawned>>

PatchPut(t) ==
    /\ pc[t] = "patch_put"
    /\ connections' = connections \cup {conn[t]}
    /\ Return(t)
    /\ UNCHANGED <<backend, integrations, tools, spawned>>

(* remove_connection: one lock in memory, *)
RemoveConnectionMemory(t, c) ==
    /\ pc[t] = "idle" /\ backend = "memory"
    /\ connections' = connections \ {c}
    /\ tools' = [tools EXCEPT ![c] = {}]
    /\ LET others == {u \in Task : c \in Touches(u)}
       IN  /\ overlapped' = [u \in Task |-> overlapped[u] \/ u \in others]
           /\ disturbed' = IF others = {} THEN disturbed \ {c} ELSE disturbed \cup {c}
    /\ UNCHANGED <<backend, integrations, spawned, request>>

(* two statements on SQLite. *)
DeleteConnection(t, c) ==
    /\ backend = "sqlite"
    /\ connections' = connections \ {c}
    /\ Begin(t, "remove_tools", c)
    /\ UNCHANGED <<backend, integrations, tools, spawned>>

DeleteItsTools(t) ==
    /\ pc[t] = "remove_tools"
    /\ tools' = [tools EXCEPT ![conn[t]] = {}]
    /\ Settled(t)
    /\ UNCHANGED <<backend, integrations, connections, spawned>>

-----------------------------------------------------------------------------
(* refresh_connection *)

RefreshConnection(t, c) ==
    /\ Begin(t, "conn", c)
    /\ UNCHANGED <<tables, spawned>>

RunSpawned(t, c) ==
    /\ c \in spawned
    /\ spawned' = spawned \ {c}
    /\ Begin(t, "conn", c)
    /\ UNCHANGED tables

(* The connection's row, for its secrets. *)
ReadConnection(t) ==
    /\ pc[t] = "conn"
    /\ IF conn[t] \in connections THEN Goto(t, "record") ELSE Return(t)
    /\ UNCHANGED <<tables, spawned>>

(* The integration's row and its plugin; a secret may fail to resolve.     *)
ReadRecord(t) ==
    /\ pc[t] = "record"
    /\ \/ integrations[SlugOf[conn[t]]] \in Loaded /\ Goto(t, "count")
       \/ Return(t)
    /\ UNCHANGED <<tables, spawned>>

(* Faulty: the size of the catalog is not looked at. *)
SkipCount(t) ==
    /\ pc[t] = "count"
    /\ Goto(t, "fetch")
    /\ UNCHANGED <<tables, spawned>>

(* The whole catalog has room for at least one more. *)
CountTools(t) ==
    /\ pc[t] = "count"
    /\ IF CatalogSize >= MaxCatalogTools THEN Return(t) ELSE Goto(t, "fetch")
    /\ UNCHANGED <<tables, spawned>>

(* resolve_tools: the one await.  A complete listing within the limit is   *)
(* stored;                                                                 *)
ToolsListed(t) ==
    /\ pc[t] = "fetch"
    /\ \E names \in SUBSET Name :
         /\ IsFiniteSet(names) /\ Cardinality(names) <= MaxToolsPerConnection
         /\ listing' = [listing EXCEPT ![t] = names]
    /\ pc' = [pc EXCEPT ![t] = "replace"]
    /\ UNCHANGED <<tables, spawned, conn, slug, row, history>>

(* an error, a timeout, an incomplete listing or one too long leaves the   *)
(* catalog as it is, and so does a client that hangs up.                   *)
NotListed(t) ==
    /\ pc[t] = "fetch"
    /\ Return(t)
    /\ UNCHANGED <<tables, spawned>>

(* Faulty: what the connection listed before stays. *)
MergeTools(t) ==
    /\ pc[t] = "replace" /\ backend = "memory"
    /\ tools' = [tools EXCEPT ![conn[t]] = @ \cup listing[t]]
    /\ Settled(t)
    /\ UNCHANGED <<backend, integrations, connections, spawned>>

(* replace_tools under the lock, *)
ReplaceTools(t) ==
    /\ pc[t] = "replace" /\ backend = "memory"
    /\ tools' = [tools EXCEPT ![conn[t]] = listing[t]]
    /\ Settled(t)
    /\ UNCHANGED <<backend, integrations, connections, spawned>>

(* or as a DELETE and one INSERT for each tool, *)
ReplaceDelete(t) ==
    /\ pc[t] = "replace" /\ backend = "sqlite"
    /\ tools' = [tools EXCEPT ![conn[t]] = {}]
    /\ Goto(t, "insert")
    /\ UNCHANGED <<backend, integrations, connections, spawned>>

(* which fails, half way, on an address that is there again. *)
ReplaceInsert(t) ==
    /\ pc[t] = "insert"
    /\ \E n \in listing[t] :
         IF n \in tools[conn[t]]
           THEN Return(t) /\ UNCHANGED tools
           ELSE /\ tools' = [tools EXCEPT ![conn[t]] = @ \cup {n}]
                /\ listing' = [listing EXCEPT ![t] = @ \ {n}]
                /\ UNCHANGED <<pc, conn, slug, row, history>>
    /\ UNCHANGED <<backend, integrations, connections, spawned>>

ReplaceDone(t) ==
    /\ pc[t] = "insert" /\ listing[t] = {}
    /\ Settled(t)
    /\ UNCHANGED <<tables, spawned>>

-----------------------------------------------------------------------------
(* The process ends.  SQLite keeps the statements that were executed; a    *)
(* MemoryCatalog starts over.                                              *)
Crash ==
    /\ IF backend = "sqlite"
         THEN /\ UNCHANGED tables
              /\ disturbed' = disturbed \cup UNION {Touches(t) : t \in Task}
         ELSE /\ integrations' = [s \in Slug |-> NoRow]
              /\ connections' = {}
              /\ tools' = NoTools
              /\ disturbed' = {}
              /\ UNCHANGED backend
    /\ spawned' = {}
    /\ pc' = [t \in Task |-> "idle"]
    /\ conn' = [t \in Task |-> AConn]
    /\ slug' = [t \in Task |-> ASlug]
    /\ row' = [t \in Task |-> NoRow]
    /\ listing' = [t \in Task |-> {}]
    /\ overlapped' = [t \in Task |-> FALSE]

Refresh(t) ==
    \/ \E c \in Conn : RefreshConnection(t, c) \/ RunSpawned(t, c)
    \/ ReadConnection(t) \/ ReadRecord(t) \/ CountTools(t)
    \/ ToolsListed(t) \/ NotListed(t)
    \/ ReplaceTools(t) \/ ReplaceDelete(t) \/ ReplaceInsert(t) \/ ReplaceDone(t)

Edit(t) ==
    \/ \E c \in Conn : \/ CreateOverHttp(t, c) \/ CreateByTool(t, c)
                       \/ PatchConnection(t, c)
                       \/ RemoveConnectionMemory(t, c) \/ DeleteConnection(t, c)
    \/ EnsureProviderPut(t) \/ CreateConnection(t) \/ CreateCheck(t) \/ CreatePut(t)
    \/ PatchPut(t) \/ DeleteItsTools(t)

Configure(t) ==
    \/ \E s \in Slug : \/ \E r \in Record : Register(t, s, r)
                       \/ PatchConfig(t, s) \/ RemoveIntegration(t, s)
    \/ RegisterPut(t) \/ PatchConfigPut(t) \/ PatchConfigRefresh(t)
    \/ RemoveIntegrationMemory(t)
    \/ DeleteIntegration(t) \/ DeleteConnections(t) \/ DeleteTools(t)

CatalogNext ==
    \/ \E t \in Task : Refresh(t) \/ Edit(t) \/ Configure(t)
    \/ \E s \in Slug, r \in Record : RegisterIntegration(s, r)
    \/ Crash

CatalogSpec == CatalogInit /\ [][CatalogNext]_catalogVars

-----------------------------------------------------------------------------
AtRest(c) == \A t \in Task : c \notin Touches(t)

(* Requests that do not share a connection keep the three tables together, *)
(* on both stores and whatever happens to other connections: tools have    *)
(* their connection, a connection its integration, and no connection more  *)
(* tools than the limit.  One refresh or removal that runs undisturbed     *)
(* repairs what a race or a crash has left behind.                         *)
UndisturbedIsWhole ==
    \A c \in Conn \ disturbed : AtRest(c) =>
        /\ tools[c] # {} => c \in connections
        /\ c \in connections => integrations[SlugOf[c]] # NoRow
        /\ Cardinality(tools[c]) <= MaxToolsPerConnection

(* In memory a race never mixes two listings: max_tools_per_connection     *)
(* holds at all times.                                                     *)
MemoryKeepsTheLimit ==
    backend = "memory" =>
        \A c \in Conn : Cardinality(tools[c]) <= MaxToolsPerConnection

(* What max_catalog_tools bounds, on both stores: requests that found room *)
(* may all still add a full listing, and no more than that.  What is left  *)
(* undisturbed is whole.                                                   *)
CatalogIsWhole ==
    /\ UndisturbedIsWhole
    /\ CatalogSize <= MaxCatalogTools - 1 + Cardinality(Task) * MaxToolsPerConnection
==============================================================================
