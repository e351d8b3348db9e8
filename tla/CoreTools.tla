------------------------------ MODULE CoreTools ------------------------------
(***************************************************************************)
(* The engine's built-in tools: how a typed path finds its tool, what each *)
(* tool's schema asks for, which ones wait for a person, and what their    *)
(* handlers do to the configuration.  One integration slug, connection     *)
(* name, client and toolkit stand for all; an agent that names an owner    *)
(* means "user", otherwise "org" is meant.  No rule covers a built-in      *)
(* tool: rules are module Policies, races of two handlers ConnectionCatalog.*)
(***************************************************************************)
EXTENDS ToolPaths

CONSTANTS
    Agent,          \* concurrent callers
    Plugin,         \* kinds of plugins loaded
    Stored,         \* cli paths of tools that connections may have
    StoredAsks,     \* those that ask for approval
    Typed,          \* what agents type beside the names of built-in tools
    MaxCoreMs,      \* bound: milliseconds that pass
    MaxCoreCalls    \* bound: calls made

(* A stored tool has a non-empty integration, connection and name, so its  *)
(* address is one (core/id.rs); there are finitely many.                   *)
ASSUME StoredAssumption ==
    /\ IsFiniteSet(Stored)
    /\ \A path \in Stored : path \in Seq(STRING) \ {NoTool} /\ ParseToolAddress(Address(path)) = path

VARIABLES
    agentCall,      \* each agent's call
    coreConfig,     \* what is configured
    storedTools,    \* tools of connections, as paths
    sessionYes,     \* paths with a session approval
    coreMs,         \* unix_now_ms
    coreCalls       \* calls so far, for the bound only

coreVars == <<agentCall, coreConfig, storedTools, sessionYes, coreMs, coreCalls>>

-----------------------------------------------------------------------------
(* The tools: name, required and optional fields, requires_approval.       *)
Core(name) == <<"executor", "coreTools">> \o name
StaticTool(path, required, optional, asks) ==
    [path |-> path, required |-> required, optional |-> optional, asks |-> asks]
Built(name, required, optional, asks) == StaticTool(Core(name), required, optional, asks)

IntegrationTools == {
    Built(<<"integrations", "list">>, {}, {}, FALSE),
    Built(<<"integrations", "remove">>, {"slug"}, {}, TRUE),
    Built(<<"integrations", "detect">>, {"url"}, {}, FALSE) }

ConnectionTools == {
    Built(<<"connections", "list">>, {}, {"integration", "owner"}, FALSE),
    Built(<<"connections", "create">>, {"name", "integration"},
          {"owner", "template", "values", "refs"}, TRUE),
    Built(<<"connections", "createHandoff">>, {"integration"}, {"owner", "template", "label"}, FALSE),
    Built(<<"connections", "remove">>, {"integration", "name"}, {"owner"}, TRUE),
    Built(<<"connections", "refresh">>, {"integration", "name"}, {"owner"}, FALSE) }

PolicyTools == {
    Built(<<"policies", "list">>, {}, {}, FALSE),
    Built(<<"policies", "create">>, {"pattern", "action"}, {"owner"}, TRUE),
    Built(<<"policies", "update">>, {"id"}, {"owner", "pattern", "action"}, TRUE),
    Built(<<"policies", "remove">>, {"id"}, {}, TRUE) }

ProviderTools == {
    Built(<<"providers", "list">>, {}, {}, FALSE),
    Built(<<"providers", "items">>, {"provider"}, {}, FALSE) }

ClientTools == {
    Built(<<"oauth", "clients", "list">>, {}, {}, FALSE),
    Built(<<"oauth", "clients", "create">>, {"slug", "authorizationUrl", "tokenUrl", "clientId"},
          {"owner", "grant", "resource", "originIntegration"}, TRUE),
    Built(<<"oauth", "clients", "createHandoff">>, {"integration"}, {"owner", "slug"}, FALSE),
    Built(<<"oauth", "clients", "registerDynamic">>,
          {"slug", "registrationEndpoint", "authorizationUrl", "tokenUrl"},
          {"owner", "issuer", "resource", "scopes", "redirectUri", "originIntegration"}, TRUE),
    Built(<<"oauth", "clients", "remove">>, {"slug"}, {"owner"}, TRUE) }

FlowTools == {
    Built(<<"oauth", "probe">>, {"url"}, {}, FALSE),
    Built(<<"oauth", "start">>, {"client", "name", "integration"},
          {"clientOwner", "owner", "template", "redirectUri"}, TRUE),
    Built(<<"oauth", "cancel">>, {"state"}, {}, FALSE) }

ToolkitTools == {
    Built(<<"toolkits", "list">>, {}, {}, FALSE),
    Built(<<"toolkits", "create">>, {"slug"}, {"name", "owner", "connections"}, TRUE),
    Built(<<"toolkits", "remove">>, {"slug"}, {}, TRUE) }

(* Faulty: the schema of addSpec does not require the document. *)
SpecNotRequired == [required |-> {"slug"},
    optional |-> {"spec", "name", "description", "baseUrl", "tag", "preset"}]

AddSpecSchema == [required |-> {"slug", "spec"},
    optional |-> {"name", "description", "baseUrl", "tag", "preset"}]

PluginTools ==
    UNION {
      IF "openapi" \notin Plugin THEN {} ELSE
        {StaticTool(<<"executor", "openapi", n>>, AddSpecSchema.required,
              AddSpecSchema.optional, TRUE) : n \in {"addSpec", "addIntegration"}},
      IF "graphql" \notin Plugin THEN {} ELSE
        {StaticTool(<<"executor", "graphql", "addIntegration">>, {"endpoint", "slug"},
              {"name", "description", "schema"}, TRUE)},
      IF "mcp" \notin Plugin THEN {} ELSE
        {StaticTool(<<"executor", "mcp", "addServer">>, {"slug"},
              {"name", "description", "url", "command", "args", "transport"}, TRUE)} }

(* Faulty: removing a toolkit does not ask. *)
CoreToolsUnasked ==
    {[t EXCEPT !.asks = @ /\ t.path # Core(<<"toolkits", "remove">>)] : t \in
        IntegrationTools \cup ConnectionTools \cup PolicyTools \cup ProviderTools
        \cup ClientTools \cup FlowTools \cup ToolkitTools}

CoreToolSet ==
    IntegrationTools \cup ConnectionTools \cup PolicyTools \cup ProviderTools
    \cup ClientTools \cup FlowTools \cup ToolkitTools

StaticTools == CoreToolSet \cup PluginTools
StaticPaths == {t.path : t \in StaticTools}
ToolAt(path) == CHOOSE t \in StaticTools : t.path = path

-----------------------------------------------------------------------------
(* Which tool a path means, at this moment.                                *)
Resolved(path) == ResolvePath(StaticPaths, storedTools, path)

-----------------------------------------------------------------------------
(* Arguments: the fields given and those of them whose value has the wrong *)
(* type or is none of the values the schema lists.                         *)
Given(given, odd) == [given |-> given, odd |-> odd]
Untyped == {"spec", "schema"}
Strings(args) == args.given \ (args.odd \ Untyped)
OwnerOf(args) == IF "owner" \in Strings(args) THEN "user" ELSE "org"

ValidateAgainst(path, args) ==
    path \in StaticPaths =>
        LET t == ToolAt(path) IN
        /\ t.required \subseteq args.given
        /\ args.odd \cap (t.required \cup t.optional) \subseteq Untyped

(* What agents send: all optional fields or none, at most one required     *)
(* field missing and at most one value odd, a secret where none belongs.   *)
AlmostRight(path) ==
    IF path \notin StaticPaths THEN {Given({}, {})} ELSE
    LET t == ToolAt(path)
        few(S) == {{}} \cup {{x} : x \in S}
            bases == {t.required, t.required \cup t.optional}
                 \cup IF path = Core(<<"oauth", "clients", "create">>)
                      THEN {t.required \cup {"clientSecret"}} ELSE {}
    IN UNION {{Given((base \ gone), odd \cap (base \ gone)) :
                gone \in few(t.required), odd \in few(t.required \cup Untyped \cup {"owner"})} :
              base \in bases}

-----------------------------------------------------------------------------
NoTurn == [phase |-> "idle", meant |-> NoTool, tool |-> NoTool, args |-> Given({}, {}),
           agreed |-> FALSE, merged |-> FALSE, reply |-> "none"]

(* An integration with one connection and one tool of it.                  *)
CoreInit ==
    /\ agentCall = [a \in Agent |-> NoTurn]
    /\ coreConfig = [integration |-> "openapi", connections |-> {"org"}, rules |-> {},
                     clients |-> {}, sessions |-> {}, toolkit |-> FALSE]
    /\ storedTools \in {{p} : p \in Stored}
    /\ sessionYes = {}
    /\ coreMs = 0
    /\ coreCalls = 0

Answered(a, reply) ==
    agentCall' = [agentCall EXCEPT ![a] = [NoTurn EXCEPT !.reply = reply, !.merged = agentCall[a].merged]]

SessionApproved(path) == sessionYes \cap {path, Address(path)} # {}
Asks(path) == IF path \in StaticPaths THEN ToolAt(path).asks ELSE path \in StoredAsks

(* Faulty: a pause remembers the path as it was typed. *)
PausedAs(typed, path) == typed

(* The row of a paused call has the cli path: persist_outcome puts that of *)
(* the pause's reason over the address that pause_for_approval wrote.      *)
PauseAddress(typed, path) == path

(* execute: resolve, validate, gate; then the call pauses or its tool runs. *)
ExecuteTool(a) ==
    /\ agentCall[a].phase = "idle"
    /\ coreCalls < MaxCoreCalls
    /\ coreCalls' = coreCalls + 1
    /\ \E typed \in StaticPaths \cup Typed, yes \in BOOLEAN :
       LET path == Resolved(typed) IN
       IF path = NoTool
       THEN agentCall' = [agentCall EXCEPT ![a] = [NoTurn EXCEPT !.reply = "not_found"]]
       ELSE \E args \in AlmostRight(path) :
          IF ~ValidateAgainst(path, args)
          THEN agentCall' = [agentCall EXCEPT ![a] = [NoTurn EXCEPT !.reply = "invalid"]]
          ELSE agentCall' = [agentCall EXCEPT ![a] =
                 [NoTurn EXCEPT
                    !.phase = IF Asks(path) /\ ~yes /\ ~SessionApproved(path)
                              THEN "paused" ELSE "running",
                    !.meant = path,
                    !.tool = IF Asks(path) /\ ~yes /\ ~SessionApproved(path)
                             THEN PauseAddress(typed, path) ELSE path,
                    !.args = args, !.agreed = yes]]
    /\ UNCHANGED <<coreConfig, storedTools, sessionYes, coreMs>>

MergeResumeContent(args, form) == Given(args.given \cup form, args.odd \cup form)

(* resume, accepted: the approval is kept for the session if the person    *)
(* says so; the form's fields go over the arguments, unchecked; the        *)
(* remembered path is resolved again, as if an agent had typed it.         *)
AcceptCall(a) == \E keep \in BOOLEAN :
    LET call == agentCall[a]
        path == Resolved(call.tool)
        fields == IF call.meant \in StaticPaths THEN ToolAt(call.meant).required ELSE {}
    IN
    /\ call.phase = "paused"
    /\ sessionYes' = IF keep THEN sessionYes \cup {call.tool} ELSE sessionYes
    /\ \E form \in {{}} \cup {{f} : f \in fields} :
        agentCall' = [agentCall EXCEPT ![a] =
            IF path = NoTool THEN [NoTurn EXCEPT !.reply = "not_found"]
            ELSE [call EXCEPT !.phase = "running", !.tool = path, !.agreed = TRUE,
                    !.merged = form # {},
                    !.args = MergeResumeContent(call.args, form)]]
    /\ UNCHANGED <<coreConfig, storedTools, coreMs, coreCalls>>

DeclineCall(a) ==
    /\ agentCall[a].phase = "paused"
    /\ Answered(a, "declined")
    /\ UNCHANGED <<coreConfig, storedTools, sessionYes, coreMs, coreCalls>>
-----------------------------------------------------------------------------
(* The handlers: what each insists on, when it refuses, what it changes.   *)
Handle(a, path, needs, ok, next) ==
    LET call == agentCall[a] IN
    /\ call.phase = "running" /\ call.tool = path
    /\ IF ~(needs \subseteq Strings(call.args))
       THEN Answered(a, "missing") /\ UNCHANGED coreConfig
       ELSE IF ok THEN Answered(a, "ok") /\ coreConfig' = next
       ELSE Answered(a, "refused") /\ UNCHANGED coreConfig
    /\ UNCHANGED <<storedTools, sessionYes, coreMs, coreCalls>>

OwnerHere(a) == OwnerOf(agentCall[a].args)

(* register_kind, after openapi_config or what the other two assemble.     *)
RegisterKind(a, path, kind, needs) ==
    Handle(a, path, {"slug"} \cup needs, coreConfig.integration = "none",
           [coreConfig EXCEPT !.integration = kind])

StOpenapiAdd(a) == \E n \in {"addSpec", "addIntegration"} :
    RegisterKind(a, <<"executor", "openapi", n>>, "openapi", {"spec"})
StGraphqlAdd(a) ==
    RegisterKind(a, <<"executor", "graphql", "addIntegration">>, "graphql", {"endpoint"})
StMcpAdd(a) == RegisterKind(a, <<"executor", "mcp", "addServer">>, "mcp", {})

StIntegrationsRemove(a) ==
    Handle(a, Core(<<"integrations", "remove">>), {"slug"}, coreConfig.integration # "none",
           [coreConfig EXCEPT !.integration = "none", !.connections = {}])

StConnectionsRemove(a) ==
    Handle(a, Core(<<"connections", "remove">>), {"name", "integration"}, TRUE,
           [coreConfig EXCEPT !.connections = @ \ {OwnerHere(a)}])

StPoliciesCreate(a) ==
    Handle(a, Core(<<"policies", "create">>), {"pattern", "action"}, TRUE,
           [coreConfig EXCEPT !.rules = {r \in @ : r.id # coreMs}
                                        \cup {[id |-> coreMs, edited |-> FALSE]}])

StPoliciesUpdate(a) == \E id \in 0..MaxCoreMs :
    LET rows == {r \in coreConfig.rules : r.id = id} IN
    Handle(a, Core(<<"policies", "update">>), {"id"}, rows # {},
           [coreConfig EXCEPT !.rules = (@ \ rows) \cup {[id |-> id, edited |-> TRUE]}])

StPoliciesRemove(a) == \E id \in 0..MaxCoreMs :
    Handle(a, Core(<<"policies", "remove">>), {"id"}, TRUE,
           [coreConfig EXCEPT !.rules = {r \in @ : r.id # id}])

Client(owner, origin) == [owner |-> owner, origin |-> origin]
PutClient(owner, origin) ==
    [coreConfig EXCEPT !.clients = {c \in @ : c.owner # owner} \cup {Client(owner, origin)}]

StOauthClientsCreate(a) ==
    Handle(a, Core(<<"oauth", "clients", "create">>),
           IF "clientSecret" \in agentCall[a].args.given THEN {}
           ELSE {"slug", "authorizationUrl", "tokenUrl", "clientId"},
           "clientSecret" \notin agentCall[a].args.given, PutClient(OwnerHere(a), "manual"))

StOauthClientsRemove(a) ==
    Handle(a, Core(<<"oauth", "clients", "remove">>), {"slug"}, TRUE,
           [coreConfig EXCEPT !.clients = {c \in @ : c.owner # OwnerHere(a)}])

(* The client is clientOwner's, "user" when that is given. *)
StOauthStart(a) ==
    LET owner == IF "clientOwner" \in Strings(agentCall[a].args) THEN "user" ELSE "org" IN
    Handle(a, Core(<<"oauth", "start">>), {"client"}, \E c \in coreConfig.clients : c.owner = owner,
           [coreConfig EXCEPT !.sessions = @ \cup {coreMs}])

StOauthCancel(a) == \E ms \in 0..MaxCoreMs :
    Handle(a, Core(<<"oauth", "cancel">>), {"state"}, TRUE,
           [coreConfig EXCEPT !.sessions = @ \ {ms}])

StToolkitsCreate(a) ==
    Handle(a, Core(<<"toolkits", "create">>), {"slug"}, TRUE, [coreConfig EXCEPT !.toolkit = TRUE])

StToolkitsRemove(a) ==
    Handle(a, Core(<<"toolkits", "remove">>), {"slug"}, TRUE, [coreConfig EXCEPT !.toolkit = FALSE])

(* Lists, handoffs, detect, items: they only answer. *)
Reads(a, path, needs) == Handle(a, path, needs, TRUE, coreConfig)

StIntegrationsList(a) == Reads(a, Core(<<"integrations", "list">>), {})
StConnectionsList(a) == Reads(a, Core(<<"connections", "list">>), {})
StPoliciesList(a) == Reads(a, Core(<<"policies", "list">>), {})
StProvidersList(a) == Reads(a, Core(<<"providers", "list">>), {})
StOauthClientsList(a) == Reads(a, Core(<<"oauth", "clients", "list">>), {})
StToolkitsList(a) == Reads(a, Core(<<"toolkits", "list">>), {})
StConnectionsCreateHandoff(a) ==
    Reads(a, Core(<<"connections", "createHandoff">>), {"integration"})
StOauthClientsCreateHandoff(a) ==
    Reads(a, Core(<<"oauth", "clients", "createHandoff">>), {"integration"})
StIntegrationsDetect(a) ==
    Reads(a, Core(<<"integrations", "detect">>), {"url"})
StProvidersItems(a) == \E known \in BOOLEAN :
    Handle(a, Core(<<"providers", "items">>), {"provider"}, known, coreConfig)

(* A tool of a connection: what it does is its server's affair.            *)
InvokeStored(a) == \E ok \in BOOLEAN :
    /\ Handle(a, agentCall[a].tool, {}, ok, coreConfig)
    /\ agentCall[a].tool \notin StaticPaths
-----------------------------------------------------------------------------
(* Four handlers wait for a server and go on with its answer.              *)
Waiting(a, path) == agentCall[a].phase = "remote" /\ agentCall[a].tool = path

AwaitRemote(a, path, needs, ok, next) ==
    LET call == agentCall[a] IN
    /\ call.phase = "running" /\ call.tool = path
    /\ IF ~(needs \subseteq Strings(call.args))
       THEN Answered(a, "missing") /\ UNCHANGED coreConfig
       ELSE IF ok THEN /\ agentCall' = [agentCall EXCEPT ![a].phase = "remote"]
                       /\ coreConfig' = next
       ELSE Answered(a, "refused") /\ UNCHANGED coreConfig
    /\ UNCHANGED <<storedTools, sessionYes, coreMs, coreCalls>>

StConnectionsCreate(a) ==
    AwaitRemote(a, Core(<<"connections", "create">>), {"name", "integration"},
          coreConfig.integration # "none" /\ OwnerHere(a) \notin coreConfig.connections,
          [coreConfig EXCEPT !.connections = @ \cup {OwnerHere(a)}])

StConnectionsRefresh(a) ==
    AwaitRemote(a, Core(<<"connections", "refresh">>), {"name", "integration"},
          OwnerHere(a) \in coreConfig.connections, coreConfig)

StOauthRegisterDynamic(a) ==
    AwaitRemote(a, Core(<<"oauth", "clients", "registerDynamic">>), {"registrationEndpoint"}, TRUE,
          coreConfig)

StOauthProbe(a) == AwaitRemote(a, Core(<<"oauth", "probe">>), {"url"}, TRUE, coreConfig)

(* The connection's tools, as its plugin now lists them. *)
ConnectionListed(a) ==
    /\ Waiting(a, Core(<<"connections", "refresh">>)) \/ Waiting(a, Core(<<"connections", "create">>))
    /\ storedTools' \in SUBSET Stored
    /\ Answered(a, "ok")
    /\ UNCHANGED <<coreConfig, sessionYes, coreMs, coreCalls>>

(* The other fields are only looked at once the client is registered.      *)
DynamicRegistered(a) ==
    /\ Waiting(a, Core(<<"oauth", "clients", "registerDynamic">>))
    /\ IF {"slug", "authorizationUrl", "tokenUrl"} \subseteq Strings(agentCall[a].args)
       THEN Answered(a, "ok") /\ coreConfig' = PutClient(OwnerHere(a), "dynamic")
       ELSE Answered(a, "missing") /\ UNCHANGED coreConfig
    /\ UNCHANGED <<storedTools, sessionYes, coreMs, coreCalls>>

(* One of three addresses answered with metadata. *)
FetchAsMetadata(a) ==
    /\ Waiting(a, Core(<<"oauth", "probe">>))
    /\ Answered(a, "ok")
    /\ UNCHANGED <<coreConfig, storedTools, sessionYes, coreMs, coreCalls>>

(* The server refuses or the deadline of the call drops the handler where  *)
(* it waits.                                                               *)
RemoteFails(a) ==
    /\ agentCall[a].phase = "remote"
    /\ Answered(a, "refused")
    /\ UNCHANGED <<coreConfig, storedTools, sessionYes, coreMs, coreCalls>>

CoreTick ==
    /\ coreMs < MaxCoreMs
    /\ coreMs' = coreMs + 1
    /\ UNCHANGED <<agentCall, coreConfig, storedTools, sessionYes, coreCalls>>

CoreNext ==
    \/ CoreTick
    \/ \E a \in Agent :
        \/ ExecuteTool(a) \/ AcceptCall(a) \/ DeclineCall(a)
        \/ StOpenapiAdd(a) \/ StGraphqlAdd(a) \/ StMcpAdd(a)
        \/ StIntegrationsRemove(a) \/ StIntegrationsDetect(a)
        \/ StConnectionsCreate(a) \/ StConnectionsRemove(a) \/ StConnectionsRefresh(a)
        \/ StPoliciesCreate(a) \/ StPoliciesUpdate(a) \/ StPoliciesRemove(a)
        \/ StOauthClientsCreate(a) \/ StOauthClientsRemove(a) \/ StOauthRegisterDynamic(a)
        \/ StOauthProbe(a) \/ StOauthStart(a) \/ StOauthCancel(a)
        \/ StToolkitsCreate(a) \/ StToolkitsRemove(a)
        \/ StIntegrationsList(a) \/ StConnectionsList(a) \/ StPoliciesList(a)
        \/ StProvidersList(a) \/ StOauthClientsList(a) \/ StToolkitsList(a)
        \/ StConnectionsCreateHandoff(a) \/ StOauthClientsCreateHandoff(a)
        \/ StProvidersItems(a) \/ InvokeStored(a)
        \/ ConnectionListed(a) \/ DynamicRegistered(a) \/ FetchAsMetadata(a) \/ RemoteFails(a)

CoreSpec == CoreInit /\ [][CoreNext]_coreVars
-----------------------------------------------------------------------------
(* Nothing an agent does by itself changes what is configured: every       *)
(* change is made by a call that a person accepted or that was sent with   *)
(* the approval, or by a tool a person approved for the session.  Only     *)
(* oauth.cancel may end a login unasked.                                   *)
UnaskedCallsChangeNothing ==
    [][coreConfig' # coreConfig =>
         \E a \in Agent :
            /\ agentCall'[a] # agentCall[a]
            /\ \/ agentCall[a].agreed
               \/ SessionApproved(agentCall[a].tool)
               \/ /\ agentCall[a].tool = Core(<<"oauth", "cancel">>)
                  /\ coreConfig' = [coreConfig EXCEPT !.sessions = coreConfig'.sessions]
      ]_coreVars

(* Arguments the schema accepts are enough for the handler: a tool never   *)
(* asks for a missing field, unless a form an approver filled in put       *)
(* something over it.                                                      *)
AcceptedArgumentsSuffice ==
    \A a \in Agent : agentCall[a].reply = "missing" => agentCall[a].merged

(* A call that was shown to a person runs the tool that was shown as long  *)
(* as there is one, and once it is gone no other than the only one whose   *)
(* path goes on where the shown one ended, whatever connections list while *)
(* it waits.  Paths of an integration called "tools" are taken for         *)
(* addresses.                                                              *)
RunsAsShown(shown, ran) ==
    \/ ran = shown
    \/ shown[1] = "tools"
    \/ /\ shown \notin StaticPaths \cup storedTools
       /\ {t \in StaticPaths \cup storedTools : IsPrefix(shown, t)} = {ran}

(* What was let through, by the schema and by the person who was asked, is *)
(* what runs: the tool that was shown or what its path means now, with all *)
(* the fields it needs.                                                    *)
AcceptedCallsRunAsShown ==
    [][/\ AcceptedArgumentsSuffice'
       /\ \A a \in Agent :
            agentCall[a].phase = "paused" /\ agentCall'[a].phase = "running" =>
                RunsAsShown(agentCall[a].meant, agentCall'[a].tool)]_coreVars

(* "A politica pede aprovacao para <address>" (console resume page.tsx:50) *)
(* and "Address to invoke on accept" (execution.rs:300): an accepted call  *)
(* runs the tool the person was shown, or none.                            *)
AcceptedToolIsTheOneShown ==
    \A a \in Agent :
        agentCall[a].phase \in {"running", "remote"} => agentCall[a].tool = agentCall[a].meant
=============================================================================
