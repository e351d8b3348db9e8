----------------------------- MODULE McpSessions -----------------------------
(***************************************************************************)
(* The MCP endpoint: sessions of Streamable HTTP clients, the options each *)
(* keeps (executor-host/src/mcp.rs), the toolkits that scope some URLs     *)
(* (http.rs), and clients that keep the session id of the last response,   *)
(* like the stdio bridge of the CLI (mcp_bridge.rs).  Sessions live in     *)
(* memory; toolkits are stored.                                            *)
(***************************************************************************)
EXTENDS Integers, FiniteSets

CONSTANTS
    Client, Slug, McpTool,
    Url,             \* of each client: [slug, mode, elicitation, search]
    Nil,             \* no toolkit, session, slug or mode
    MaxSessions      \* bound: sessions ever created

ASSUME McpAssumption ==
    /\ MaxSessions \in Nat /\ Nil \notin 1..MaxSessions
    /\ Nil \notin {"code", "passthrough"} /\ Nil \notin Slug
    /\ Url \in [Client -> [slug : Slug \cup {Nil}, mode : {"code", "passthrough", Nil},
                           elicitation : {"browser", "model"}, search : BOOLEAN]]

VARIABLES
    toolkits,        \* each slug's tools, or Nil
    hub,             \* options by session id
    nextSession,
    sid,             \* the id each client sends
    listed,          \* the names each client has from its last tools/list
    \* history, read by properties only
    answer,          \* the last answer, and whom it was for
    scopedOnce       \* sessions created while their client's toolkit was there

mcpVars == <<toolkits, hub, nextSession, sid, listed, answer, scopedOnce>>

Session == 1..MaxSessions
Scope == (SUBSET McpTool) \cup {Nil}
McpOptions == [mode : {"code", "passthrough"}, elicitation : {"browser", "model"},
               search : BOOLEAN, toolkit : Scope]

McpInit ==
    /\ toolkits = [s \in Slug |-> Nil]
    /\ hub = [i \in Session |-> Nil]
    /\ nextSession = 1
    /\ sid = [c \in Client |-> Nil]
    /\ listed = [c \in Client |-> {}]
    /\ answer = Nil
    /\ scopedOnce = {}

-----------------------------------------------------------------------------
(* The options of one request. *)

McpOpts(url) ==
    [mode |-> IF url.mode = Nil THEN "code" ELSE url.mode,
     elicitation |-> url.elicitation, search |-> url.search, toolkit |-> Nil]

(* Faulty: an id that is not in the hub any more gets the default options. *)
ResolveToDefault(c) ==
    IF sid[c] = Nil THEN McpOpts(Url[c])
    ELSE IF hub[sid[c]] # Nil THEN hub[sid[c]]
    ELSE [mode |-> "code", elicitation |-> "browser", search |-> FALSE, toolkit |-> Nil]

ResolveOpts(c) ==
    IF sid[c] # Nil /\ hub[sid[c]] # Nil THEN hub[sid[c]] ELSE McpOpts(Url[c])

(* What the store says of the URL's toolkit; an error counts as none. *)
ToolkitBySlug(c) ==
    IF Url[c].slug = Nil THEN {Nil} ELSE {toolkits[Url[c].slug], Nil}

DispatchOpts(c, toolkit) ==
    IF toolkit = Nil THEN ResolveOpts(c)
    ELSE [ResolveOpts(c) EXCEPT !.toolkit = toolkit,
                                !.mode = IF Url[c].mode = Nil THEN "passthrough" ELSE @]

-----------------------------------------------------------------------------
(* The tools of a surface; "union" stands for the four that are always on  *)
(* offer: catalog_search, catalog_get, catalog_call and connections_list.  *)

SurfaceTools(opts) ==
    {"skills"} \cup
    IF opts.mode = "passthrough" THEN {"integrations", "search", "invoke"}
    ELSE {"execute", "resume"}

ListTools(opts) ==
    SurfaceTools(opts) \cup {"union"} \cup
    (IF opts.mode = "code" /\ opts.search THEN {"search_ns"} ELSE {})

Knows(opts, name) ==
    \/ name \in SurfaceTools(opts) \cup {"union"}
    \/ name = "search_ns" /\ opts.search

ToolAllowed(opts, t) == opts.toolkit = Nil \/ t \in opts.toolkit

(* The tools a call may reach: invoke and search keep to the toolkit, a    *)
(* script and search_ns do not.                                            *)
Reaches(opts, name) ==
    CASE name \in {"invoke", "search"} -> {t \in McpTool : ToolAllowed(opts, t)}
      [] name \in {"execute", "search_ns"} -> McpTool
      [] OTHER -> {}

-----------------------------------------------------------------------------
Answer(c, opts, toolkit, name, known) ==
    answer' = [client |-> c, opts |-> opts, found |-> toolkit, name |-> name, known |-> known,
               reached |-> IF known THEN Reaches(opts, name) ELSE {},
               widened |-> /\ Url[c].slug # Nil /\ opts.toolkit = Nil
                           /\ sid[c] \in scopedOnce /\ hub[sid[c]] # Nil]

(* Faulty: the session keeps the options from before the toolkit scopes    *)
(* them.                                                                   *)
InitializeUnscoped(c) == \E toolkit \in ToolkitBySlug(c), lost \in BOOLEAN :
    LET opts == DispatchOpts(c, toolkit) IN
    /\ IF sid[c] = Nil
       THEN /\ nextSession \in Session
            /\ hub' = [hub EXCEPT ![nextSession] = ResolveOpts(c)]
            /\ nextSession' = nextSession + 1
            /\ sid' = IF lost THEN sid ELSE [sid EXCEPT ![c] = nextSession]
            /\ scopedOnce' = IF toolkit = Nil THEN scopedOnce
                             ELSE scopedOnce \cup {nextSession}
       ELSE UNCHANGED <<hub, nextSession, sid, scopedOnce>>
    /\ Answer(c, opts, toolkit, "initialize", TRUE)
    /\ UNCHANGED <<toolkits, listed>>

(* initialize makes a session if the client sends no id; a client keeps    *)
(* its id for good, known or not.  The response may be lost.               *)
Initialize(c) == \E toolkit \in ToolkitBySlug(c), lost \in BOOLEAN :
    LET opts == DispatchOpts(c, toolkit) IN
    /\ IF sid[c] = Nil
       THEN /\ nextSession \in Session
            /\ hub' = [hub EXCEPT ![nextSession] = opts]
            /\ nextSession' = nextSession + 1
            /\ sid' = IF lost THEN sid ELSE [sid EXCEPT ![c] = nextSession]
            /\ scopedOnce' = IF toolkit = Nil THEN scopedOnce
                             ELSE scopedOnce \cup {nextSession}
       ELSE UNCHANGED <<hub, nextSession, sid, scopedOnce>>
    /\ Answer(c, opts, toolkit, "initialize", TRUE)
    /\ UNCHANGED <<toolkits, listed>>

ToolsList(c) == \E toolkit \in ToolkitBySlug(c) :
    LET opts == DispatchOpts(c, toolkit) IN
    /\ listed' = [listed EXCEPT ![c] = ListTools(opts)]
    /\ Answer(c, opts, toolkit, "tools/list", TRUE)
    /\ UNCHANGED <<toolkits, hub, nextSession, sid, scopedOnce>>

(* A client calls a tool that it was shown. *)
ToolsCall(c) == \E toolkit \in ToolkitBySlug(c), name \in listed[c] :
    LET opts == DispatchOpts(c, toolkit) IN
    /\ Answer(c, opts, toolkit, name, Knows(opts, name))
    /\ UNCHANGED <<toolkits, hub, nextSession, sid, listed, scopedOnce>>

(* A client may go on with an id it has deleted. *)
McpDelete(c) ==
    /\ sid[c] # Nil
    /\ hub' = [hub EXCEPT ![sid[c]] = Nil]
    /\ answer' = Nil
    /\ UNCHANGED <<toolkits, nextSession, sid, listed, scopedOnce>>

(* A new process of the client, e.g. of the bridge, knows nothing. *)
ClientStarts(c) ==
    /\ sid' = [sid EXCEPT ![c] = Nil]
    /\ listed' = [listed EXCEPT ![c] = {}]
    /\ answer' = Nil
    /\ UNCHANGED <<toolkits, hub, nextSession, scopedOnce>>

DaemonRestarts ==
    /\ hub' = [i \in Session |-> Nil]
    /\ answer' = Nil
    /\ UNCHANGED <<toolkits, nextSession, sid, listed, scopedOnce>>

(* toolkits.create replaces a toolkit of the same slug. *)
ToolkitsCreate == \E s \in Slug, tools \in SUBSET McpTool :
    /\ toolkits' = [toolkits EXCEPT ![s] = tools]
    /\ answer' = Nil
    /\ UNCHANGED <<hub, nextSession, sid, listed, scopedOnce>>

ToolkitsRemove == \E s \in Slug :
    /\ toolkits' = [toolkits EXCEPT ![s] = Nil]
    /\ answer' = Nil
    /\ UNCHANGED <<hub, nextSession, sid, listed, scopedOnce>>

McpNext ==
    \/ \E c \in Client : \/ Initialize(c) \/ ToolsList(c) \/ ToolsCall(c)
                         \/ McpDelete(c) \/ ClientStarts(c)
    \/ DaemonRestarts \/ ToolkitsCreate \/ ToolkitsRemove

McpSpec == McpInit /\ [][McpNext]_mcpVars
-----------------------------------------------------------------------------
(* A client's answers follow its URL (http.rs, mcp_dispatch), whatever     *)
(* restarts, deleted sessions and stale ids came between: the elicitation  *)
(* mode and the search tools are the URL's; so is the mode if it is given, *)
(* and else code mode and a toolkit exclude each other; a client without a *)
(* toolkit in its URL is shown no tool that it then cannot call.           *)
OptionsAreTheUrls ==
    answer # Nil =>
        LET url == Url[answer.client]
            opts == answer.opts
        IN /\ opts \in McpOptions
           /\ opts.elicitation = url.elicitation /\ opts.search = url.search
           /\ IF url.mode # Nil THEN opts.mode = url.mode
              ELSE opts.mode = "passthrough" <=> opts.toolkit # Nil
           /\ url.slug = Nil => answer.known

(* A client of /mcp/toolkits/{slug} that leaves the mode to the server     *)
(* reaches only tools of its toolkit: of the stored one, or, when that is  *)
(* gone, of the one its session began with.  It is without a scope only    *)
(* when the store has no toolkit and no session of the time when it had.   *)
(* A search tool is the exception: one that was listed while there was no  *)
(* toolkit is still answered, from all tools, when there is.               *)
ToolkitScopeHolds ==
    answer # Nil =>
        LET url == Url[answer.client] IN
        /\ answer.found # Nil => answer.opts.toolkit = answer.found
        /\ answer.found # Nil /\ url.mode = Nil /\ answer.name # "search_ns" =>
               answer.reached \subseteq answer.found
        /\ ~answer.widened

(* What a client gets is what its URL asks for: in options and in scope.   *)
AnswersFollowTheUrl == OptionsAreTheUrls /\ ToolkitScopeHolds
=============================================================================
