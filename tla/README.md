# A verification project for zoen-gateway

The repository is a gateway between agents and tools, in Rust ("Executor ∪ Treg").
This directory holds TLA+ models of its parts, the TLC runs that check them and
TLAPS proofs about them. Paths below are relative to the repository's `crates/`.

## 1. Inventory

| Component | State it keeps | Operations | What makes it correct | Module |
|---|---|---|---|---|
| Execute / resume runtime (`executor-engine/src/execute.rs`, `lib.rs`) | semaphore of `max_in_flight` permits | `execute`, `resume`, idempotent replay and claim, policy gates, approval pause, deadline | permits balance; a key has one owner; a pause is used once; no tool runs without approval or past a Block; replies stay true; calls end | `Execution` |
| Built-in tools (`executor-engine/src/static_tools.rs`, `agent_catalog.rs`, `lookup.rs`) | none of their own | about thirty tools over the configuration | nothing changes unasked; what runs is what was shown | `CoreTools` |
| Addresses and paths (`executor-core/src/address.rs`, `path.rs`, `executor-engine/src/lookup.rs`, `executor-cli/src/call_help.rs`) | none | browse, resolve | what runs is what was named | `ToolPaths`, `CallCommand` |
| Execution tables (`executor-storage/src/lib.rs`, `executor-core/src/store.rs`) | `executions`, `idempotency`; SQLite file or memory | put, get, take; put-if-absent | take is single-use; rows survive a restart | `Execution` |
| Key-value documents, arena (`executor-storage/src/lib.rs`, `executor-host/src/catalog_api.rs`) | the table `kv` and the tables that repeat parts of it; votes | put, delete; vote | a row says what its document says; votes count | `Documents` |
| Policies (`executor-core/src/policy.rs`, `position.rs`) | rules per owner, ordered by fractional keys | create, update, remove, match, rank | the first rule of each owner counts, the most restrictive wins; a new rule sorts where it was put | `PolicyKeys`, `Policies` |
| Catalog store (`executor-engine/src/catalog.rs`, storage, `executor-host/src/connections.rs`, `plugins.rs`) | integrations, connections, tools | register, create, patch, refresh, remove | every tool belongs to a connection, every connection to an integration | `ConnectionCatalog` |
| Priced catalog (`executor-catalog/src/call.rs`, `money.rs`) | ledger (balances, holds, grants), top-ups, team tools, relays, opt-out | call, route, overflow retry, top-up, register | money is conserved; a reply states the charge; own keys are free | `Ledger`, `CatalogCalls`, `Prepaid` |
| Code mode (`executor-codemode`, `executor-engine/src/code.rs`) | the isolate's clock, calls in flight | recover, strip types, choose a kernel, run, call a tool, pause | a script runs as it was written, once; a pause is not lost; a timeout is the script's own | `CodeRecovery`, `TypeStripping`, `ScriptSubset`, `CodeMode` |
| OAuth / EMA (`executor-engine/src/oauth.rs`, `ema.rs`, `executor-core/src/scope.rs`, `www_authenticate.rs`) | tokens among a connection's secrets | prepare, exchange; read a challenge | a refusal is final; a missing scope is recognised | `OAuth`, `Challenges` |
| Plugins (`executor-plugin-openapi`, `-graphql`, `-mcp`) | none | list tools, call one | an operation is a tool and a call is that operation; a reply is the server's | `OpenApiTools`, `GraphqlTools`, `McpUpstream` |
| Search (`executor-core/src/search.rs`) | none | rank, page | all that matches, each once, best first | `Search` |
| MCP endpoint (`executor-host/src/mcp.rs`, `executor-cli/src/mcp_bridge.rs`) | session table, toolkits | initialize, list, call, delete; lines and frames on stdio | an answer follows the client's URL; each request is answered once | `McpSessions`, `McpStdio` |
| HTTP, MCP and command line as surfaces (`executor-host/src/http.rs`, `mcp.rs`, `executor-cli/src/main.rs`) | none | options, answers, statuses | an answer is heard; a status tells whether to repeat | `Surfaces` |
| Daemon and commands (`executor-cli/src/daemon.rs`, `executor-storage/src/lock.rs`) | pointer, token and pid files, directory lock, port | ensure, start, stop | one owner per directory; a command finds it | `Daemon` |
| Profiles (`executor-cli/src/profiles.rs`) | `server-connections.json` | add, remove, default | the file is whole and has what was reported | `Profiles` |
| Device login (`executor-host/src/auth.rs`, `executor-cli/src/login.rs`) | grants with a TTL and a bound | code, approve, token | a token only after approval | `DeviceLogin` |
| Organisations (`executor-host/src/orgs.rs`) | teams, members, invites | create, invite, join | limits, owners, roles | `Orgs` |
| Default secret store (`executor-secrets/src/lib.rs`, `encrypt.rs`) | a map in memory, `secrets.json`, an id counter | `store_default`, open | a reference resolves, also after a restart; the file is never torn | `SecretStore` |
| External secrets (`executor-secrets/src/providers.rs`) | a lock, a command, a pipe | resolve | a lookup ends | `SecretBackends` |

How they interact: the host decodes a request and calls the engine (an `async`
function) or the catalog service. The engine awaits each store operation on a
blocking thread (`on_store`), so between any two of them other requests run, and
a request dropped by its deadline leaves the store operation it awaits running.
Plugins are awaited without a lock. The catalog service enters short critical
sections (ledger, tables) and awaits only its upstream. Operators edit rules and
connections at any time. A restart loses everything but the SQLite file and the
files of secrets, profiles and the daemon.

What is hard: interleavings at every await and, on SQLite, between two
statements; retries under a key; pauses that outlive what they were asked about;
files written by several processes through one temporary name; commands and
children whose pipes fill up; statuses from which a client decides to repeat.
`PROJECT.json`, "hazards", has each of these at its line with the properties
that would notice it going wrong.

## 2. How the project is laid out

One module per part, parameterised by its constants, each with a specification,
one type invariant where types are not plain, and properties about its hazards.
Parts that share state are one module or one composition: `CatalogCalls` is the
ledger with the requests over it and is shown to implement `Prepaid`; `Execution`
holds runtime and tables together; `Policies` decides what `Execution` takes as
the effective action of a tool; `Surfaces` takes the steps of `Execution` as one.
Parts that share no state are checked side by side: `MCEngine`, `MCHost`,
`MCInputs` and `MCLive` extend several modules and add one variable, chosen at
first and never changed, so that the state space is the sum and not the product of the
parts. Their `Spec` lets only the chosen part move. Where parts use one name for
interchangeable actors (a request is `t1` or `t2` in every part of the engine, a
command line user `a` or `b` in every part of the host) one symmetry serves all.

What the plan has left: theorems for `PagesAreTheRanking`,
`OperationsReachTheServer`, `CallsRunWhatWasNamed` and `ScriptsRunAsWritten`, which
need facts about sequences of words, segments and lexemes by induction on their
length (section 5). Then the arena's comparison runs and the rows of OAuth
sessions.

## 3. Modules and the code

### Execution

A *task* is one call of `Executor::execute` or `resume`. `pc` names the await or
the synchronous stretch the handler is in, `loc` its locals. `rows` and `idem`
are the two tables, reduced to what the handlers branch on: absent, running,
paused, completed. One tool is modelled: `policy` is its effective action (the
ranking of rules is `policy.rs`, not this module) and `session` its
session-approval record.

| Action | Code |
|---|---|
| `StartExecute`, `StartResume`, `Admit` | `execute`, `resume` up to the permit; with the permits gone nothing changes (`Overloaded`) |
| `Replay`, `Join` | `replay_idempotent`, one poll of `outcome_from_execution` |
| `Mint` | resolve, validate, `ExecutionId::mint` |
| `Claim`, `ReadWinner`, `MarkRunning` | the three store operations of `claim_idempotent` |
| `Gate`, `ReadSession`, `Dispatch` | the two policy gates and the read of the session approval between them |
| `Pause`, `PersistOutcome` | the two writes of an outcome |
| `Invoke`, `AuthPause`, `ToolAnswers` | `invoke_dynamic` |
| `TakeAtomic` / `TakeSelect`, `TakeDelete` | `take_execution` of the memory / SQLite store |
| `Remember`, `RememberPolicy`, `Resolve` | `apply_persist`, `resolve_path` of an accepted pause |
| `Fail`, `Deadline`, `LateOpRuns` | `?`, `select_deadline`, a store operation that outlives its call |
| `Crash`, `SetPolicy` | restart, rule edits |

`runs`, `answers`, `takes`, `declined`, `promised`, `seen` are history variables:
no guard reads them. `seen[t]` collects the facts about the gate that held at
some time since task `t` was admitted; with it "the policy was not Block at some
moment since" becomes a state predicate.

Abstracted: arguments, results and errors (payload); the number of polls (50 in
the code, `MaxPolls` here: the only thing that matters is that they run out);
the built-in tools (`CoreTools`), whose handlers change other state; time,
except that a deadline may fire at every await (nothing in the code looks at a
pause's `expires_at_ms`, so an old pause behaves like a new one).
`acquire_timeout` is modelled at zero; a positive one only delays admission.

### Ledger, CatalogCalls, Prepaid

`Ledger` has one operator per method of `MemoryLedger`, each one critical
section. `CatalogCalls` extends it with the requests: a task goes
`route → ladder → (signup → reserve →) invoke` and, when the platform account
fails, once more through `signup → reserve → invoke` under the relay.
`StartCall` takes the endpoint and looks up the saved key as `call_catalog`
does; `RouteToChild` is the recursive call for a routed endpoint, which passes the same
input on. `UpstreamServed`, `NotServed`, `Overflow`, `HangUp` are the ends of the
upstream call. `held`, `spent`, `credited`, `ordered`, `served`, `replied` and
`leaked` are history.

`Saturated` is `saturating_add`; `Wrapped` is the `+=` of the other two places in
a release build, where it wraps (a debug build panics instead).

`Prepaid` is what the catalog promises its users: funds go down only when an
answer is delivered, by exactly its published price. The refinement maps funds
to balance plus holds.

### ConnectionCatalog

A *task* is one request (or one refresh spawned by `patch_config`); `pc` names
its point between two operations of the store. `integrations` keeps each slug's
row, of which the model tells apart whether it is there, whether its plugin is
loaded and whether it may be removed; `connections` and `tools` say which rows
are there. `backend` is chosen in the initial state: on `memory` a removal or a
replacement is one step (one write lock), on `sqlite` one step per statement.

| Action | Code |
|---|---|
| `Register`, `RegisterPut`; `RegisterIntegration` | `register_kind` looks the slug up, then upserts; the SDK's register or replace |
| `PatchConfig`, `PatchConfigPut`, `PatchConfigRefresh`, `RunSpawned` | `patch_config`: read, write back, spawn a refresh per connection |
| `RemoveIntegration`, then `RemoveIntegrationMemory` or `DeleteIntegration`, `DeleteConnections`, `DeleteTools` | `remove_integration` of the engine and of each store |
| `CreateOverHttp`, `EnsureProviderPut`, `CreateByTool`, `CreateConnection`, `CreateCheck`, `CreatePut` | `create_connection`, which goes on as a refresh |
| `PatchConnection`, `PatchPut` | `patch_connection` |
| `RemoveConnectionMemory`, or `DeleteConnection`, `DeleteItsTools` | `remove_connection` |
| `RefreshConnection`, `ReadConnection`, `ReadRecord`, `CountTools`, `ToolsListed` / `NotListed` | `refresh_connection` up to the listing; the plugin's fetch is its one await, where a client may also hang up |
| `ReplaceTools`, or `ReplaceDelete`, `ReplaceInsert`, `ReplaceDone` | `replace_tools` |

`overlapped` and `disturbed` are history: a connection is disturbed when two
requests that touch it overlap or the process ends under one, until a refresh or
removal that overlaps no other has settled it. Abstracted: credentials,
descriptions and schemas; the names within one listing are distinct; refreshes
spawned twice for one connection before the first starts count as one.

### SecretStore

A *call* is one `store_default`. `items` is the map in memory as id-value pairs;
`disk` says what the two paths lead to; `at[c]` is where the file that call `c`
has open is linked now, since another call's rename may have moved it. A file is
its text and its length counted in items, which is enough to tell a whole text
from a torn one: the map only grows, so a longer map has a longer text.

| Action | Code |
|---|---|
| `Insert` | `MemorySecrets::store_default` |
| `Dump`, `Create`, `Write`, `Chmod`, `Rename` | `persist`, one step per system call; `fs::write` is two |
| `Fail` | any `?` of `persist` |
| `Crash`, `Open` | restart, `open_encrypted` and `load_map` |

`Write` is one write call. Power failures that lose what was not synced are out
of the model: the code does not call `fsync`, and a process that ends leaves the
kernel's view of the files as it is. `alone`, `refs`, `lone`, `mixed` are history.


### PolicyKeys, Policies

`PolicyKeys` is `position.rs` as operators on sequences of bytes. In `Policies` a
pattern and a tool path are sequences of segments, a rule is
`[id, owner, pattern, action, position]`, and an *editor* is a request between
the listing it read and its `put_policy`: `PoliciesCreate` and `PoliciesUpdate`
read, `PutPolicy` writes, `PersistAlways` is the rule an accepted pause leaves,
`PersistSession` its session approval. The clock decides ids (`pol_` and the
millisecond), so two creates may share one. `Verdict` is what the gate says of a
path. `unsorted`, `raced`, `promised`, `accepted` are history. What
`apply_persist` stores is the path of the row that the resume takes
(`PausedPaths`): the tool's cli path, since `persist_outcome` puts the path of
`PauseReason::Approval` over the address that `pause_for_approval` wrote. An
`always` rule therefore matches the gate and goes ahead of the organisation's
broader rules. A resume between the two writes takes the address (`InvokePath`):
the rule it leaves matches nothing, but its approval is still looked up.

### CodeMode

One script. The isolate, the bridge and the deadline are futures of one task:
while bytecode runs (`Compute`) neither of the others is polled, `Interrupt` is
the handler called between instructions. `BridgeTakes`, `BridgeReturns` stop and
restart the script's clock. A script may catch the pause of a call, call on,
throw, spin or end; `EvalEnds` is the decision `run` takes then. `kernel =
"native"` is `eval.rs`: `Form` is how the call stands in its statement, and
`NeedsValue` says when the kernel wants a value of it. In that case a pause has
been stored and its id is lost in "paused execution cannot bind";
`PauseIsReported` says so. An error whose text contains "interrupt" is reported
as a timeout, and `tools["a"]["b"]` drops the first part of the path in
`eval_index`; the former is in the model, the latter is not.

### OAuth, Challenges

`OAuth` follows `prepare`: the enterprise chain if the connection is wired for
it (candidates of discovery, ID-JAG exchange, redemption), client credentials,
a person. Each server reply is one of those the code tells apart;
`AfterEmaError` is the decision which failures may fall back.

`Challenges` reads a `WWW-Authenticate` header lexeme by lexeme
(`ConsumeToken` is `parse_challenges`) and compares it with the grammar of RFC
7235, stated separately by the neighbours of each lexeme. `DetectFromChallenge`,
`DetectFromStructured` and `DetectFromBody` are `scope.rs`; a body is a nest of
objects and lists with the word that matters inside, searched to depth 8.
`ToolErrorFromHttp` makes the error the caller sees.

### OpenApiTools, GraphqlTools, McpUpstream

`OpenApiTools`: `ResolveTools` gives a document's operations names
(`OperationId`, `Group`, `DeriveLeaf`, `ResolveCollisions`) and schemas;
`CallOperation` splits arguments over path, query, headers and body as
`invoke.rs` does. `Irregular` lists what the code treats oddly: a body that is a
list is sent wrapped, a cookie parameter is dropped, a parameter declared for
the path and the operation is sent twice.

`GraphqlTools`: `Introspected` shows `Depth` levels of a type, `OperationString`
prepares the operation, `InvokeField` sends it. Deeper types are "Unknown".

`McpUpstream`: one request over HTTP or over the pipes of a child: frames in
pieces, pipes of bounded size, a reading deadline per frame, a child that
answers, notifies, dies or is silent.

### Search, CoreTools, ToolPaths

`Search`: `ScoreToolMatch` and `SearchTools` rank, `Paginate` cuts, a client
reads page after page while `CatalogChanges`. How letters of two words relate is
given by the relations `Starts`, `Ends`, `Inside`. A query that says a word
twice finds nothing, which `Repeats` excludes.

`CoreTools`: the built-in tools as records `[path, required, optional, asks]`,
`ResolvePath` (in `ToolPaths`, which `CallCommand` uses too) from what was typed
to a tool, `ExecuteTool` with validation and the question, `AcceptCall` with the
fields of the approver's form merged over the arguments, one action `St…` per
handler. A paused call keeps the cli path of its tool (`PauseAddress`), and
`AcceptCall` resolves it again as if it had been typed: if the tool is gone and
its path is a prefix of exactly one other, that one runs (`RunsAsShown` is what
this allows, `MCCoreTools_shown` what a person is told instead). Four handlers
wait for a server in between (`AwaitRemote`). `meant` is the tool that was shown,
history.

### CallCommand, CodeRecovery, TypeStripping, ScriptSubset

What people and models type, and what is made of it.

`CallCommand`: `CallHelp` is `executor call --help` over the addresses the daemon
lists (`InspectToolPath`, the retry with `tools` in front, the nearest prefix
that exists); `Call` is `cmd_call`: the priced catalog first if the first word
has a dot, then `ResolveInvocation`, then `ResolvePath` in the engine. A word is
the sequence of its segments; of the last word it matters whether it is JSON or
a file, and whether that can be read. `ToolsChange` stands for refreshes and
removals between two commands. A path whose tool is gone runs another tool if
that is the only one whose path it begins: the code means it so, and
`CallsRunWhatWasNamed` allows it. The property is about names a person can type:
a segment that is empty or odd, a first segment that is taken for a flag and a
path that itself reads as another tool's address cannot be (`Typeable`).

`CodeRecovery`: a reply is a sequence of lexemes; `ExtractCandidate` looks for a
fence, `RenderHeuristic` wraps what looks like a function. `Recover` happens in
`execute_with` and again in `quickjs::run`. `Forms` lists what models write, with
what JavaScript does with each; `RunBody` is the isolate. Three kinds of program
are taken for something else (`Confusable`): one that begins with a function it
also calls, one that begins with `(` or `async` and has an arrow in it (a called
arrow, `(await x).map(x => x)`), which fails, and one with a fence in a text,
which is replaced by that text.

`TypeStripping`: `StripTypescript` walks over a script; each lexeme is copied or
`SkipAt` says where the type that begins there ends. Lexemes stand for the
characters of the code, which looks at the last character before and the first
after; comments and texts are one lexeme. A statement comes with the knowledge
which of its lexemes are types. `keyof` and `infer` (the latter skips a
character too few) and template literals are left out.

`ScriptSubset`: `Tokenize` and `Parse` are the native grammar at the level of
statements, `ParseJs` the grammar of JavaScript with its automatic semicolons;
`ExecuteWith` chooses the kernel, and a script's tools succeed, fail, pause or are
refused (`HowAnswered`). The kernels differ in what a call is. `RunNative` makes each
one where it stands, awaited or not; a name is bound to the envelope
`{ ok, data }`, a failure is a value too, and a pause or a refusal ends the script.
`RunProgram` makes promises: those begun so far are carried out when the script
awaits or returns one, the rest are dropped when it ends; an awaited call is worth
its bare data and throws if the tool fails. `KernelsAgreeOnPlainScripts` says how
far they agree all the same: on closed statements whose calls are awaited or
returned, the same calls are made (QuickJS may stop at one that failed), and if
all succeed the script ends alike, with the same value but for the envelope.
`CallsReturnTheUnion` is what models are told, and fails. Operands are a
variable, numbers, a tool call and a name that only JavaScript knows.

### McpSessions, McpStdio, Surfaces

`McpSessions`: the table of sessions and the toolkits; a client keeps the session
id of the last response, as the stdio bridge does; `ResolveOpts` and
`DispatchOpts` decide options from URL and session. `Reaches` is what a client
with these options can call. A search tool that was listed while there was no
toolkit is still answered from all tools when there is one: `ToolkitScopeHolds`
excepts it.

`McpStdio`: `stdio_loop` over a stream of ends of lines, headers and bodies.
`ReadLine`, `DrainHeaders`, `DrainBody` are the reads; a length that cannot be
read leaves the body to be taken for a line (`astray`).

`Surfaces`: what each front hands to the engine (`Options`), the status or code
an error becomes (`Status`, `JsonRpcCode`), what a word in answer to a pause is
taken for (`ParseResume`, `CallResume`), replies that are lost and calls that
are repeated. The row a call leaves is that of `Execution`, in one step:
a failed call leaves a claimed row Running, a resume takes the row and stores
nothing, so a repeated resume gets 502.

### SecretBackends, Documents

`SecretBackends`: users of the secrets share one read-write lock; a command runs
under the read lock, its output goes into a pipe that is read when it has ended,
and what it leaves running may hold the pipe open. Output larger than the pipe
ends in "timed out", and a killed child is not reaped.

`Documents`: `PutKv` and `DualWrite`, `DeleteKv` and `DualDelete` are the two
statements of a write on SQLite; `ReadVotes` and `WriteVotes` the arena's count.
`spoiled` remembers what a race, a failed second statement or a restart left
apart until a lone write repairs it.

### Daemon, Profiles, DeviceLogin, Orgs

`Daemon`: commands in `ensure_daemon` (token file, pointer, probe, port, spawn,
poll) and processes between spawn and exit (lock, token, pointer, bind), with
the files truncated and written in two steps, crashes, `stop` and a neighbour
that takes the port. `MaxAttempts` is at least two: the first attempt may be
spent on finding the default port taken (the code has five).

`Profiles`: load, edit, save by temporary file, system call by system call, by
commands that may be killed.

`DeviceLogin`: grants keyed by millisecond, pruned by age and bound, and the
devices that poll.

`Orgs`: each request put by put on the key-value store, any of which may fail.

### Composition for TLC

`MCExecution` is `Execution` alone, with symmetry; `MCStores` has it over both stores,
one per behaviour. `MCLive`, `MCEngine`, `MCHost` and `MCInputs` put parts
side by side (section 2); `MCInputs` and `MCCoreTools`, which
has three tools of one connection, are in turn parts of `MCEngine`, and
`MCCatalogCalls`, with a seed catalog, of `MCHost` and of `MCLive`. They define the small data they work on: an API of eight
operations with the collisions and carriers `Irregular` tells apart, eleven
lexemes, error bodies at and beyond the depth limit, three tools and seven
queries, five GraphQL fields, two MCP URLs, four rules and two edits, five tools
to browse, and thirty-odd statements with types.

### Faulty variants

An operator with a comment that begins "Faulty:" is not part of a specification.
It is what the definition below it would be with a plausible mistake (a permit
not returned, a row not deleted, a hold not released), and `PROJECT.json` pairs
it with the property that notices the mistake when it replaces the definition.

## 4. Runs

| Run (`.cfg`) | Checks | Instance |
|---|---|---|
| execution (`MCStores`) | `PausesAreDecidedOnce`, `NoRunUnderStandingBlock`, `RunNeedsApproval`, `OneOwnerPerKey` | `Execution`: 2 tasks, 2 ids, 1 key; over memory with 2 permits and rules that ask or block; over SQLite with 1 permit, 1 restart, OAuth and a rule that asks |
| calls_end (`MCLive`) | `PermitAccounting`, `RepliesAreDurable`, `AdmittedCallsEnd`; `RepliesAreTheServers`, `RequestsEnd`; `BackendCallsEnd`; `ImplementsPrepaid`, `HoldsEnd` | `Execution`: 2 tasks on 1 permit over SQLite, 1 restart, everything switched on; `McpUpstream`: pipes of 2; `SecretBackends`: 2 users, output of up to 2 pipes; `CatalogCalls`: 2 tasks, 1 priced endpoint with a relay, 3 ids |
| engine (`MCEngine`) | `ScriptsAreReported`; `RefusalIsFinal`; `OperationsReachTheServer`; `ScopeErrorsAreRead`; `PagesAreTheRanking`; `CatalogIsWhole`, `MemoryKeepsTheLimit`; `LoneRefsResolve`, `AtomicReplace`; `AcceptedCallsRunAsShown`, `UnaskedCallsChangeNothing`; `CallsRunWhatWasNamed`; `ScriptsRunAsWritten` | 3 tool calls and clocks of 2, 3 and 8; headers of 4 lexemes, six answers to a failed call; 3 operations of a document; 2 requests over 1 integration, 2 connections and 2 tool names, both stores, restarts; 2 secret writers, 3 ids, restarts; 2 agents; 3 commands over 5 tools; every form of script, dressed in every way; scripts of 2 statements |
| host (`MCHost`) | `LoneCommandsGetTheirDaemon`; `AnswersFollowTheUrl`; `ApprovalDecides`; `OuterBlockStands`, `EditsStandInOrder`, `AcceptedIsNotAskedAgain`; `TeamsAreKept`; `ProfilesAreKept`; `AnswersAreHeard`, `RetriesRunOnce`; `UndisturbedEditsStand`; `FramesAreAnswered`; `MoneyConserved`, `HoldsMatchCalls`, `ReplyStatesTheCharge` | 2 commands, 2 processes, 2 ports; 2 MCP clients, 2 sessions; 2 devices, 1 grant; 2 editors, 3 edits, a clock of 2 times; 2 requests on 3 teams; 2 commands on a file; 3 executions, a repeat; 2 writers; 3 frames; 2 priced calls of an endpoint or of one routed to it, 2 ids, a top-up, `MaxI64` = 4 so that a refund after a top-up overflows |

Why the bounds are enough. The races are between two actors (two resumes, two
executes with a key, two calls of one subject, two writers of a file); a third
only adds traffic. Two ids tell the winner of a key from its loser; one key, one
tool and one subject are each independent of the others. Two call ids let a
retry overlap another call; a relay, its registration, the call and the retry
take three, which the run about endings has, without top-ups. `MaxPolls` = 1 or 2 reaches both a poll that waits
and polls that run out. `PausesAreDecidedOnce` is about executions that no
key is bound to: with a key, a retry learns the id of a pause between its two writes
(`Pause`, `PersistOutcome`), its caller resumes, and the second write puts the
consumed pause back. It is checked over memory with two calls at once, and over SQLite with one at a
time, since two resumes at once break it there (`MCExecution_sqlite_take`). `RepliesAreDurable` excepts the OAuth pause of a
resume, which has no row (`MCExecution_oauth`); the run about endings checks it
over SQLite, where it is harder, and the proof has it for both stores.
Two connections of one integration are what a removal
of the integration, the size of the whole catalog and a spawned refresh have in
common. The limits of the catalog are small enough for two requests to find room
together and for two listings to mix. Two calls race for one temporary file, and
the third id lets another call, or a restart, come after them. Headers of four
lexemes hold two challenges of which one has a parameter, and a parameter that
follows a scheme and a comma; the theorem is about headers of any length. Queries
of up to three words meet tools of one to three words a text. `PageSize` = 0 asks
for the least page, which is one tool. Two times of the clock let two rules share
an id or not; `MaxGrants` = 1 makes the second login push the first out. Two processes
are one daemon and one that loses the race. Three edits are a create, an update
and a removal, or two creates between which a key must fit. A timeout
of two ticks and an outer one of three let either come first. Three frames
are a good one, a broken one and one after it. Three commands are a look at the
help, a change of the tools and a call. The stripper and the two grammars look
at most a statement ahead, so two statements show what one does to the next.

Symmetry is used only in runs without liveness and without `CHOOSE` over the
permuted sets. `CHECK_DEADLOCK FALSE` throughout: ids, orders and restarts are
bounded, and most parts end, so the bounded system stops when they are used up.

Fairness. `Execution!Fairness` assumes that the timer of `select_deadline` fires
(`WF` of `Deadline` for each task) and that code between two awaits runs on. It
assumes nothing of tools, store threads or callers: `AdmittedCallsEnd` holds
because of the deadline. `UpstreamFairness` assumes the clock and the reader,
and that the child reads: writing to it has no deadline. `BackendsFairness`
assumes that the polling thread runs (`WF` of `Waits`) and that a user that can
get the lock again and again gets it (`SF` of `GetsLock`: `parking_lot` unlocks
fairly from time to time); nothing of the commands. `CallsFairness`
assumes that a running handler continues; its only wait is the upstream call,
which the HTTP client's 15 s timeout cuts off, so `NotServed` is always enabled
there. `HangUp` is never fair.

### Where the code and its words disagree

Each of these runs checks one statement of the repository and finds a behaviour
of the code that contradicts it. `PROJECT.json`, "findings", has the lines.

| Run | Statement | What happens |
|---|---|---|
| execution_idempotency (`MCExecution_idempotency`) | retries "reuse the first outcome" | a retry that polled 50 times runs the tool itself, as does one whose row was left Running or was taken |
| execution_sqlite_take (`MCExecution_sqlite_take`) | resume is "single-use" | two SELECTs come before the first DELETE (with a key the second write of a pause breaks it over memory too) |
| execution_oauth (`MCExecution_oauth`) | "authorize the connection, then resume" | the row was taken and a resume's outcome is not stored |
| catalog_own_key (`MCCatalogCalls_own_key`) | "your key always wins and is never metered" | the saved key is looked up for the routed parent's provider |
| secrets_survive (`SecretStore_survive`) | a secret is there after reopening the store | the older snapshot is renamed last; after a restart one reference is unknown, or names another secret |
| tools_shown (`MCCoreTools_shown`) | a pause shows the "Address to invoke on accept" | the tool goes while the call waits; its path, resolved again, is a prefix of one other tool's, and that tool runs as approved |
| inputs_union (`MCInputs_union`) | "Tool calls return a value union: `{ ok: true, data }`" | a script that QuickJS takes gets bare data, and a failure is thrown |
| surfaces_browser (`Surfaces_browser`) | the model "cannot choose accept/decline", resume is to "request user approval" | in browser mode every resume accepts, with nobody asked |

## 5. Proofs

`ExecutionProofs` proves, for every set of tasks, ids and keys, every permit
count and poll budget and both stores, from `BoundsAssumption` and
`ValuesAssumption` only:

* `TypeCorrect`: `Spec => []TypeOK`. `TypeOK` is not inductive: `persist` writes
  `loc.outcome` into a row, `join` polls `loc.target`. `TypeInv` adds `PointOK`,
  what each point of the handler needs of the locals (a key, an id, a target, an
  outcome, polls left), and that a claimed key keeps its owner.
* `PermitsAccounted`: `Spec => []PermitAccounting`. `PermitInv` is `TypeInv` with
  the sum; every step either keeps a task in flight and the permits, or returns
  both (`StepPermit`), and cardinality facts about finite sets do the rest.
* `BlockHolds` and `ApprovalHolds`: `Spec => []NoRunUnderStandingBlock` and
  `Spec => []RunNeedsApproval`. Both follow from `GateInv`: a task in flight has
  seen every fact that holds now, and `Cleared`, the clearance its point of the
  handler presupposes: past `dispatch` it has seen an open gate; a task whose
  `auto` is set has a reason for it (its caller's flag, a seen session approval,
  an accepted pause). The approvals alone are not inductive, since `auto` is read
  at one await and used at a later one.

`OutcomesProofs` goes on from there, under the same assumptions:

* `IdsHaveOneOwner`: `Spec => []OwnInv`. No two executes run under one id, nor
  one beside a write that a dropped execute left behind (`IdsApart`,
  `PutsApart`); every id that a table, a caller or a late operation names was
  minted (`NamesMinted`); and which handler may be at which point (`RolesOK`).
* `KeysHaveOneOwner`: `Spec => []OneOwnerPerKey`. `KeyInv` says that an execute
  past the claim has the id its key is bound to, or gave up waiting; with one
  owner per id that is one owner per key.
* `RepliesStand`: `Spec => []RepliesAreDurable`, over both stores. `ReplyInv`
  adds what every pending write may still find of its row: an execute that has
  not stored an outcome, and a late write, find a row nobody was told of
  (`Quiet`); one that is storing a pause finds at most that pause told, and
  perhaps taken already (`Halted`: a call joined on the key may have been told
  between the two writes). Each step is then calm, except towards its own id.
* `PausesDecidedOnce`: `Spec => []PausesAreDecidedOnce` if the store is
  memory. `DecisionInv`: a paused row of an id that no key is bound to has not
  been taken and not been run, who was not told of an id did not decide on it,
  and a resume past its take is the only one. The hypothesis is needed: the two
  statements of SQLite's take hand a row to two resumes.

`SecretStoreProofs` proves, from `SecretsAssumption`, for every number of calls,
values and ids:

* `LoneRefsHold`: `SecretsSpec => []LoneRefsResolve`; `DiskNeverAhead`:
  `SecretsSpec => []DiskIsPastOfMemory`; `ReplaceIsAtomic`:
  `SecretsSpec => []AtomicReplace`. `DiskIsPastOfMemory` says that the file
  is never ahead of the map and that an id has one value; no run checks it.
  All three from `IInv`: each snapshot on its
  way to the disk is part of the map (`PointOK`), the map keeps one value per id
  below the counter (`MapOK`), a call that overlaps no other has the temporary
  file to itself (`LoneOK`), and a lone item is in every text from which the map
  could be read back (`RefOK`). The last is what makes `LoneRefsResolve` survive
  races: the readable texts a race can leave behind were all taken after the
  lone call returned.

`ConnectionCatalogProofs` proves, from `CatalogAssumption`:

* `CatalogTypeCorrect`: `CatalogSpec => []CatalogTypeOK`, with one lemma for each
  way a step moves its request.
* `MemoryLimitHolds`: `CatalogSpec => []MemoryKeepsTheLimit`. `LimitInv` adds
  that a listing on its way to the store has been measured and that only SQLite
  stores it piecemeal; every other step is `Quiet`: it adds no tool.
* `CatalogStaysWhole`: `CatalogSpec => []CatalogIsWhole`, over both stores, with
  restarts. `CatalogInv` has three parts. `MeasuredInv`: listings are finite and
  were measured. `SizeInv`: what is stored and what requests are about to store
  (`Reserved`) together exceed the limit by at most one full listing for each
  request; the sum over the connections is handled with `SumProofs`.
  `WholenessInv`: two requests on one connection both know of it (`SharedInv`), a
  request that has its connection to itself is as far as its point says
  (`ProgressInv`), and an undisturbed connection is whole (`WholeInv`).

`SumProofs` has the facts about `SumFunctionOnSet` of the community modules that
the two proofs about amounts need: what the sum over a set is with one entry
more, less or changed, and what bounds it. The fold is a `CHOOSE` of a recursive
function; that there is one over every finite set, and that two agree, is shown
by taking a least counterexample in the well-founded order of strict subsets, so
no induction theorem is needed.

`CatalogCallsProofs` proves, from `MoneyAssumption` and `CatalogAssumption`, for
every set of callers, subjects, endpoints and ids:

* `CallsTypeCorrect`: `CallsSpec => []CallsTypeOK`; `HoldsMatch`:
  `CallsSpec => []HoldsMatchCalls`. Both from `CoreInv`: the ledger's books of each
  subject (`LedgerInv`), what each stage needs of its request (`RequestsInv`),
  one id per metered call and one hold per id (`NumbersInv`), the other tables'
  types (`RestInv`).
* `MoneyIsConserved`: `CallsSpec => []MoneyConserved`, with `FlowInv` beside it:
  what was ordered is credited, pending in one intent or on its way in one
  request.
* `RepliesStateCharges`: `CallsSpec => []ReplyStatesTheCharge`.
* `CallsImplementPrepaid`: `CallsSpec => ImplementsPrepaid`, step by step, if
  `SignupGrant + MaxOrdered <= MaxI64`. The hypothesis is needed: a refund is
  added with `+=`, which wraps in a release build when a balance near the limit
  was topped up meanwhile, and then funds fall without an answer.
  `MoneyConserved` says as much in its own premise, and the run `host`, with its
  small `MaxI64`, has the overflow.

`HostProofs` proves the properties of the host's small parts, each under the
assumptions of its module, for any number of actors:

* `AnswersDecide`, `RepeatsRunOnce` (`Surfaces`): `AnswersInv`, a tool is
  remembered only by an answer that let it run; `RetriesInv`, where a client may
  repeat a call nothing of it ran, or its key keeps the outcome, and at most one
  execution is open or has run.
* `EditsStand` (`Documents`): `EditsInv`, two writers of one kind under way know
  of each other; `MirrorInv` and `VotesInv`, what a lone writer is still to write
  repairs the row.
* `ProfilesStand` (`Profiles`): `FilesInv` types, `SavingInv` for commands that
  save one at a time, `AloneInv` for commands that run one at a time.
* `TeamsStand` (`Orgs`): `HandledInv`, `OwnersInv`, `MembersInv` and `LimitInv`,
  which counts teams together with the puts under way.
* `ApprovalStands` (`DeviceLogin`): `GrantsInv`, `TwinsInv` (two devices with one
  code are known to share it), `ApprovedInv`, and `KeptInv`: a grant is there
  unless there is an excuse.
* `PolicyEditsStand`, `AcceptedStays`, `BlocksStand` (`Policies`): `PoliciesInv`
  is what is promised and what an editor under way may still put (`PutFits`);
  `AcceptedStays` rests on an accepted path having an approval under its cli path
  or its address (`PausedPaths`), whichever the resume found; the third is an
  action property.
* `UrlsAreFollowed` (`McpSessions`): `SessionsInv`, a session has the options of
  the URL that began it.
* `FramesGetAnswers` (`McpStdio`): `FramesInv` says that there is a course of the
  reader through all that is still to be read (`Reads`), and that the replies it
  will make are those still wanted (`Owes`). The course stands for the induction over
  the input: a write appends to it, a read takes its first step.
* `DaemonsAreFound` (`Daemon`): `OwnerInv` (who serves has lock, port and pid file),
  `CommandInv` (where each command is), and, undisturbed, `ProcessesLone` and
  `CommandsLone`: what the files say to a command that is alone.

`EngineProofs` does the same for the engine:

* `RefusalsAreFinal` (`OAuth`) from `PrepareInv`: no stage is reached past a
  refusal.
* `ScriptsEndAsReported` (`CodeMode`) from `ScriptInv`: the clock counts the
  script's own time since a tool came back, and the slot holds a pause as soon
  as there is one.
* `UpstreamAnswers` (`McpUpstream`) from `UpstreamInv`, which says of a child that
  only answers what is in both pipes before the handshake, in it and after it
  (`Handshake`, `HandshakeOver`).
* `AcceptedCallsRunTheirTool`, `ChangesAreAsked` (`CoreTools`) from `CoreInv`: a
  call under way is of a tool that was there (`TurnInv`). The first is an action
  property: the step that accepts a call runs the tool that was shown or, once
  that is gone, the only tool whose path goes on where the shown one ended
  (`RunsAsShown`). Its lemma `ResolvedAgain` says that the path of a stored tool is not
  mistaken for an address or for a built-in tool, so that only the prefix
  fallback can lead elsewhere. Two more lemmas over the table of tools carry the
  rest: each handler's needs are in its schema (`Fits`), and tools that change
  something ask (`Guarded`). `StoredAssumption` says that there are finitely many
  stored tools and that the address of one is read back as it.
* `ScopeErrorsRead` (`Challenges`), for headers of any length: `HeaderInv` says
  that the parser accepts what the grammar does, and that its challenges are the
  schemes of the header in their order, each with what its own parameters name
  (`Listed`). `DetectFromStructured` is a recursive function; its value is found
  with a witness for the function and a deepest counterexample, so the limit of
  nine levels holds for every body.

Only model-checked. `AdmittedCallsEnd`, `RequestsEnd`, `BackendCallsEnd` and
`HoldsEnd` are liveness under fairness, which is out of the prover's reach. Four
are open: `PagesAreTheRanking` (the order of a sorted page),
`OperationsReachTheServer` (names and arguments of a whole document),
`CallsRunWhatWasNamed` (paths found segment by segment) and
`ScriptsRunAsWritten` (two grammars over lexemes). What each computes over a
sequence is defined by recursion, and would have to be shown by induction on its
length, which has to be rephrased for these provers each time (as `SumProofs`,
`FramesInv` and `HeaderInv` do).

## 6. Not modelled

* Text: member access, objects and arrays of the native grammar, the letters of
  names and literals, schema extraction below names and carriers, ids, JSON
  Schema beyond required fields and odd values, terminal output, redirect and handoff
  URLs, PKCE.
* Edges: `jail.rs`, `guard.rs`, `sentry.rs`, `skills.rs`, `artifacts.rs`,
  `bundles.rs`, the service installer, HTTP routing and middleware, read-only
  endpoints, the console, the edge worker, the SDK's assembly of an `Executor`,
  the mock servers for tests, presets (data).
* Of modelled parts: authentication placement (the GraphQL and MCP plugins send
  a bearer token beside the placements), spec download and media types; the
  faithful relay, the arena's comparison runs, the catalog CLI's allow-list and
  the team tool that is matched by URL; a token or data directory set by the
  operator.
* Known and not a property: nothing compares a pause's `expires_at_ms` with the
  clock, so an old pause may be accepted days later; a resume consumes a
  completed or running row before it finds that it is not paused; a failed
  refresh leaves the connection that `create_connection` stored; the errors of a
  script come back as 400 or -32003 whatever its tool failed of; the id of a
  completed script is not stored; a script that parses but names `JSON` or
  `Math` fails in the native kernel and is not tried in QuickJS; a program that
  declares `async function main() {…}` and then calls `main()` gets a second
  call, so what it does is done twice; in `(a: T, b: U)` the second annotation
  stays, since a comma is before `b`; the native kernel reads `return n -1` as
  `return n` and then `-1`; declarations of
  types after a line without `;` and casts to a literal are not stripped; `v = ok ? x : y`
  loses what follows the colon to the stripper; `call --help` lists built-in
  tools by an address that a call does not find (`lookup.rs`).
* What properties except. `PausesAreDecidedOnce`: executions with a key, whose
  pause can be taken between its two writes and put back. `PagesAreTheRanking`: a
  catalog that changes between two pages, of which some entries may be repeated
  or skipped. `UndisturbedEditsStand`: rows that a race, a failed second statement
  or a restart left apart from their document. `LoneCommandsGetTheirDaemon`:
  commands that overlap others, for which only the ownership of the directory is
  stated. `RequestsEnd`: a child that no longer reads. `AnswersAreHeard`: words a
  surface does not offer, which `http.rs` takes for an acceptance.
  `NoRunUnderStandingBlock` is about the effective policy: an accepted
  `persist=always` writes a rule that goes ahead of a broader Block.
