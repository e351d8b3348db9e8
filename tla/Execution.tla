------------------------------ MODULE Execution ------------------------------
(***************************************************************************)
(* The bounded execute / resume runtime of crates/executor-engine together *)
(* with the rows it keeps in the catalog store.  One tool is modelled: its *)
(* effective policy, its session-approval record and the executions of it. *)
(*                                                                         *)
(* A task is one call of Executor::execute or Executor::resume.  A step is *)
(* what the code does between two points where another task may run: one   *)
(* store operation (a spawn_blocking closure, or one synchronous store     *)
(* call) or one side of the tool invocation.  A task dropped by its        *)
(* deadline leaves the store operation it was waiting for running on its   *)
(* blocking thread: that operation moves to `late' and lands afterwards.   *)
(***************************************************************************)
EXTENDS Naturals, FiniteSets

CONSTANTS
    Task,         \* concurrent callers of execute / resume
    Id,           \* execution ids that can be minted
    Key,          \* caller-supplied idempotency keys
    NoId, NoKey,  \* absence of an id / of a key
    MaxInFlight,  \* Limits.max_in_flight
    MaxPolls,     \* poll budget of outcome_from_execution (50 in the code)
    SqliteStore,  \* TRUE: SqliteCatalog, FALSE: MemoryCatalog
    OauthTool,    \* the tool's connection may need an OAuth pause
    Policies,     \* effective actions the operators' rules give the tool
    Choices,      \* persist choices callers send along with an accept
    MaxCrashes    \* bound on restarts

ASSUME BoundsAssumption ==
    /\ MaxInFlight \in Nat \ {0}
    /\ MaxPolls \in Nat \ {0}
    /\ MaxCrashes \in Nat
    /\ SqliteStore \in BOOLEAN
    /\ OauthTool \in BOOLEAN

ASSUME ValuesAssumption ==
    /\ NoId \notin Id
    /\ NoKey \notin Key
    /\ IsFiniteSet(Task)
    /\ Policies \subseteq {"approve", "require", "block"}
    /\ Choices \subseteq {"none", "session", "always"}

VARIABLES
    pc,        \* where each task is
    loc,       \* the locals of each task
    permits,   \* available permits of Inner.semaphore
    rows,      \* the executions table
    idem,      \* the idempotency table
    session,   \* a session_approvals record exists for the tool
    policy,    \* effective policy action of the tool
    late,      \* store operations of dropped tasks that have not run yet
    minted,    \* ids handed out by ExecutionId::mint
    known,     \* ids a caller has been told
    crashes,   \* number of restarts so far
    \* history, read by properties only
    runs,      \* how often the tool was invoked for an id
    answers,   \* how many executes with a key got an answer from the tool
    takes,     \* how often a paused row was handed to a resume
    declined,  \* ids some caller declined
    promised,  \* last reply for an id that no resume has consumed since
    seen       \* facts that held at some time since a task was admitted

table   == <<rows, idem>>
rules   == <<session, policy>>
history == <<runs, answers, takes, declined, promised>>
vars    == <<pc, loc, permits, rows, idem, session, policy, late, minted,
             known, crashes, runs, answers, takes, declined, promised,
             seen>>

-----------------------------------------------------------------------------
(* Values *)

Actions    == {"approve", "require", "block"}
RowStates  == {"absent", "running", "paused", "completed"}
Facts      == {"open", "approve", "session"}
PCs        == {"idle", "replay", "mint", "claim", "winner", "markRunning",
               "join", "gate", "session", "dispatch", "pause", "lookup",
               "invoking", "persist", "take", "delete", "remember",
               "rememberPolicy", "resolve"}

Locals == [kind    : {"none", "execute", "resume"},
           key     : Key \cup {NoKey},
           id      : Id \cup {NoId},
           target  : Id \cup {NoId},   \* the id being polled
           polls   : 0..MaxPolls,
           yes     : BOOLEAN,          \* opts.auto_approve
           auto    : BOOLEAN,          \* the `auto' that dispatch is given
           action  : {"accept", "decline"},
           choice  : {"none", "session", "always"},
           row     : RowStates,        \* what the SELECT of a take read
           outcome : {"none", "paused", "completed"},
           gaveUp  : BOOLEAN]          \* polling another id's row ran out

NoLocals == [kind |-> "none", key |-> NoKey, id |-> NoId, target |-> NoId,
             polls |-> 0, yes |-> FALSE, auto |-> FALSE,
             action |-> "accept", choice |-> "none", row |-> "absent",
             outcome |-> "none", gaveUp |-> FALSE]

LateOps == [op : {"claim"}, key : Key, id : Id]
           \cup [op : {"put"}, id : Id, row : RowStates]
           \cup [op : {"take"}, id : Id]

(* The facts about the tool's gate that a state witnesses. *)
FactsOf(pol, ses) == (IF pol # "block" THEN {"open"} ELSE {})
                     \cup (IF pol = "approve" THEN {"approve"} ELSE {})
                     \cup (IF ses THEN {"session"} ELSE {})

Init ==
    /\ pc = [t \in Task |-> "idle"]
    /\ loc = [t \in Task |-> NoLocals]
    /\ permits = MaxInFlight
    /\ rows = [i \in Id |-> "absent"]
    /\ idem = [k \in Key |-> NoId]
    /\ session = FALSE
    /\ policy \in Policies
    /\ late = {}
    /\ minted = {}
    /\ known = {}
    /\ crashes = 0
    /\ runs = [i \in Id |-> 0]
    /\ answers = [k \in Key |-> 0]
    /\ takes = [i \in Id |-> 0]
    /\ declined = {}
    /\ promised = [i \in Id |-> "none"]
    /\ seen = [t \in Task |-> {}]

-----------------------------------------------------------------------------
(* Admission and return *)

(* acquire_permit with a zero acquire_timeout: take a permit or fail.  The *)
(* failure (Overloaded) changes nothing and is not a step.                 *)
Admit(t, locals, next) ==
    /\ pc[t] = "idle"
    /\ permits > 0
    /\ permits' = permits - 1
    /\ pc' = [pc EXCEPT ![t] = next]
    /\ loc' = [loc EXCEPT ![t] = locals]
    /\ seen' = [seen EXCEPT ![t] = FactsOf(policy, session)]

(* Faulty: the permit is forgotten instead of dropped. *)
ReturnKeepingPermit(t) ==
    /\ pc' = [pc EXCEPT ![t] = "idle"]
    /\ loc' = [loc EXCEPT ![t] = NoLocals]
    /\ seen' = [seen EXCEPT ![t] = {}]
    /\ UNCHANGED permits

(* The call returns: its permit is dropped. *)
Return(t) ==
    /\ permits' = permits + 1
    /\ pc' = [pc EXCEPT ![t] = "idle"]
    /\ loc' = [loc EXCEPT ![t] = NoLocals]
    /\ seen' = [seen EXCEPT ![t] = {}]

Goto(t, next, locals) ==
    /\ pc' = [pc EXCEPT ![t] = next]
    /\ loc' = [loc EXCEPT ![t] = locals]
    /\ UNCHANGED <<permits, seen>>

(* The caller is told the outcome of an execution. *)
Reply(i, outcome) ==
    /\ known' = known \cup {i}
    /\ promised' = [promised EXCEPT ![i] = outcome]

StartExecute(t, k, yes) ==
    /\ Admit(t, [NoLocals EXCEPT !.kind = "execute", !.key = k, !.yes = yes],
             IF k = NoKey THEN "mint" ELSE "replay")
    /\ UNCHANGED <<table, rules, late, minted, known, crashes, history>>

(* A persist choice is read only when the pause is accepted. *)
StartResume(t, i, action, choice) ==
    /\ i \in known
    /\ action = "decline" => choice = "none"
    /\ Admit(t, [NoLocals EXCEPT !.kind = "resume", !.id = i,
                                 !.action = action, !.choice = choice], "take")
    /\ UNCHANGED <<table, rules, late, minted, known, crashes, history>>

-----------------------------------------------------------------------------
(* execute_gated *)

(* replay_idempotent: has this key been used before? *)
Replay(t) ==
    /\ pc[t] = "replay"
    /\ LET first == idem[loc[t].key]
       IN  IF first = NoId
             THEN Goto(t, "mint", loc[t])
             ELSE Goto(t, "join", [loc[t] EXCEPT !.target = first, !.polls = 0])
    /\ UNCHANGED <<table, rules, late, minted, known, crashes, history>>

(* outcome_from_execution: one poll of another execution's row.  A task    *)
(* that polls before it minted an id goes on to mint; one that lost the    *)
(* claim goes on to run under its own id.                                  *)
Join(t) ==
    /\ pc[t] = "join"
    /\ \/ /\ rows[loc[t].target] \in {"paused", "completed"}
          /\ Reply(loc[t].target, rows[loc[t].target])
          /\ Return(t)
       \/ /\ rows[loc[t].target] \in {"absent", "running"}
          /\ LET n == loc[t].polls + 1
             IN  IF n < MaxPolls
                   THEN Goto(t, "join", [loc[t] EXCEPT !.polls = n])
                   ELSE IF loc[t].id = NoId
                     THEN Goto(t, "mint", [loc[t] EXCEPT !.polls = n])
                     ELSE Goto(t, "gate", [loc[t] EXCEPT !.polls = n,
                                                         !.gaveUp = TRUE])
          /\ UNCHANGED <<known, promised>>
    /\ UNCHANGED <<table, rules, late, minted, crashes, runs, answers,
                   takes, declined>>

(* resolve_path, validate_args and ExecutionId::mint. *)
Mint(t) ==
    /\ pc[t] = "mint"
    /\ \E i \in Id \ minted :
         /\ minted' = minted \cup {i}
         /\ Goto(t, IF loc[t].key = NoKey THEN "gate" ELSE "claim",
                 [loc[t] EXCEPT !.id = i])
    /\ UNCHANGED <<table, rules, late, known, crashes, history>>

(* put_idempotency: the first writer wins. *)
PutIdempotency(k, i) ==
    idem' = IF idem[k] = NoId THEN [idem EXCEPT ![k] = i] ELSE idem

Claim(t) ==
    /\ pc[t] = "claim"
    /\ PutIdempotency(loc[t].key, loc[t].id)
    /\ Goto(t, "winner", loc[t])
    /\ UNCHANGED <<rows, rules, late, minted, known, crashes, history>>

(* Faulty: the loser of a claim runs as if it had won. *)
RunWithoutWinning(t) ==
    /\ pc[t] = "winner"
    /\ Goto(t, "markRunning", loc[t])
    /\ UNCHANGED <<table, rules, late, minted, known, crashes, history>>

(* claim_idempotent reads the key back to learn who won. *)
ReadWinner(t) ==
    /\ pc[t] = "winner"
    /\ LET winner == idem[loc[t].key]
       IN  IF winner = loc[t].id
             THEN Goto(t, "markRunning", loc[t])
             ELSE Goto(t, "join", [loc[t] EXCEPT !.target = winner, !.polls = 0])
    /\ UNCHANGED <<table, rules, late, minted, known, crashes, history>>

MarkRunning(t) ==
    /\ pc[t] = "markRunning"
    /\ rows' = [rows EXCEPT ![loc[t].id] = "running"]
    /\ Goto(t, "gate", loc[t])
    /\ UNCHANGED <<idem, rules, late, minted, known, crashes, history>>

(* The first gate of execute_gated: only Block stops the call here. *)
Gate(t) ==
    /\ pc[t] = "gate"
    /\ IF policy = "block" THEN Return(t) ELSE Goto(t, "session", loc[t])
    /\ UNCHANGED <<table, rules, late, minted, known, crashes, history>>

(* auto = opts.auto_approve || session_approved(tool) *)
ReadSession(t) ==
    /\ pc[t] = "session"
    /\ Goto(t, "dispatch", [loc[t] EXCEPT !.auto = loc[t].yes \/ session])
    /\ UNCHANGED <<table, rules, late, minted, known, crashes, history>>

-----------------------------------------------------------------------------
(* dispatch *)

(* Faulty: the approval of a resume outranks Block. *)
DispatchPastBlock(t) ==
    /\ pc[t] = "dispatch"
    /\ IF policy = "require" /\ ~loc[t].auto THEN Goto(t, "pause", loc[t])
                                             ELSE Goto(t, "lookup", loc[t])
    /\ UNCHANGED <<table, rules, late, minted, known, crashes, history>>

(* Faulty: RequireApproval is treated like Approve. *)
DispatchWithoutPause(t) ==
    /\ pc[t] = "dispatch"
    /\ IF policy = "block" THEN Return(t) ELSE Goto(t, "lookup", loc[t])
    /\ UNCHANGED <<table, rules, late, minted, known, crashes, history>>

(* dispatch gates again, against the policies of this moment. *)
Dispatch(t) ==
    /\ pc[t] = "dispatch"
    /\ CASE policy = "block" -> Return(t)
         [] policy = "require" /\ ~loc[t].auto -> Goto(t, "pause", loc[t])
         [] OTHER -> Goto(t, "lookup", loc[t])
    /\ UNCHANGED <<table, rules, late, minted, known, crashes, history>>

(* pause_for_approval writes the paused row itself ... *)
Pause(t) ==
    /\ pc[t] = "pause"
    /\ rows' = [rows EXCEPT ![loc[t].id] = "paused"]
    /\ Goto(t, "persist", [loc[t] EXCEPT !.outcome = "paused"])
    /\ UNCHANGED <<idem, rules, late, minted, known, crashes, history>>

(* An outcome of dispatch: execute stores it first, resume replies at once. *)
Finish(t, outcome) ==
    IF loc[t].kind = "execute"
      THEN /\ Goto(t, "persist", [loc[t] EXCEPT !.outcome = outcome])
           /\ UNCHANGED <<known, promised>>
      ELSE /\ known' = known \cup {loc[t].id}
           /\ promised' = IF outcome = "paused"
                            THEN [promised EXCEPT ![loc[t].id] = "paused"]
                            ELSE promised
           /\ Return(t)

(* invoke_dynamic: connection, integration, plugin and secrets are at hand *)
(* and the upstream call goes out.                                         *)
Invoke(t) ==
    /\ pc[t] = "lookup"
    /\ runs' = [runs EXCEPT ![loc[t].id] = @ + 1]
    /\ Goto(t, "invoking", loc[t])
    /\ UNCHANGED <<table, rules, late, minted, known, crashes,
                   answers, takes, declined, promised>>

(* oauth::prepare finds no token and hands out an authorization URL. *)
AuthPause(t) ==
    /\ pc[t] = "lookup"
    /\ OauthTool
    /\ Finish(t, "paused")
    /\ UNCHANGED <<table, rules, late, minted, crashes, runs, answers,
                   takes, declined>>

(* The tool answers, with a result or with a tool-level error. *)
ToolAnswers(t) ==
    /\ pc[t] = "invoking"
    /\ Finish(t, "completed")
    /\ answers' = IF loc[t].key = NoKey THEN answers
                  ELSE [answers EXCEPT ![loc[t].key] = @ + 1]
    /\ UNCHANGED <<table, rules, late, minted, crashes, runs,
                   takes, declined>>

(* Faulty: the caller gets the outcome although the row was not written. *)
ReplyWithoutRow(t) ==
    /\ pc[t] = "persist"
    /\ Reply(loc[t].id, loc[t].outcome)
    /\ Return(t)
    /\ UNCHANGED <<table, rules, late, minted, crashes, runs, answers,
                   takes, declined>>

(* ... and persist_outcome writes the row (again, after a pause). *)
PersistOutcome(t) ==
    /\ pc[t] = "persist"
    /\ rows' = [rows EXCEPT ![loc[t].id] = loc[t].outcome]
    /\ Reply(loc[t].id, loc[t].outcome)
    /\ Return(t)
    /\ UNCHANGED <<idem, rules, late, minted, crashes, runs, answers,
                   takes, declined>>

-----------------------------------------------------------------------------
(* resume_gated *)

(* A resume got the row: whoever holds a paused one has used up the pause. *)
Consume(i, row) ==
    /\ promised' = [promised EXCEPT ![i] = "none"]
    /\ takes' = IF row = "paused" THEN [takes EXCEPT ![i] = @ + 1] ELSE takes

(* The match on (state, action) once the row has been taken. *)
Taken(t, row) ==
    /\ Consume(loc[t].id, row)
    /\ IF row = "paused" /\ loc[t].action = "accept"
         THEN /\ Goto(t, IF loc[t].choice = "none" THEN "resolve" ELSE "remember",
                      [loc[t] EXCEPT !.auto = TRUE, !.row = "absent"])
              /\ UNCHANGED <<known, declined>>
         ELSE /\ Return(t)
              /\ declined' = IF row = "paused" THEN declined \cup {loc[t].id}
                                               ELSE declined
              /\ UNCHANGED known

(* Faulty: the row is read but stays in the table. *)
TakeLeavingRow(t) ==
    /\ pc[t] = "take"
    /\ ~SqliteStore
    /\ Taken(t, rows[loc[t].id])
    /\ UNCHANGED <<table, rules, late, minted, crashes, runs, answers>>

(* MemoryCatalog::take_execution removes the row under its write lock. *)
TakeAtomic(t) ==
    /\ pc[t] = "take"
    /\ ~SqliteStore
    /\ rows' = [rows EXCEPT ![loc[t].id] = "absent"]
    /\ Taken(t, rows[loc[t].id])
    /\ UNCHANGED <<idem, rules, late, minted, crashes, runs, answers>>

(* SqliteCatalog::take_execution: a SELECT ... *)
TakeSelect(t) ==
    /\ pc[t] = "take"
    /\ SqliteStore
    /\ Goto(t, "delete", [loc[t] EXCEPT !.row = rows[loc[t].id]])
    /\ UNCHANGED <<table, rules, late, minted, known, crashes, history>>

(* ... and then a DELETE, outside any transaction. *)
TakeDelete(t) ==
    /\ pc[t] = "delete"
    /\ rows' = [rows EXCEPT ![loc[t].id] = "absent"]
    /\ Taken(t, loc[t].row)
    /\ UNCHANGED <<idem, rules, late, minted, crashes, runs, answers>>

(* Every task that is in flight witnesses the new policy and approvals. *)
Witness ==
    seen' = [t \in Task |-> IF pc[t] = "idle" THEN {}
                            ELSE seen[t] \cup FactsOf(policy', session')]

(* apply_persist: both choices write the session_approvals record ... *)
Remember(t) ==
    /\ pc[t] = "remember"
    /\ session' = TRUE
    /\ UNCHANGED policy
    /\ pc' = [pc EXCEPT ![t] = IF loc[t].choice = "always"
                                 THEN "rememberPolicy" ELSE "resolve"]
    /\ Witness
    /\ UNCHANGED <<loc, permits, table, late, minted, known, crashes, history>>

(* ... and "always" adds an Approve rule, which another rule may outrank. *)
RememberPolicy(t) ==
    /\ pc[t] = "rememberPolicy"
    /\ policy' \in {policy, "approve"}
    /\ UNCHANGED session
    /\ pc' = [pc EXCEPT ![t] = "resolve"]
    /\ Witness
    /\ UNCHANGED <<loc, permits, table, late, minted, known, crashes, history>>

Resolve(t) ==
    /\ pc[t] = "resolve"
    /\ Goto(t, "dispatch", loc[t])
    /\ UNCHANGED <<table, rules, late, minted, known, crashes, history>>

-----------------------------------------------------------------------------
(* Failures *)

(* Where `?' leaves the handler: the path does not resolve, a store        *)
(* operation fails, the connection, plugin or secret is missing, the       *)
(* plugin reports an error.  Nothing written so far is undone.             *)
FailPoints == {"replay", "join", "mint", "claim", "winner", "markRunning",
               "gate", "dispatch", "pause", "lookup", "invoking", "persist",
               "take", "delete", "remember", "rememberPolicy", "resolve"}

Fail(t) ==
    /\ pc[t] \in FailPoints
    /\ Return(t)
    /\ UNCHANGED <<table, rules, late, minted, known, crashes, history>>

(* Faulty: the deadline is not raced against the tool. *)
AwaitPointsButTool == {"replay", "join", "mint", "claim", "winner", "markRunning",
                       "gate", "lookup", "persist", "take", "delete"}

(* Where select_deadline can drop the future: it is waiting for a blocking *)
(* store operation or for the tool.                                        *)
AwaitPoints == {"replay", "join", "mint", "claim", "winner", "markRunning",
                "gate", "lookup", "invoking", "persist", "take", "delete"}

(* The store operation the dropped future was waiting for: spawn_blocking  *)
(* closures cannot be aborted.                                             *)
LateOp(t) ==
    CASE pc[t] = "claim" ->
           {[op |-> "claim", key |-> loc[t].key, id |-> loc[t].id]}
      [] pc[t] = "markRunning" ->
           {[op |-> "put", id |-> loc[t].id, row |-> "running"]}
      [] pc[t] = "persist" ->
           {[op |-> "put", id |-> loc[t].id, row |-> loc[t].outcome]}
      [] pc[t] \in {"take", "delete"} ->
           {[op |-> "take", id |-> loc[t].id]}
      [] OTHER -> {}

(* Timeout, cancellation and a caller that hangs up all drop the future.   *)
(* A resume can be dropped before its first poll, with nothing started.    *)
Deadline(t) ==
    /\ pc[t] \in AwaitPoints
    /\ \/ late' = late \cup LateOp(t)
       \/ pc[t] = "take" /\ UNCHANGED late
    /\ Return(t)
    /\ UNCHANGED <<table, rules, minted, known, crashes, history>>

(* A store operation whose caller is gone runs to its end. *)
LateOpRuns(w) ==
    /\ w \in late
    /\ late' = late \ {w}
    /\ \/ /\ w.op = "claim"
          /\ PutIdempotency(w.key, w.id)
          /\ UNCHANGED <<rows, promised>>
       \/ /\ w.op = "put"
          /\ rows' = [rows EXCEPT ![w.id] = w.row]
          /\ UNCHANGED <<idem, promised>>
       \/ /\ w.op = "take"
          /\ rows' = [rows EXCEPT ![w.id] = "absent"]
          /\ promised' = [promised EXCEPT ![w.id] = "none"]
          /\ UNCHANGED idem
    /\ UNCHANGED <<pc, loc, permits, rules, minted, known, crashes,
                   runs, answers, takes, declined, seen>>

(* The process dies and comes back on the same SQLite file. *)
Crash ==
    /\ SqliteStore
    /\ crashes < MaxCrashes
    /\ crashes' = crashes + 1
    /\ pc' = [t \in Task |-> "idle"]
    /\ loc' = [t \in Task |-> NoLocals]
    /\ permits' = MaxInFlight
    /\ late' = {}
    /\ seen' = [t \in Task |-> {}]
    /\ UNCHANGED <<table, rules, minted, known, history>>

-----------------------------------------------------------------------------
(* Environment *)

(* An operator edits the rules and the tool's effective action changes. *)
SetPolicy(a) ==
    /\ a # policy
    /\ policy' = a
    /\ UNCHANGED session
    /\ Witness
    /\ UNCHANGED <<pc, loc, permits, table, late, minted, known,
                   crashes, history>>

-----------------------------------------------------------------------------

Step(t) ==
    \/ Replay(t) \/ Join(t) \/ Mint(t) \/ Claim(t) \/ ReadWinner(t)
    \/ MarkRunning(t) \/ Gate(t) \/ ReadSession(t) \/ Dispatch(t) \/ Pause(t)
    \/ Invoke(t) \/ AuthPause(t) \/ ToolAnswers(t) \/ PersistOutcome(t)
    \/ TakeAtomic(t) \/ TakeSelect(t) \/ TakeDelete(t)
    \/ Remember(t) \/ RememberPolicy(t) \/ Resolve(t)
    \/ Fail(t) \/ Deadline(t)

Next ==
    \/ \E t \in Task, k \in Key \cup {NoKey}, yes \in BOOLEAN :
         StartExecute(t, k, yes)
    \/ \E t \in Task, i \in Id, a \in {"accept", "decline"},
          c \in Choices : StartResume(t, i, a, c)
    \/ \E t \in Task : Step(t)
    \/ \E w \in late : LateOpRuns(w)
    \/ \E a \in Policies : SetPolicy(a)
    \/ Crash

Spec == Init /\ [][Next]_vars

(* The tokio timer of select_deadline fires, and code between two awaits   *)
(* runs on.  Nothing is assumed of the tool, of the store or of callers.   *)
RunsOn(t) == pc[t] \in {"session", "dispatch", "pause", "remember",
                        "rememberPolicy", "resolve"} /\ Step(t)

Fairness == \A t \in Task : WF_vars(Deadline(t)) /\ WF_vars(RunsOn(t))

FairSpec == Spec /\ Fairness
-----------------------------------------------------------------------------
(* Properties *)

(* Every variable keeps its type: locals, rows, pending store operations   *)
(* and histories of the execute / resume handlers.                         *)
TypeOK ==
    /\ pc \in [Task -> PCs]
    /\ loc \in [Task -> Locals]
    /\ permits \in Nat
    /\ rows \in [Id -> RowStates]
    /\ idem \in [Key -> Id \cup {NoId}]
    /\ session \in BOOLEAN
    /\ policy \in Actions
    /\ late \subseteq LateOps
    /\ minted \subseteq Id
    /\ known \subseteq Id
    /\ crashes \in Nat
    /\ runs \in [Id -> Nat]
    /\ answers \in [Key -> Nat]
    /\ takes \in [Id -> Nat]
    /\ declined \subseteq Id
    /\ promised \in [Id -> {"none", "paused", "completed"}]
    /\ seen \in [Task -> SUBSET Facts]

InFlight == {t \in Task : pc[t] # "idle"}

(* Permits are neither lost nor invented: whatever way a call ends (reply, *)
(* error, deadline in the middle of a store operation, restart), the free  *)
(* permits and the calls in flight add up to max_in_flight.                *)
PermitAccounting == permits + Cardinality(InFlight) = MaxInFlight

PastClaim == {"markRunning", "gate", "session", "dispatch", "pause", "lookup",
              "invoking", "persist"}

Executing(t) == loc[t].kind = "execute" /\ pc[t] \in PastClaim

(* Two executes with one idempotency key are past the claim together only  *)
(* if one of them gave up waiting for the other: claim_idempotent lets the *)
(* loser through only after outcome_from_execution ran out of polls.       *)
OneOwnerPerKey ==
    \A s, t \in Task :
        /\ Executing(s) /\ Executing(t)
        /\ s # t
        /\ loc[s].key = loc[t].key
        /\ loc[s].key # NoKey
        => loc[s].gaveUp \/ loc[t].gaveUp

(* A tool is invoked only if its policy was not Block at some moment since *)
(* the call was admitted: neither auto_approve, nor a session approval,    *)
(* nor the acceptance of a pause taken before the Block gets past gate().  *)
(* (The rule that an acceptance for good writes may go ahead of a broader  *)
(* Block: that is an edit of the policy like any other.)                   *)
NoRunUnderStandingBlock ==
    \A t \in Task : pc[t] \in {"lookup", "invoking"} => "open" \in seen[t]

(* A tool runs with approval only: the caller's own auto_approve, an       *)
(* Approve policy or a session approval that held since the call was       *)
(* admitted, or, for a resume, a paused row it took and accepted.          *)
RunNeedsApproval ==
    \A t \in Task : pc[t] \in {"lookup", "invoking"} =>
        IF loc[t].kind = "resume"
          THEN takes[loc[t].id] > 0 /\ loc[t].action = "accept"
          ELSE loc[t].yes \/ seen[t] \cap {"approve", "session"} # {}

(* What a call replied stays true: an id reported completed or paused has  *)
(* that row until some resume takes it, across dropped calls, late store   *)
(* operations, other calls with the same key and restarts.  Only the pause *)
(* that a resume reports for want of an OAuth token may have no row.       *)
RepliesAreDurable ==
    \A i \in Id : promised[i] # "none" =>
        \/ rows[i] = promised[i]
        \/ OauthTool /\ promised[i] = "paused" /\ takes[i] > 0

(* lib.rs: "Resume a paused execution (single-use)": one pause is handed   *)
(* to one resume.                                                          *)
SingleUse == \A i \in Id : takes[i] <= 1

(* A pause is decided once, and the decision stands: it is handed to one   *)
(* resume, and if that one declines, the execution is not run.  Calls that *)
(* joined an execution on its key may be told of its pause too early.      *)
PausesAreDecidedOnce ==
    \A i \in Id : (\A k \in Key : idem[k] # i) =>
        takes[i] <= 1 /\ (i \in declined => runs[i] = 0)

(* execution.rs: "retried executes reuse the first outcome": the tool      *)
(* gives at most one answer under an idempotency key.                      *)
OneOutcomePerKey == \A k \in Key : answers[k] <= 1

(* oauth.rs: "Open this URL to authorize the connection, then resume.": an *)
(* id reported paused can be resumed, i.e. its row is there.               *)
PausedReplyIsResumable ==
    \A i \in Id : promised[i] = "paused" => rows[i] = "paused"

(* Every admitted call returns: the deadline of select_deadline ends the   *)
(* calls whose tool, or whose store operation, never answers.              *)
AdmittedCallsEnd ==
    \A t \in Task : (pc[t] # "idle") ~> (pc[t] = "idle")

=============================================================================
