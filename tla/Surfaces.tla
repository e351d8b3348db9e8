------------------------------- MODULE Surfaces -------------------------------
(***************************************************************************)
(* How calls and answers reach the engine, and what comes back: the        *)
(* command line (call, resume), HTTP (/execute, /executions, /resume, the  *)
(* resume link and the endpoints that call a built-in tool), and the MCP   *)
(* endpoint (execute, invoke, resume).  Replies may be lost and calls      *)
(* repeated.  What the engine does between the two is one step here; its   *)
(* own steps are those of Execution.                                       *)
(***************************************************************************)
EXTENDS Integers, FiniteSets

CONSTANTS
    MaxExecutions,   \* bound: execution ids
    MaxRepeats       \* bound: how often a call is repeated

VARIABLES
    ask,             \* the client's call; it has a key of its own
    callStage,       \* "idle", "sent" or "told"
    reply,           \* the last reply the client saw; nothing when it was lost
    repeats,
    keyRow,          \* the execution the key of the call was claimed for; 0: none
    rows,            \* executions as stored
    remembered,      \* a session approval of the tool that asks is stored
    \* history, read by properties only
    mine,            \* executions of the present call
    runs,            \* how often its tool was run
    unsafe,          \* it was repeated although nothing said it may be
    unasked,         \* the tool that asks ran for a call that left the question open
    allowed,         \* an answer let it run, to be remembered
    ranOn            \* what the answers meant on which a paused tool ran

surfaceVars == <<ask, callStage, reply, repeats, keyRow, rows, remembered,
                 mine, runs, unsafe, unasked, allowed, ranOn>>

Exec == 1..MaxExecutions
Http == {"call", "execute", "endpoint"}
Script == {"call", "agent"}          \* the tool is called by a script
Front == Http \cup {"agent", "invoke"}
Ask == {a \in [front : Front, asks : BOOLEAN, yes : BOOLEAN, keyed : BOOLEAN] :
            a.yes \/ a.keyed => a.front \in {"call", "execute"}}
Nothing == [kind |-> "none", code |-> 0]

SurfacesInit ==
    /\ ask = [front |-> "call", asks |-> FALSE, yes |-> FALSE, keyed |-> FALSE]
    /\ callStage = "idle" /\ reply = Nothing /\ repeats = 0 /\ keyRow = 0
    /\ rows = [e \in Exec |-> "unused"] /\ remembered = FALSE
    /\ mine = {} /\ runs = 0 /\ unsafe = FALSE
    /\ unasked = FALSE /\ allowed = FALSE /\ ranOn = {}
-----------------------------------------------------------------------------
(* The options each surface hands to the engine.  /executions has no field *)
(* for the key that the command line sends; agents cannot say yes; the     *)
(* endpoints of the console always do.                                     *)
ExecuteBody == [auto |-> ask.yes, keyed |-> ask.keyed]
ExecutionBody == [auto |-> ask.yes, keyed |-> FALSE]
EndpointOptions == [auto |-> TRUE, keyed |-> FALSE]
AgentOptions == [auto |-> FALSE, keyed |-> FALSE]
InvokeOptions == [auto |-> FALSE, keyed |-> FALSE]

Options ==
    CASE ask.front = "execute" -> ExecuteBody
      [] ask.front = "call" -> ExecutionBody
      [] ask.front = "endpoint" -> EndpointOptions
      [] ask.front = "agent" -> AgentOptions
      [] ask.front = "invoke" -> InvokeOptions

(* Faulty: a deadline is reported like a full house. *)
StatusOfBusy(err) ==
    CASE err \in {"overloaded", "timeout", "cancelled"} -> 429
      [] err \in {"blocked", "denied"} -> 403 [] err = "rejected" -> 401
      [] err = "not_found" -> 404 [] err \in {"invalid", "code"} -> 400
      [] OTHER -> 502

Status(err) ==
    CASE err = "overloaded" -> 429
      [] err = "timeout" -> 504
      [] err = "cancelled" -> 408
      [] err \in {"blocked", "denied"} -> 403
      [] err = "rejected" -> 401
      [] err = "not_found" -> 404
      [] err \in {"invalid", "code"} -> 400
      [] OTHER -> 502

JsonRpcCode(err) ==
    CASE err = "overloaded" -> -32000
      [] err = "timeout" -> -32001
      [] err = "cancelled" -> -32002
      [] err = "not_found" -> -32601
      [] err = "invalid" -> -32602
      [] err = "rejected" -> -32004
      [] OTHER -> -32003

(* What the engine's error becomes when a script made the call: the script *)
(* throws, unless the deadline around the script ends it.                  *)
RunCode(err) == {"code"} \cup ({err} \cap {"timeout", "cancelled"})

Failures(err) ==
    LET code(e) == IF ask.front \in Http THEN Status(e) ELSE JsonRpcCode(e)
        errors == IF ask.front \in Script THEN RunCode(err) ELSE {err}
    IN {[kind |-> "error", code |-> code(e)] : e \in errors}
Completed == [kind |-> "completed", code |-> 200]
Paused == [kind |-> "paused", code |-> 200]

(* The reply is sent, and seen or lost on the way.                         *)
Tell(replies) ==
    /\ callStage' = "told"
    /\ \E r \in replies \cup {Nothing} : reply' = r
-----------------------------------------------------------------------------
MakeCall == \E call \in Ask :
    /\ callStage # "sent" /\ rows[MaxExecutions] = "unused"
    /\ ask' = call /\ callStage' = "sent" /\ reply' = Nothing
    /\ repeats' = 0 /\ keyRow' = 0
    /\ mine' = {} /\ runs' = 0 /\ unsafe' = FALSE
    /\ UNCHANGED <<rows, remembered, unasked, allowed, ranOn>>

(* The answers after which a call may be made again: nothing was run.      *)
SafeCodes == {401, 403, 404, 429, -32000, -32004, -32601}
KeyIsKept == Options.keyed /\ keyRow # 0 /\ rows[keyRow] = "completed"

RepeatCall ==
    /\ callStage = "told" /\ repeats < MaxRepeats
    /\ callStage' = "sent" /\ reply' = Nothing /\ repeats' = repeats + 1
    /\ unsafe' = (unsafe \/ ~(KeyIsKept \/ reply.code \in SafeCodes))
    /\ UNCHANGED <<ask, keyRow, rows, remembered, mine, runs, unasked, allowed, ranOn>>

Replays == Options.keyed /\ keyRow # 0 /\ rows[keyRow] \in {"completed", "paused"}

ReplayCall ==
    /\ callStage = "sent" /\ Replays
    /\ Tell({IF rows[keyRow] = "paused" THEN Paused ELSE Completed})
    /\ UNCHANGED <<ask, repeats, keyRow, rows, remembered, mine, runs, unsafe, unasked,
                   allowed, ranOn>>

RefuseCall == \E err \in {"overloaded", "not_found", "invalid"} :
    /\ callStage = "sent" /\ (err # "overloaded" => ~Replays)
    /\ Tell(Failures(err))
    /\ UNCHANGED <<ask, repeats, keyRow, rows, remembered, mine, runs, unsafe, unasked,
                   allowed, ranOn>>

(* A new id e; it claims the key unless an earlier one has it.  A claimed  *)
(* row is Running until an outcome is stored: a call that fails leaves it. *)
NewId(e) ==
    /\ callStage = "sent" /\ ~Replays
    /\ rows[e] = "unused" /\ \A d \in Exec : rows[d] = "unused" => e <= d
    /\ mine' = mine \cup {e}
Claims == Options.keyed /\ keyRow = 0
Claim(e) == keyRow' = IF Claims THEN e ELSE keyRow
Unfinished == IF Claims THEN "running" ELSE "absent"
Waits == ask.asks /\ ~Options.auto /\ ~remembered

BlockCall == \E e \in Exec :
    /\ NewId(e) /\ Claim(e)
    /\ rows' = [rows EXCEPT ![e] = Unfinished]
    /\ Tell(Failures("blocked"))
    /\ UNCHANGED <<ask, repeats, remembered, runs, unsafe, unasked, allowed, ranOn>>

PauseCall == \E e \in Exec :
    /\ NewId(e) /\ Claim(e) /\ Waits
    /\ rows' = [rows EXCEPT ![e] = "paused"]
    /\ Tell({Paused})
    /\ UNCHANGED <<ask, repeats, remembered, runs, unsafe, unasked, allowed, ranOn>>

(* A token was refused before the call, or it failed at any moment.        *)
RunCall == \E e \in Exec, ran \in BOOLEAN,
              fate \in {"done", "timeout", "cancelled", "failed", "denied", "rejected"} :
    /\ NewId(e) /\ Claim(e) /\ ~Waits
    /\ fate = "done" => ran
    /\ fate \in {"denied", "rejected"} => ~ran
    /\ rows' = [rows EXCEPT ![e] = IF fate = "done" THEN "completed" ELSE Unfinished]
    /\ Tell(IF fate = "done" THEN {Completed} ELSE Failures(fate))
    /\ runs' = IF ran THEN runs + 1 ELSE runs
    /\ unasked' = (unasked \/ (ran /\ ask.asks /\ ~ask.yes /\ ask.front # "endpoint"))
    /\ UNCHANGED <<ask, repeats, remembered, unsafe, allowed, ranOn>>
-----------------------------------------------------------------------------
(* An answer is a word, of a person (command, request or resume link) or   *)
(* of the model; the browser form of the resume tool takes none.           *)
Word == {"accept", "decline", "cancel"}
Route == {"said", "browser"}

(* Faulty: the word cancel is not known. *)
ParseAnyButDecline(word) == IF word = "decline" THEN "decline" ELSE "accept"

ParseResume(word) ==
    CASE word = "decline" -> "decline" [] word = "cancel" -> "cancel" [] OTHER -> "accept"
CallResume(route, word) == IF route = "browser" THEN "accept" ELSE ParseResume(word)
Meant(route, word) ==
    IF route = "browser" THEN "not said"
    ELSE IF word \in {"decline", "cancel"} THEN "no" ELSE "yes"

(* The row is taken whatever it holds; an answer is not stored, and what   *)
(* the tool does on it may fail at any moment.                             *)
AnswerPause == \E e \in Exec, route \in Route, word \in Word, persist, ran \in BOOLEAN :
    LET accepted == rows[e] = "paused" /\ CallResume(route, word) = "accept" IN
    /\ rows[e] \in {"paused", "completed", "running"}
    /\ ran => accepted
    /\ rows' = [rows EXCEPT ![e] = "absent"]
    /\ remembered' = (remembered \/ (accepted /\ persist))
    /\ allowed' = (allowed \/ (rows[e] = "paused" /\ persist /\ Meant(route, word) # "no"))
    /\ ranOn' = IF ran THEN ranOn \cup {Meant(route, word)} ELSE ranOn
    /\ runs' = IF ran /\ e \in mine THEN runs + 1 ELSE runs
    /\ unsafe' = (unsafe \/ keyRow = e)
    /\ UNCHANGED <<ask, callStage, reply, repeats, keyRow, mine, unasked>>

SurfacesNext ==
    \/ MakeCall \/ RepeatCall \/ ReplayCall \/ RefuseCall
    \/ BlockCall \/ PauseCall \/ RunCall \/ AnswerPause

SurfacesSpec == SurfacesInit /\ [][SurfacesNext]_surfaceVars
-----------------------------------------------------------------------------
(* What is said to a pause is what happens, whichever way it is said: no   *)
(* tool runs on an answer that declines or cancels, and a tool that asks   *)
(* runs without a question only for an operator's yes or the console's     *)
(* endpoints (http.rs:485, mcp.rs:480, plugins.rs:44), or after an answer  *)
(* that let it run and was to be remembered.                               *)
AnswersAreHeard == "no" \notin ranOn /\ (unasked => allowed)

(* A call that is made again only after an answer which says that nothing  *)
(* ran, or with its key while the outcome is stored, runs its tool once at *)
(* most: the statuses of map_outcome and the codes of jsonrpc_code keep    *)
(* the errors before the tool (401, 403, 404, 429) apart from those after. *)
RetriesRunOnce == ~unsafe => runs <= 1

(* mcp.rs:44: in browser mode "Model cannot choose accept/decline"; the    *)
(* resume tool is to "Request user approval".  A paused tool should run    *)
(* only when somebody said yes.                                            *)
RunsAreApproved == ranOn \subseteq {"yes"}
=============================================================================
