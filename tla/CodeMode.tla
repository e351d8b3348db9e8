------------------------------ MODULE CodeMode ------------------------------
(***************************************************************************)
(* One code-mode script: the QuickJS isolate, the bridge that serves its   *)
(* tool calls one at a time, the isolate's clock that stops meanwhile, the *)
(* deadline around the run; and the native kernel for the small subset.    *)
(* The isolate, the bridge and the deadline are futures of one task: while *)
(* bytecode runs, neither the bridge nor the deadline is polled.           *)
(***************************************************************************)
EXTENDS Integers, Sequences

CONSTANTS
    ToolCall,        \* tool calls the script may make
    NoCall,
    MaxToolCalls,    \* Limits.max_tool_calls
    Timeout,         \* what isolate_timeout makes of Limits.execute_timeout
    OuterTimeout,    \* run_code's deadline
    MaxTime          \* bound: how long the model watches the script

ASSUME CodeModeAssumption ==
    /\ NoCall \notin ToolCall
    /\ MaxToolCalls \in Nat /\ MaxTime \in Nat
    /\ Timeout \in Nat \ {0} /\ OuterTimeout \in Nat

VARIABLES
    kernel,          \* "js" or "native"
    errors,          \* "interrupt": the word occurs in what the script throws
    script,          \* "running" bytecode or a statement, "waiting", "ended"
    queue,           \* requests sent to the bridge and not yet taken
    issued,          \* calls the script has made
    inFlight,        \* the call the host is serving
    form,            \* native: what the calling statement does with the result
    calls,           \* calls counted against MaxToolCalls
    now, lastReturn, \* time, and when the last tool call came back
    paused,          \* the bridge's slot for a paused execution
    reply,           \* what run_code returns
    \* history, read by properties only
    pauses,          \* calls that ended in a stored pause
    compute,         \* bytecode time since a tool call came back
    busyInFlight     \* bytecode ran while a call was being served

clockVars == <<now, lastReturn, compute, busyInFlight>>
scriptVars == <<kernel, errors, script, queue, issued, inFlight, form, calls>>
codeVars == <<scriptVars, paused, reply, pauses, clockVars>>

NoReply == [kind |-> "none", call |-> NoCall]
Answer(kind) == [kind |-> kind, call |-> NoCall]
PausedReply(c) == [kind |-> "paused", call |-> c]

Form == {"let", "return", "expr", "part"}

CodeModeTypeOK ==
    /\ kernel \in {"js", "native"} /\ errors \in {"plain", "interrupt"}
    /\ script \in {"running", "waiting", "ended"}
    /\ queue \in Seq(ToolCall) /\ issued \subseteq ToolCall
    /\ inFlight \in ToolCall \cup {NoCall}
    /\ form \in Form
    /\ calls \in Nat /\ now \in Nat /\ lastReturn \in 0..now /\ compute \in 0..now
    /\ paused \in pauses \cup {NoCall}
    /\ reply \in [kind : {"none", "value", "error", "timed_out", "deadline", "paused"},
                  call : pauses \cup {NoCall}]
    /\ pauses \subseteq ToolCall
    /\ busyInFlight \in BOOLEAN

CodeModeInit ==
    /\ kernel \in {"js", "native"}
    /\ errors \in {"plain", "interrupt"}
    /\ script = "running"
    /\ queue = <<>> /\ issued = {} /\ inFlight = NoCall /\ form = "expr" /\ calls = 0
    /\ now = 0 /\ lastReturn = 0 /\ compute = 0 /\ busyInFlight = FALSE
    /\ paused = NoCall /\ pauses = {} /\ reply = NoReply

(* Faulty: measures from the start and also while a tool is at work. *)
ExpiredByWallClock == now >= Timeout

(* The interrupt handler's question. *)
Expired == inFlight = NoCall /\ now - lastReturn >= Timeout

Reply(r) ==
    /\ script' = "ended"
    /\ reply' = r
    /\ queue' = <<>> /\ inFlight' = NoCall
    /\ UNCHANGED <<kernel, errors, issued, form, calls, paused, pauses, clockVars>>
-----------------------------------------------------------------------------
(* QuickJS. *)

Issue == \E c \in ToolCall :
    /\ kernel = "js" /\ script = "running" /\ c \notin issued
    /\ queue' = Append(queue, c)
    /\ issued' = issued \cup {c}
    /\ UNCHANGED <<kernel, errors, script, inFlight, form, calls, paused, reply, pauses, clockVars>>

(* A stretch of bytecode that the interrupt handler lets go on. *)
Compute ==
    /\ kernel = "js" /\ script = "running" /\ ~Expired
    /\ now < MaxTime
    /\ now' = now + 1
    /\ compute' = compute + 1
    /\ busyInFlight' = (busyInFlight \/ inFlight # NoCall)
    /\ UNCHANGED <<kernel, errors, issued, script, queue, inFlight, form, calls, lastReturn, paused, reply,
                   pauses>>

(* Every job of the isolate waits for a promise. *)
Await ==
    /\ kernel = "js" /\ script = "running"
    /\ script' = "waiting"
    /\ UNCHANGED <<kernel, errors, issued, queue, inFlight, form, calls, paused, reply, pauses, clockVars>>

(* A promise is settled, and the isolate's jobs run again. *)
Resume ==
    /\ lastReturn' = now
    /\ compute' = 0
    /\ script' = "running"
    /\ UNCHANGED <<now, busyInFlight>>

BridgeTakes ==
    /\ kernel = "js" /\ script = "waiting" /\ inFlight = NoCall /\ queue # <<>>
    /\ calls < MaxToolCalls
    /\ inFlight' = Head(queue)
    /\ queue' = Tail(queue)
    /\ calls' = calls + 1
    /\ UNCHANGED <<kernel, errors, issued, script, form, paused, reply, pauses, clockVars>>

(* One call too many, no path, arguments too large: the host is not asked. *)
BridgeRefuses ==
    /\ kernel = "js" /\ script = "waiting" /\ inFlight = NoCall /\ queue # <<>>
    /\ now < OuterTimeout
    /\ queue' = Tail(queue)
    /\ calls' = calls + 1
    /\ Resume
    /\ UNCHANGED <<kernel, errors, issued, inFlight, form, paused, reply, pauses>>

(* The host answers; a later pause takes the slot of an earlier one. *)
BridgeReturns == \E pausing \in BOOLEAN :
    /\ kernel = "js" /\ script = "waiting" /\ inFlight # NoCall
    /\ now < OuterTimeout
    /\ paused' = IF pausing THEN inFlight ELSE paused
    /\ pauses' = IF pausing THEN pauses \cup {inFlight} ELSE pauses
    /\ inFlight' = NoCall
    /\ Resume
    /\ UNCHANGED <<kernel, errors, issued, queue, form, calls, reply>>

(* Faulty: a script that returns a value has not been paused. *)
ValueFirst == \E kind \in {"value", "error"} :
    /\ kernel = "js" /\ script = "running"
    /\ Reply(IF kind = "value" \/ paused = NoCall THEN Answer(kind)
             ELSE PausedReply(paused))

(* The script returns or throws: a pause comes first, and an error after   *)
(* the deadline, or one that says "interrupt", is reported as the timeout. *)
EvalEnds == \E kind \in {"value", "error"} :
    /\ kernel = "js" /\ script = "running"
    /\ Reply(IF paused # NoCall THEN PausedReply(paused)
             ELSE IF kind = "error" /\ (Expired \/ errors = "interrupt") THEN Answer("timed_out")
             ELSE Answer(kind))

Interrupt ==
    /\ kernel = "js" /\ script = "running" /\ Expired
    /\ Reply(IF paused # NoCall THEN PausedReply(paused) ELSE Answer("timed_out"))
-----------------------------------------------------------------------------
(* The native subset: statements one after the other. *)

NativeCalls == \E c \in ToolCall, f \in Form :
    /\ kernel = "native" /\ script = "running" /\ c \notin issued
    /\ calls < MaxToolCalls
    /\ calls' = calls + 1
    /\ issued' = issued \cup {c}
    /\ inFlight' = c
    /\ form' = f
    /\ script' = "waiting"
    /\ UNCHANGED <<kernel, errors, queue, paused, reply, pauses, clockVars>>

(* A completed call goes on, unless it is what the script returns.         *)
NativeCompletes ==
    /\ kernel = "native" /\ script = "waiting" /\ form # "return"
    /\ script' = "running"
    /\ inFlight' = NoCall
    /\ UNCHANGED <<kernel, errors, issued, queue, form, calls, paused, reply, pauses, clockVars>>

(* What a name is bound to, or what becomes a part of an object, a list or *)
(* another call's arguments, has to be a value.                            *)
NeedsValue(f) == f \in {"let", "part"}

(* Elsewhere a pause ends the script, and so does a member of it.          *)
NativePauses ==
    /\ kernel = "native" /\ script = "waiting"
    /\ pauses' = pauses \cup {inFlight}
    /\ script' = "ended"
    /\ inFlight' = NoCall
    /\ reply' = IF NeedsValue(form) THEN Answer("error") ELSE PausedReply(inFlight)
    /\ UNCHANGED <<kernel, errors, issued, queue, form, calls, paused, clockVars>>

(* The last statement, or a returned result. *)
NativeEnds ==
    /\ kernel = "native"
    /\ script = "running" \/ (script = "waiting" /\ form = "return")
    /\ Reply(Answer("value"))

(* An error of the host, one call too many, the step limit, a name or a    *)
(* member that is not there.                                               *)
NativeFails ==
    /\ kernel = "native" /\ script \in {"running", "waiting"}
    /\ Reply(Answer("error"))
-----------------------------------------------------------------------------
(* Faulty: nothing limits the wait. *)
WaitOn ==
    /\ script = "waiting"
    /\ inFlight # NoCall \/ queue = <<>>
    /\ now < MaxTime
    /\ now' = now + 1
    /\ UNCHANGED <<kernel, errors, issued, script, queue, inFlight, form, calls, lastReturn, compute,
                   busyInFlight, paused, reply, pauses>>

(* Time passes for a task that is not running; the bridge takes a request  *)
(* as soon as it is idle, and the deadline fires when it is due.           *)
Wait ==
    /\ script = "waiting"
    /\ inFlight # NoCall \/ queue = <<>>
    /\ now < OuterTimeout
    /\ now' = now + 1
    /\ UNCHANGED <<kernel, errors, issued, script, queue, inFlight, form, calls, lastReturn, compute,
                   busyInFlight, paused, reply, pauses>>

(* select_deadline drops the run, the isolate and the call in flight. *)
DeadlineFires ==
    /\ script = "waiting" /\ now >= OuterTimeout
    /\ Reply(Answer("deadline"))

CodeModeNext ==
    \/ Issue \/ Compute \/ Await \/ BridgeTakes \/ BridgeRefuses \/ BridgeReturns
    \/ EvalEnds \/ Interrupt
    \/ NativeCalls \/ NativeCompletes \/ NativePauses \/ NativeEnds \/ NativeFails
    \/ Wait \/ DeadlineFires

CodeModeSpec == CodeModeInit /\ [][CodeModeNext]_codeVars
-----------------------------------------------------------------------------
(* A tool call that pauses waits for a person, so a script that catches    *)
(* the "execution paused" error cannot turn it into a value, an error or a *)
(* timeout (quickjs.rs, run): unless the outer deadline cuts the script,   *)
(* the reply is the latest pause.  The native kernel keeps to it when no   *)
(* value is needed: a pause that is bound to a name, or is a part of       *)
(* something, is stored and its id is lost.                                *)
PauseIsReported ==
    /\ reply.kind \in {"value", "error", "timed_out"} =>
         pauses = {} \/ (kernel = "native" /\ NeedsValue(form))
    /\ reply.kind = "paused" =>
         reply.call \in pauses /\ (kernel = "js" => reply.call = paused)

(* Tool calls pause the compute clock (quickjs.rs, Deadline): a script     *)
(* that is said to have timed out has itself run for the whole timeout     *)
(* since a tool last came back, however long its tools took (or has thrown *)
(* an error that speaks of an interrupt, which is taken for one).  And the *)
(* deadline and the interrupt together bound its life, unless bytecode     *)
(* runs while one of its calls is being served.                            *)
TimeoutsAreTheScripts ==
    /\ reply.kind = "timed_out" => compute >= Timeout \/ errors = "interrupt"
    /\ ~busyInFlight => now <= OuterTimeout + Timeout

(* A script's reply says what happened to it: a pause, or its own timeout. *)
ScriptsAreReported == PauseIsReported /\ TimeoutsAreTheScripts
=============================================================================
