----------------------------- MODULE McpUpstream -----------------------------
(***************************************************************************)
(* One request to an upstream MCP server (executor-plugin-mcp/src/lib.rs), *)
(* over HTTP, or over the pipes of a child process that is started for it. *)
(* The child is another program: it reads when it likes, answers requests  *)
(* in order, may send notifications in between, and may die.  Frames go    *)
(* through the pipes in pieces, and a full pipe blocks the writer.         *)
(***************************************************************************)
EXTENDS Integers, Sequences

CONSTANTS
    PipeSize,        \* pieces a pipe holds
    RequestSize,     \* pieces of the tools/call frame
    ReadTimeout      \* of each read_frame

ASSUME UpstreamAssumption ==
    /\ PipeSize \in Nat \ {0} /\ RequestSize \in Nat \ {0} /\ ReadTimeout \in Nat

VARIABLES
    step,            \* the plugin's place in stdio_rpc or http_rpc
    unwritten,       \* pieces of the frame it is writing
    stdin, stdout,   \* the pipes: frames' last pieces are marked
    child,           \* "none", "alive", "dead"
    owed,            \* requests the child has read and not yet answered
    waited,          \* time in the current read
    outcome,         \* what call_tool returns
    \* history, read by properties only
    chatty           \* the child has sent a frame that is no answer

upstreamVars == <<step, unwritten, stdin, stdout, child, owed, waited, outcome, chatty>>

Frames == {"initialize", "initialized", "tools_call"}
Replies == {"welcome", "result", "tool_error", "rpc_error", "notification"}
Writing == {"write_initialize", "write_initialized", "write_request"}
Reading == {"read_welcome", "read_reply"}

UpstreamTypeOK ==
    /\ step \in {"idle", "http", "done"} \cup Writing \cup Reading
    /\ unwritten \in 0..RequestSize
    /\ stdin \in Seq([frame : Frames, last : BOOLEAN]) /\ Len(stdin) <= PipeSize
    /\ stdout \in Seq(Replies) /\ Len(stdout) <= PipeSize
    /\ child \in {"none", "alive", "dead"}
    /\ owed \in Seq(Frames \ {"initialized"})
    /\ waited \in 0..ReadTimeout
    /\ chatty \in BOOLEAN

UpstreamInit ==
    /\ step = "idle" /\ unwritten = 0
    /\ stdin = <<>> /\ stdout = <<>> /\ child = "none" /\ owed = <<>>
    /\ waited = 0 /\ outcome = "none"
    /\ chatty = FALSE

pipes == <<stdin, stdout, child, owed>>

(* However the function ends, the child is dropped and killed with it. *)
EndRequest(o) ==
    /\ step' = "done" /\ outcome' = o
    /\ child' = IF child = "alive" THEN "dead" ELSE child
    /\ stdin' = <<>> /\ stdout' = <<>> /\ owed' = <<>> /\ unwritten' = 0

(* The plugin's transport: http, or a command. *)
CallTool ==
    /\ step = "idle"
    /\ \/ /\ step' = "http"
          /\ UNCHANGED <<unwritten, child, outcome>>
       \/ /\ step' = "write_initialize" /\ unwritten' = 1 /\ child' = "alive"
          /\ UNCHANGED outcome
       \/ step' = "done" /\ outcome' = "retryable_error" /\ UNCHANGED <<unwritten, child>>
    /\ UNCHANGED <<stdin, stdout, owed, waited, chatty>>

(* http_rpc: no answer in time, an HTTP status, a JSON-RPC error, a result. *)
HttpAnswers == \E o \in {"retryable_error", "error", "result", "tool_error", "null"} :
    /\ step = "http"
    /\ step' = "done" /\ outcome' = o
    /\ UNCHANGED <<unwritten, pipes, waited, chatty>>

FrameOf(s) == CASE s = "write_initialize" -> "initialize"
                [] s = "write_initialized" -> "initialized"
                [] s = "write_request" -> "tools_call"

(* write_frame: a dead child breaks the pipe, a full pipe blocks, and no   *)
(* timeout ends the wait.                                                  *)
WriteFrame ==
    /\ step \in Writing
    /\ IF child = "dead" THEN EndRequest("retryable_error")
       ELSE /\ Len(stdin) < PipeSize
            /\ stdin' = Append(stdin, [frame |-> FrameOf(step), last |-> unwritten = 1])
            /\ IF unwritten > 1 THEN unwritten' = unwritten - 1 /\ UNCHANGED step
               ELSE CASE step = "write_initialize" -> step' = "read_welcome" /\ unwritten' = 0
                      [] step = "write_initialized" ->
                           step' = "write_request" /\ unwritten' = RequestSize
                      [] step = "write_request" -> step' = "read_reply" /\ unwritten' = 0
            /\ UNCHANGED <<stdout, child, owed, outcome>>
    /\ waited' = 0
    /\ UNCHANGED chatty

(* What call_tool makes of the frame it takes for the reply: without an    *)
(* error and without a result it is a success of null.                     *)
OutcomeOf(reply) ==
    CASE reply = "rpc_error" -> "retryable_error"
      [] reply \in {"result", "tool_error"} -> reply
      [] OTHER -> "null"

(* Faulty: does not wait for the answer to initialize. *)
ReadFrameOnce ==
    /\ step \in Reading
    /\ IF step = "read_welcome"
       THEN /\ step' = "write_initialized" /\ unwritten' = 1
            /\ UNCHANGED <<stdin, stdout, child, owed, outcome>>
       ELSE /\ stdout # <<>>
            /\ EndRequest(OutcomeOf(Head(stdout)))
    /\ UNCHANGED <<waited, chatty>>

(* The next frame, whatever it is; its id is not looked at. *)
ReadFrame ==
    /\ step \in Reading
    /\ stdout # <<>>
    /\ IF step = "read_welcome"
       THEN /\ step' = "write_initialized" /\ unwritten' = 1
            /\ stdout' = Tail(stdout)
            /\ UNCHANGED <<stdin, child, owed, outcome>>
       ELSE EndRequest(OutcomeOf(Head(stdout)))
    /\ UNCHANGED <<waited, chatty>>

(* Faulty: waits for the child for as long as it lives. *)
ReadFailsAtTheEnd ==
    /\ step \in Reading
    /\ child = "dead" /\ stdout = <<>>
    /\ EndRequest("retryable_error")
    /\ UNCHANGED <<waited, chatty>>

(* Too late, the end of the pipe, or bytes that are no frame. *)
ReadFails ==
    /\ step \in Reading
    /\ \/ waited >= ReadTimeout
       \/ stdout # <<>>
       \/ child = "dead" /\ stdout = <<>>
    /\ EndRequest("retryable_error")
    /\ UNCHANGED <<waited, chatty>>

UpstreamTick ==
    /\ step \in Reading /\ waited < ReadTimeout
    /\ waited' = waited + 1
    /\ UNCHANGED <<step, unwritten, pipes, outcome, chatty>>

(* The deadline of execute drops the call; a refresh has none. *)
CallDropped ==
    /\ step \in Writing \cup Reading \cup {"http"}
    /\ EndRequest("dropped")
    /\ UNCHANGED <<waited, chatty>>

-----------------------------------------------------------------------------
(* The child. *)

ChildReads ==
    /\ child = "alive" /\ stdin # <<>>
    /\ stdin' = Tail(stdin)
    /\ owed' = IF Head(stdin).last /\ Head(stdin).frame # "initialized"
               THEN Append(owed, Head(stdin).frame) ELSE owed
    /\ UNCHANGED <<step, unwritten, stdout, child, waited, outcome, chatty>>

ChildAnswers == \E reply \in {"welcome", "result", "tool_error", "rpc_error"} :
    /\ child = "alive" /\ owed # <<>>
    /\ reply = "welcome" <=> Head(owed) = "initialize"
    /\ Len(stdout) < PipeSize
    /\ stdout' = Append(stdout, reply)
    /\ owed' = Tail(owed)
    /\ UNCHANGED <<step, unwritten, stdin, child, waited, outcome, chatty>>

ChildNotifies ==
    /\ child = "alive"
    /\ Len(stdout) < PipeSize
    /\ stdout' = Append(stdout, "notification")
    /\ chatty' = TRUE
    /\ UNCHANGED <<step, unwritten, stdin, child, owed, waited, outcome>>

ChildDies ==
    /\ child = "alive"
    /\ child' = "dead"
    /\ stdin' = <<>> /\ owed' = <<>>
    /\ UNCHANGED <<step, unwritten, stdout, waited, outcome, chatty>>

UpstreamNext ==
    \/ CallTool \/ HttpAnswers \/ WriteFrame \/ ReadFrame \/ ReadFails \/ UpstreamTick
    \/ CallDropped
    \/ ChildReads \/ ChildAnswers \/ ChildNotifies \/ ChildDies

(* The plugin's futures are polled, time passes, HTTP has a timeout, and   *)
(* the child, whatever it writes, goes on reading.                         *)
UpstreamFairness ==
    /\ WF_upstreamVars(WriteFrame) /\ WF_upstreamVars(ReadFrame) /\ WF_upstreamVars(ReadFails)
    /\ WF_upstreamVars(UpstreamTick) /\ WF_upstreamVars(HttpAnswers)
    /\ WF_upstreamVars(ChildReads)

UpstreamSpec == UpstreamInit /\ [][UpstreamNext]_upstreamVars /\ UpstreamFairness
-----------------------------------------------------------------------------
(* The result of a tool call is the server's answer to it, although frames *)
(* are taken in the order they come (lib.rs, stdio_rpc): a success of null *)
(* from a child means that it sent more than answers, and the answer to    *)
(* initialize is never taken for the tool's.                               *)
RepliesAreTheServers ==
    outcome = "null" /\ child # "none" => chatty

(* A request ends, whatever the server does not answer, and its child with *)
(* it (resolve_tools is under no deadline of the caller); only writing has *)
(* no timeout, so the child must read.                                     *)
RequestsEnd ==
    step \in Writing \cup Reading \cup {"http"} ~> step = "done" /\ child # "alive"
=============================================================================
