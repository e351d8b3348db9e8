------------------------------ MODULE McpStdio ------------------------------
(***************************************************************************)
(* The MCP endpoint on stdin and stdout (executor-host/src/mcp.rs,         *)
(* stdio_loop): requests come one per line or after headers with their     *)
(* length, and are answered one after the other, each in its own form.     *)
(* The stream is a sequence of ends of lines, headers and bodies.          *)
(***************************************************************************)
EXTENDS Integers, Sequences

CONSTANT MaxFrames   \* bound: what the client writes

VARIABLES
    input,           \* written and not yet read
    closed,          \* the client has closed its end
    reader,          \* what is read next: "line", "headers" or "body"; "ended"
    measured,        \* a header read so far states the length of the body
    replies,         \* the answers written: [to, form]
    \* history, read by properties only
    frames,          \* how many frames the client wrote
    wanted,          \* the answers they call for
    astray           \* a length could not be read: its body is still to come

stdioVars == <<input, closed, reader, measured, replies, frames, wanted, astray>>

EndOfLine == [kind |-> "eol"]
Header(k) == [kind |-> k]      \* "length", "badLength" or "type"
Message(what) == [kind |-> "message", what |-> what, to |-> frames + 1]

StdioInit ==
    /\ input = <<>> /\ closed = FALSE
    /\ reader = "line" /\ measured = FALSE
    /\ replies = <<>> /\ frames = 0 /\ wanted = <<>> /\ astray = FALSE

-----------------------------------------------------------------------------
(* handle_one answers what has an id, and null otherwise; of an array all  *)
(* answers are collected, null included.                                   *)
Answered == {"request", "array"}
What == Answered \cup {"notification", "broken"}

Line(h) == <<Header(h), EndOfLine>>

Written(form, what) ==
    CASE form = "line" -> <<Message(what), EndOfLine>>
      [] form = "length" ->
           Line("length") \o Line("type") \o <<EndOfLine, Message(what)>>
      [] form = "typeFirst" ->
           Line("type") \o Line("length") \o <<EndOfLine, Message(what)>>
      [] form = "badLength" -> Line("badLength") \o <<EndOfLine, Message(what)>>
      [] form = "blank" -> <<EndOfLine>>

Form(form) == IF form = "line" THEN "line" ELSE "framed"

Write == \E form \in {"line", "length", "typeFirst", "badLength", "blank"}, what \in What :
    /\ ~closed /\ frames < MaxFrames
    /\ input' = input \o Written(form, what)
    /\ frames' = frames + 1
    /\ wanted' = IF form # "blank" /\ what \in Answered
                 THEN Append(wanted, [to |-> frames', form |-> Form(form)]) ELSE wanted
    /\ astray' = (astray \/ form = "badLength")
    /\ UNCHANGED <<closed, reader, measured, replies>>

CloseStdin ==
    /\ ~closed /\ closed' = TRUE
    /\ UNCHANGED <<input, reader, measured, replies, frames, wanted, astray>>
-----------------------------------------------------------------------------
(* read_line waits for the end of the line, or of the stream.              *)
LineEnds == {i \in DOMAIN input : input[i] = EndOfLine}
LineRead == IF LineEnds = {} THEN Len(input) ELSE CHOOSE i \in LineEnds : \A j \in LineEnds : i <= j
CanReadLine == LineEnds # {} \/ closed
Text == SubSeq(input, 1, IF LineEnds = {} THEN LineRead ELSE LineRead - 1)
Rest == SubSeq(input, LineRead + 1, Len(input))

Handle(x, form) ==
    replies' = IF x.what \in Answered THEN Append(replies, [to |-> x.to, form |-> form])
               ELSE replies

(* One message alone on its line. *)
IsMessage(text) == Len(text) = 1 /\ text[1].kind = "message"
IsFramed(text) == text # <<>> /\ text[1].kind \in {"length", "badLength"}

(* Faulty: a line that is not JSON ends the loop. *)
ReadLineOrFail ==
    /\ reader = "line" /\ CanReadLine
    /\ input' = Rest
    /\ IF IsMessage(Text) THEN Handle(Text[1], "line") ELSE UNCHANGED replies
    /\ reader' = IF input = <<>> THEN "ended"
                 ELSE IF IsFramed(Text) THEN "headers"
                 ELSE IF Text # <<>> /\ (~IsMessage(Text) \/ Text[1].what = "broken") THEN "ended"
                 ELSE "line"
    /\ measured' = (IsFramed(Text) /\ Text[1].kind = "length")
    /\ UNCHANGED <<closed, frames, wanted, astray>>

(* Nothing to read ends the loop; a blank line, or one that is not JSON,   *)
(* is left out.                                                            *)
ReadLine ==
    /\ reader = "line" /\ CanReadLine
    /\ input' = Rest
    /\ IF IsMessage(Text) THEN Handle(Text[1], "line") ELSE UNCHANGED replies
    /\ reader' = IF input = <<>> THEN "ended" ELSE IF IsFramed(Text) THEN "headers" ELSE "line"
    /\ measured' = (IsFramed(Text) /\ Text[1].kind = "length")
    /\ UNCHANGED <<closed, frames, wanted, astray>>

(* A blank line ends the headers; without a length the body is left where  *)
(* it is.                                                                  *)
DrainHeaders ==
    /\ reader = "headers" /\ CanReadLine
    /\ input' = Rest
    /\ measured' = (measured \/ Text = <<Header("length")>>)
    /\ reader' = IF Text # <<>> THEN "headers" ELSE IF measured THEN "body" ELSE "line"
    /\ UNCHANGED <<closed, replies, frames, wanted, astray>>

DrainBody ==
    /\ reader = "body" /\ input # <<>>
    /\ input' = Tail(input)
    /\ Handle(Head(input), "framed")
    /\ reader' = "line"
    /\ UNCHANGED <<closed, measured, frames, wanted, astray>>

StdioNext == Write \/ CloseStdin \/ ReadLine \/ DrainHeaders \/ DrainBody
StdioSpec == StdioInit /\ [][StdioNext]_stdioVars
-----------------------------------------------------------------------------
(* Every request is answered once, in its own form and in the order of the *)
(* requests, whatever notifications, blank lines, headers and broken       *)
(* messages come between, and none is left out when the client closes its  *)
(* end: as long as every length could be read.                             *)
FramesAreAnswered ==
    ~astray =>
        /\ replies = SubSeq(wanted, 1, Len(replies))
        /\ reader = "ended" \/ (reader = "line" /\ input = <<>>) => replies = wanted
=============================================================================
