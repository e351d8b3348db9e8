---------------------------- MODULE ScriptSubset ----------------------------
(***************************************************************************)
(* A script that parses in a small grammar is run by Rust code, any other  *)
(* one by QuickJS (execute_with, preference Auto).  A script is a sequence *)
(* of lexemes: "let" is "let n =", "call" the call of a tool, "global" a   *)
(* name of JavaScript's, "-1" is written without a space in between.       *)
(***************************************************************************)
EXTENDS Integers, SequencesExt, FiniteSetsExt

CONSTANT MaxWritten  \* bound: statements of a script

VARIABLES
    source,          \* the script's statements, each a sequence of lexemes
    ranBy,           \* "none", "native" or "js"
    answered,        \* how its calls are answered
    subsetResult     \* calls made, how it ended, with which value

subsetVars == <<source, ranBy, answered, subsetResult>>

Operand == {"n", "5", "-1", "call", "global"}
Statement(keyword, awaited, operand, plus) ==
    [keyword |-> keyword, awaited |-> awaited, operand |-> operand, plus |-> plus]

(* How the tools of a script answer, one way for all of its calls: they    *)
(* succeed, fail, wait for a person, or the host does not make the call.   *)
HowAnswered == {"ok", "fails", "pauses", "refused"}

(* What a script handles: numbers, and things that need no telling apart.  *)
Number(k) == [is |-> "number", num |-> k]
Thing(kind) == [is |-> kind, num |-> 0]
NoWorth == Thing("nothing")
Unknown == Thing("unknown")

(* "got": what names bound to an awaited call got from it.                 *)
NoResult == [calls |-> 0, ended |-> "no", value |-> NoWorth, got |-> {}]
SubsetInit ==
    source = <<>> /\ ranBy = "none" /\ answered = "none" /\ subsetResult = NoResult

(* With and without ";", on one line or several. *)
WriteLine ==
    /\ ranBy = "none" /\ Len(source) < MaxWritten
    /\ \E lead \in {<<>>, <<"let">>, <<"return">>, <<"return", "nl">>},
          operand \in {<<o>> : o \in Operand} \cup {<<"await", "call">>},
          more \in {<<>>, <<"-1">>, <<"+", "5">>}, end \in {<<>>, <<";">>, <<"nl">>} :
        source' = Append(source, lead \o operand \o more \o end)
    /\ UNCHANGED <<ranBy, answered, subsetResult>>
-----------------------------------------------------------------------------
LexemeAt(s, i) == IF i \in DOMAIN s THEN s[i] ELSE "end"
NoStatement == Statement("none", FALSE, "none", 0)
Parses(program) == NoStatement \notin Range(program)

(* Line ends are white space and a minus begins a number; there is no      *)
(* operator among the tokens, and all of a script with one is rejected.    *)
Tokenize(text) ==
    IF "+" \in Range(text) THEN <<"+">> ELSE SelectSeq(text, LAMBDA l : l # "nl")

IsKeyword(l) == l \in {"let", "return"}

(* A keyword, await, one operand, and ";" if it is there.                  *)
Parse(text) ==
    LET s == Tokenize(text)
        program[i \in 1..(Len(s) + 5)] ==
            LET first == IF IsKeyword(LexemeAt(s, i)) THEN i + 1 ELSE i
                awaited == LexemeAt(s, first) = "await"
                at == IF awaited THEN first + 1 ELSE first
                next == IF LexemeAt(s, at + 1) = ";" THEN at + 2 ELSE at + 1
            IN IF i > Len(s) THEN <<>>
               ELSE IF LexemeAt(s, at) \notin Operand THEN <<NoStatement>>
               ELSE <<Statement(IF first = i THEN "none" ELSE s[i], awaited, s[at], 0)>> \o program[next]
    IN program[1]

(* JavaScript: an operand goes on with a sign, also on the next line; a    *)
(* statement ends with ";", a line or the script; return ends with a line. *)
ParseJs(text) ==
    LET n == Len(text)
        newline(i) == Min({j \in i..(n + 1) : LexemeAt(text, j) # "nl"})
        sum[i \in 1..(n + 3)] ==
            LET j == IF i > n THEN i ELSE newline(i) IN
            CASE LexemeAt(text, j) = "-1" -> [to |-> sum[j + 1].to, plus |-> sum[j + 1].plus - 1]
              [] LexemeAt(text, j) = "+" -> [to |-> sum[j + 2].to, plus |-> sum[j + 2].plus + 5]
              [] OTHER -> [to |-> i, plus |-> 0]
        program[i \in 1..(n + 3)] ==
            LET first == IF IsKeyword(LexemeAt(text, i)) THEN i + 1 ELSE i
                awaited == LexemeAt(text, first) = "await"
                at == IF awaited THEN first + 1 ELSE first
                rest == sum[at + 1]
                keyword == IF first = i THEN "none" ELSE text[i]
            IN IF i > n THEN <<>>
               ELSE IF text[i] \in {";", "nl"} THEN program[i + 1]
               ELSE IF keyword = "return" /\ LexemeAt(text, first) = "nl"
                    THEN <<Statement("return", FALSE, "nothing", 0)>> \o program[first]
               ELSE IF \/ LexemeAt(text, at) \notin Operand
                       \/ LexemeAt(text, rest.to) \notin {";", "nl", "end"}
                    THEN <<NoStatement>>
               ELSE <<Statement(keyword, awaited, text[at], rest.plus)>> \o program[rest.to]
        lets(p) == {i \in DOMAIN p : p[i].keyword = "let"}
    IN IF Cardinality(lets(program[1])) > 1 THEN <<NoStatement>> ELSE program[1]
-----------------------------------------------------------------------------
Literal(operand, n) ==
    CASE operand = "n" -> n
      [] operand = "5" -> Number(5)
      [] operand = "-1" -> Number(0 - 1)
      [] OTHER -> Thing(operand)

(* ToolResult::envelope, what Rust binds: a failure is a value, too.       *)
Envelope(answer) == Thing(IF answer = "ok" THEN "envelope" ELSE "failure")

(* run: a call is made whether it is awaited or not.  Names that are not   *)
(* known, pauses to bind and calls the host refuses are errors; the value  *)
(* of a script without return is that of its last statement.               *)
RunNative(program, answer) ==
    LET Step(at, s) ==
            LET called == s.operand = "call"
                value == IF called THEN Envelope(answer) ELSE Literal(s.operand, at.n)
                now == [at EXCEPT !.calls = @ + (IF called THEN 1 ELSE 0)]
            IN CASE at.ended # "no" -> at
                 [] s.operand = "global" \/ value = Unknown -> [at EXCEPT !.ended = "error"]
                 [] called /\ answer = "refused" -> [now EXCEPT !.ended = "error"]
                 [] called /\ answer = "pauses" ->
                      [now EXCEPT !.ended = IF s.keyword = "let" THEN "error" ELSE "paused"]
                 [] s.keyword = "let" ->
                      [now EXCEPT !.n = value, !.value = NoWorth,
                                  !.got = IF s.awaited THEN @ \cup {value.is} ELSE @]
                 [] s.keyword = "return" ->
                      [now EXCEPT !.ended = IF called /\ answer = "fails" THEN "failed" ELSE "return",
                                  !.value = IF called THEN Thing("data") ELSE value]
                 [] OTHER -> [now EXCEPT !.value = value]
        end == FoldLeft(Step, [n |-> Unknown] @@ NoResult, program)
    IN [calls |-> end.calls, ended |-> end.ended, value |-> end.value, got |-> end.got]
-----------------------------------------------------------------------------
Plus(value, k) ==
    IF k = 0 THEN value ELSE IF value.is = "number" THEN Number(value.num + k) ELSE Thing("odd")

(* The guest's tools: a call is worth its bare data, or it throws.         *)
Apply(answer) == IF answer = "ok" THEN "data" ELSE "thrown"

(* quickjs::run: a call is a promise.  The bridge makes those begun so far *)
(* when the script awaits one, also by returning it, and drops the rest    *)
(* when it ends; a call that pauses decides how the script ends.           *)
RunProgram(program, answer) ==
    LET Step(at, s) ==
            LET called == s.operand = "call"
                promise == (called /\ ~s.awaited) \/ (s.operand = "n" /\ at.n = Thing("promise"))
                awaits == s.awaited \/ (promise /\ s.keyword = "return" /\ s.plus = 0)
                worth == IF awaits THEN Thing("data")
                         ELSE IF promise THEN Thing("promise") ELSE Literal(s.operand, at.n)
                begun == at.begun + (IF called THEN 1 ELSE 0)
                now == [at EXCEPT !.begun = begun, !.calls = IF awaits THEN begun ELSE @,
                                  !.got = IF s.awaited /\ s.keyword = "let" /\ answer \in {"ok", "fails"}
                                          THEN @ \cup {Apply(answer)} ELSE @]
            IN CASE at.ended # "no" -> at
                 [] worth = Unknown \/ (awaits /\ Apply(answer) = "thrown") -> [now EXCEPT !.ended = "error"]
                 [] s.keyword = "let" -> [now EXCEPT !.n = Plus(worth, s.plus)]
                 [] s.keyword = "return" ->
                      [now EXCEPT !.ended = "return", !.value = Plus(worth, s.plus)]
                 [] OTHER -> now
        end == FoldLeft(Step, [n |-> Unknown, begun |-> 0] @@ NoResult, program)
    IN [calls |-> end.calls, value |-> end.value, got |-> end.got,
        ended |-> IF answer = "pauses" /\ end.calls > 0 THEN "paused" ELSE end.ended]

SyntaxError == [NoResult EXCEPT !.ended = "error"]
RunJs(text, answer) ==
    IF Parses(ParseJs(text)) THEN RunProgram(ParseJs(text), answer) ELSE SyntaxError

Answers(text) == IF "call" \in Range(text) THEN HowAnswered ELSE {"ok"}

(* Faulty: what fails in the native kernel is tried in QuickJS after that. *)
ExecuteOnBoth ==
    LET text == FlattenSeq(source)
        first == RunNative(Parse(text), answered')
    IN /\ ranBy = "none" /\ source # <<>> /\ Parses(Parse(text))
       /\ ranBy' = "native"
       /\ answered' \in Answers(text)
       /\ subsetResult' = IF first.ended = "error"
                          THEN [RunJs(text, answered') EXCEPT !.calls = @ + first.calls] ELSE first
       /\ UNCHANGED source

(* execute_with: what parses is run by run, and its errors are final.      *)
ExecuteWith ==
    LET text == FlattenSeq(source)
        program == Parse(text)
    IN /\ ranBy = "none" /\ source # <<>>
       /\ ranBy' = IF Parses(program) THEN "native" ELSE "js"
       /\ answered' \in Answers(text)
       /\ subsetResult' = IF Parses(program) THEN RunNative(program, answered')
                          ELSE RunJs(text, answered')
       /\ UNCHANGED source

SubsetNext == WriteLine \/ ExecuteWith
SubsetSpec == SubsetInit /\ [][SubsetNext]_subsetVars
-----------------------------------------------------------------------------
Js == RunJs(FlattenSeq(source), answered)

(* Every statement is closed and nothing in it needs an operator; a call   *)
(* is awaited or returned; no name of JavaScript's is used.                *)
PlainStatement(statement) ==
    /\ Last(statement) = ";" /\ Range(statement) \cap {"nl", "global"} = {}
    /\ Cardinality({i \in DOMAIN statement : statement[i] \in Operand}) = 1
    /\ "call" \in Range(statement) => Range(statement) \cap {"await", "return"} # {}

(* What native code names an envelope is the bare data in QuickJS.         *)
SameButForTheUnion(native, js) ==
    native = js \/ (native = Thing("envelope") /\ js = Thing("data"))

(* Which kernel takes a plain script makes little difference: QuickJS      *)
(* would make as many of its calls, fewer only after one that failed,      *)
(* which it throws; and where all succeed the script ends in the same way, *)
(* with the same value, but for the union around what a name is bound to.  *)
KernelsAgreeOnPlainScripts ==
    ranBy = "native" /\ (\A i \in DOMAIN source : PlainStatement(source[i])) /\ Js # SyntaxError =>
        /\ IF answered = "fails" THEN Js.calls <= subsetResult.calls
           ELSE Js.calls = subsetResult.calls
        /\ answered = "ok" =>
             /\ subsetResult.ended = Js.ended
             /\ Js.ended = "return" => SameButForTheUnion(subsetResult.value, Js.value)

(* skills.rs:39: "Tool calls return a value union: { ok: true, data } for  *)
(* success or { ok: false, error } for expected failures" -- whichever     *)
(* kernel the script is run by.                                            *)
CallsReturnTheUnion == subsetResult.got \subseteq {"envelope", "failure"}
=============================================================================
