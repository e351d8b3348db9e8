---------------------------- MODULE CodeRecovery ----------------------------
(***************************************************************************)
(* What a model sends as code, and the guest body that is made of it: out  *)
(* of the fence of a reply, without export, called if it is a function.    *)
(* It is recovered twice, by execute_with and again by the QuickJS kernel. *)
(* A text is a sequence of lexemes; "effect" is whatever the script is to  *)
(* do once, also as the body of a function.                                *)
(***************************************************************************)
EXTENDS Integers, SequencesExt, FiniteSetsExt

VARIABLES
    modelText,          \* what the model wrote: a form and how it is dressed
    guest,           \* the text as it is after each step
    recoveries,      \* how often it was recovered; 3: it has run
    effects,         \* how often the effect took place
    value            \* what came of it: "value", "undefined" or "error"

recoveryVars == <<modelText, guest, recoveries, effects, value>>

(* The forms models write, and what JavaScript does with them as the body  *)
(* of a function: effects, and whether they return.                        *)
Form_(k, t, n, r) == [kind |-> k, text |-> t, effects |-> n, returns |-> r]
Arrow == <<"(", ")", "=>", "effect">>
AsyncArrow == <<"async">> \o Arrow
Anonymous == <<"function", "(", ")", "effect">>
Named == <<"async", "function", "main", "(", ")", "effect">>
Calls == <<"main", "(", ")">>
LoneFunction ==
    {Form_("function", t, 0, FALSE) : t \in {Arrow, AsyncArrow, <<"(">> \o AsyncArrow \o <<")">>,
        <<"(">> \o Arrow \o <<")">>, Anonymous, <<"async">> \o Anonymous}}
    \cup {Form_("declaration", t, 0, FALSE) : t \in {Named, Tail(Named)}}
Program ==
    {Form_("program", t, 1, TRUE) : t \in {
        <<"const", "x", "=", "effect", ";", "return", "x">>,
        Named \o <<"nl", "return", "await">> \o Calls,
        <<"const", "x", "=", "quote", "fence", "nl", "text", "fence", "quote", ";", "return", "effect">>}}
    \cup {Form_("program", t, 1, FALSE) : t \in {
        <<"effect">>, Named \o <<"nl">> \o Calls,
        <<"(">> \o AsyncArrow \o <<")", "(", ")">>,
        <<"(", "await", "effect", ")", ".map", "(", "x", "=>", "x", ")">>}}
Forms == LoneFunction \cup Program

RecoveryInit ==
    /\ modelText = [form |-> Form_("none", <<>>, 0, FALSE), exported |-> FALSE]
    /\ guest = <<>> /\ recoveries = 0 /\ effects = 0 /\ value = "undefined"

(* A reply: prose and a fence, or the code alone, with comments before it. *)
WriteScript ==
    \E form \in Forms, exported \in BOOLEAN, before \in {<<>>, <<"prose", "nl", "fence", "nl">>},
       comment \in {<<>>, <<"//", "nl">>, <<"/*", "nl">>} :
    /\ recoveries = 0 /\ guest = <<>>
    /\ exported => form \in LoneFunction
    /\ before # <<>> => "fence" \notin Range(form.text)
    /\ modelText' = [form |-> form, exported |-> exported]
    /\ guest' = before \o comment \o (IF exported THEN <<"export", "default">> ELSE <<>>) \o form.text
                \o (IF before # <<>> THEN <<"nl", "fence", "nl", "prose">> ELSE <<>>)
    /\ UNCHANGED <<recoveries, effects, value>>
-----------------------------------------------------------------------------
First(text, l, from) == {i \in from..Len(text) : text[i] = l}

(* Between the line of the first fence and the next fence, if there are any. *)
FencedBody(text) ==
    LET ticks == First(text, "fence", 1)
        lines == IF ticks = {} THEN {} ELSE First(text, "nl", Min(ticks))
        ends == IF lines = {} THEN {} ELSE First(text, "fence", Min(lines))
    IN IF ends = {} THEN text ELSE SubSeq(text, Min(lines) + 1, Min(ends) - 1)

Trimmed(text) ==
    LET inside == {i \in DOMAIN text : text[i] # "nl"} IN
    IF inside = {} THEN <<>> ELSE SubSeq(text, Min(inside), Max(inside))
ExtractCandidate(text) == Trimmed(FencedBody(Trimmed(text)))

StripLeadingComments(text) ==
    LET code == {i \in DOMAIN text : text[i] \notin {"nl", "//", "/*"}} IN
    IF code = {} THEN <<>> ELSE SubSeq(text, Min(code), Len(text))

IsExported(text) == Len(text) > 2 /\ SubSeq(text, 1, 2) = <<"export", "default">>
StripExportDefault(text) == IF IsExported(text) THEN SubSeq(text, 3, Len(text)) ELSE text

LooksLikeArrow(text) ==
    text # <<>> /\ Head(text) \in {"async", "("} /\ "=>" \in Range(text)

UnwrapOneParenIfArrow(text) ==
    LET inner == SubSeq(text, 2, Len(text) - 1) IN
    IF text # <<>> /\ Head(text) = "(" /\ Last(text) = ")" /\ LooksLikeArrow(inner)
    THEN inner ELSE text

FunctionHead(text) ==
    LET rest == IF text # <<>> /\ Head(text) = "async" THEN Tail(text) ELSE text IN
    CASE IsPrefix(<<"function", "(">>, rest) -> "anonymous"
      [] IsPrefix(<<"function", "main", "(">>, rest) -> "named"
      [] OTHER -> "none"

WrapCallable(text) == <<"const fn = (">> \o text \o <<"); return await fn()">>
(* Faulty: the function is called, and nothing is returned. *)
WrapWithoutReturn(text) == text \o <<"nl", "await">> \o Calls
WrapNamed(text) == text \o <<"nl", "return", "await">> \o Calls
WrapAnonymous(text) == <<"return await (">> \o text \o <<")()">>

RenderHeuristic(source) ==
    LET code == StripLeadingComments(source)
        after == IF IsExported(code) THEN UnwrapOneParenIfArrow(StripExportDefault(code)) ELSE code
        wrapped == IF IsExported(code) THEN after ELSE source
    IN CASE FunctionHead(after) = "named" -> WrapNamed(wrapped)
         [] FunctionHead(after) = "anonymous" -> WrapAnonymous(wrapped)
         [] OTHER -> IF LooksLikeArrow(after) THEN WrapCallable(wrapped) ELSE wrapped

RecoverExecutionBody(text) ==
    IF ExtractCandidate(text) = <<>> THEN <<>> ELSE RenderHeuristic(ExtractCandidate(text))

(* execute_with, then quickjs::run. Either refuses a body that is too long.*)
Recover ==
    /\ guest # <<>> /\ recoveries < 2
    /\ \/ guest' = RecoverExecutionBody(guest) /\ recoveries' = recoveries + 1 /\ UNCHANGED value
       \/ recoveries' = 3 /\ value' = "refused" /\ UNCHANGED guest
    /\ UNCHANGED <<modelText, effects>>
-----------------------------------------------------------------------------
(* JavaScript: what a body does and what comes of it.  A body is a form,   *)
(* a wrapped one, or one that goes on to call the function it declares.    *)
Ran(n, v) == [effects |-> n, value |-> v]
Plain(text) == SelectSeq(text, LAMBDA l : l \notin {"nl", "//", "/*"})
AsForm(text) == {f \in Forms : Plain(f.text) = text}
ReturnCall == <<"return", "await">> \o Calls
AwaitCall == <<"await">> \o Calls

RunForm(f) == Ran(f.effects, IF f.returns THEN "value" ELSE "undefined")
RunWrapped(f) == IF f.kind = "function" THEN Ran(1, "value") ELSE Ran(f.effects, "error")

RECURSIVE RunBody(_)
RunBody(text) ==
    LET inside == AsForm(SubSeq(text, 2, Len(text) - 1))
        calls == IF IsSuffix(ReturnCall, text) THEN ReturnCall ELSE AwaitCall
        before == RunBody(SubSeq(text, 1, Len(text) - Len(calls)))
    IN IF AsForm(text) # {} THEN RunForm(CHOOSE f \in AsForm(text) : TRUE)
       ELSE IF inside # {} THEN RunWrapped(CHOOSE f \in inside : TRUE)
       ELSE IF text = <<>> \/ ~IsSuffix(calls, text) THEN Ran(0, "error")
       ELSE IF before.value # "undefined" THEN before
       ELSE Ran(before.effects + 1, IF calls = ReturnCall THEN "value" ELSE "undefined")

RunGuest ==
    LET r == RunBody(Plain(guest)) IN
    /\ recoveries = 2
    /\ recoveries' = 3
    /\ effects' = r.effects /\ value' = r.value
    /\ UNCHANGED <<modelText, guest>>

RecoveryNext == WriteScript \/ Recover \/ RunGuest
RecoverySpec == RecoveryInit /\ [][RecoveryNext]_recoveryVars
-----------------------------------------------------------------------------
HasRun == recoveries = 3 /\ value # "refused"

(* Programs that the heuristics may take for something else.               *)
Confusable(form) ==
    \/ "fence" \in Range(form.text)
    \/ LooksLikeArrow(form.text)
    \/ FunctionHead(form.text) # "none" /\ ~form.returns

(* Recovered twice, a function still runs once and its value is returned,  *)
(* whatever it is dressed in; a program runs as it was written, unless it  *)
(* begins like a function or has a fence in a text (recover.rs:11-55).     *)
ScriptsRunOnce ==
    HasRun =>
        IF modelText.form \in LoneFunction THEN effects = 1 /\ value = "value"
        ELSE ~Confusable(modelText.form) =>
               /\ effects = modelText.form.effects
               /\ value = IF modelText.form.returns THEN "value" ELSE "undefined"
=============================================================================
