----------------------------- MODULE Challenges -----------------------------
(***************************************************************************)
(* The parser of WWW-Authenticate headers (executor-core/src/              *)
(* www_authenticate.rs) and what scope.rs concludes from one.  A header is *)
(* a sequence of lexemes; blanks are left out, and a lexeme of kind "pad"  *)
(* is a word with a run of `=' that a comma or the end follows.            *)
(***************************************************************************)
EXTENDS Integers, Sequences

CONSTANTS
    Lexeme,          \* [kind, text, value]
    ErrorBody,       \* [status, text, inside, says]: see below
    MaxLexemes       \* bound: lexemes of one header

VARIABLES
    header,          \* the lexemes read so far
    parsed           \* [ok, challenges, state, sawComma]

challengeVars == <<header, parsed>>

(* Kinds of lexemes: "word" is both an http token and a token68, "slashed" *)
(* only the latter, "odd" only the former; a param's name is a token.      *)
Kinds == {"comma", "word", "slashed", "odd", "pad", "param", "bad"}
IsHttpToken(x) == x.kind \in {"word", "odd"}
IsToken68(x) == x.kind \in {"word", "slashed"}

ASSUME LexemeAssumption == \A x \in Lexeme : x.kind \in Kinds
ASSUME ErrorBodyAssumption == \A b \in ErrorBody : b.inside \in Seq({"list", "object"})

NewParser == [ok |-> TRUE, challenges |-> <<>>, state |-> "boundary", sawComma |-> TRUE]
Malformed(p) == [p EXCEPT !.ok = FALSE]

Signals == {"error", "scope"}
Names(params) == {q.name : q \in params}

TakeComma(p) == [p EXCEPT !.sawComma = TRUE]

TakeToken68Padding(p) ==
    IF p.state # "scheme" \/ p.sawComma THEN Malformed(p)
    ELSE [p EXCEPT !.state = "token68"]

(* Puts a parameter into the last challenge: of a name that is there       *)
(* already the first value stays, and a signal must not come twice.        *)
PutParam(p, x) ==
    LET last == Len(p.challenges)
        params == p.challenges[last].params
    IN IF x.text \in Names(params)
       THEN IF x.text \in Signals THEN Malformed(p)
            ELSE [p EXCEPT !.state = "params", !.sawComma = FALSE]
       ELSE [p EXCEPT !.state = "params", !.sawComma = FALSE,
                      !.challenges[last].params = @ \cup {[name |-> x.text, value |-> x.value]}]

(* Faulty: a parameter after "scheme ," still goes to that scheme.         *)
TakeParamAnywhere(p, x) ==
    IF \/ p.challenges = <<>>
       \/ p.state = "token68"
       \/ p.state = "params" /\ ~p.sawComma
    THEN Malformed(p)
    ELSE PutParam(p, x)

TakeAuthParam(p, x) ==
    IF \/ p.challenges = <<>>
       \/ p.state = "token68"
       \/ p.state = "scheme" /\ p.sawComma
       \/ p.state = "params" /\ ~p.sawComma
    THEN Malformed(p)
    ELSE PutParam(p, x)

TakeBareWord(p, x) ==
    IF p.sawComma /\ IsHttpToken(x)
    THEN [p EXCEPT !.challenges = Append(@, [scheme |-> x.text, params |-> {}]),
                   !.state = "scheme", !.sawComma = FALSE]
    ELSE IF ~p.sawComma /\ p.state = "scheme" /\ IsToken68(x)
    THEN [p EXCEPT !.state = "token68"]
    ELSE Malformed(p)

ConsumeToken(p, x) ==
    CASE ~p.ok -> p
      [] p.ok /\ x.kind = "comma" -> TakeComma(p)
      [] p.ok /\ x.kind = "pad" -> TakeToken68Padding(p)
      [] p.ok /\ x.kind = "param" -> TakeAuthParam(p, x)
      [] p.ok /\ x.kind \in {"word", "slashed", "odd"} -> TakeBareWord(p, x)
      [] p.ok /\ x.kind = "bad" -> Malformed(p)

ChallengesInit == header = <<>> /\ parsed = NewParser

ReadLexeme == \E x \in Lexeme :
    /\ Len(header) < MaxLexemes
    /\ header' = Append(header, x)
    /\ parsed' = ConsumeToken(parsed, x)

ChallengesNext == ReadLexeme
ChallengesSpec == ChallengesInit /\ [][ChallengesNext]_challengeVars

(* The first bearer challenge that says so itself names the scopes that    *)
(* are missing; none, when there is no such challenge.                     *)
Insufficient(challenge) ==
    /\ challenge.scheme = "bearer"
    /\ [name |-> "error", value |-> "insufficient_scope"] \in challenge.params

DetectFromChallenge(p) ==
    LET found == {i \in DOMAIN p.challenges : Insufficient(p.challenges[i])}
        first == p.challenges[CHOOSE i \in found : \A j \in found : i <= j]
    IN IF ~p.ok THEN {}
       ELSE {[required |-> {q.value : q \in {r \in first.params : r.name = "scope"}}] :
                i \in found}

(* A body comes with a status.  It is a nest of lists and objects, the     *)
(* outermost first, with what the innermost object says in a field, or     *)
(* prose; or a string (text) that holds such a nest.  Only the outermost   *)
(* string is looked into.                                                  *)
MaxDepth == 8

Says(b) == b.says \in {"error", "reason"}

DetectFromStructured(b) ==
    LET last == Len(b.inside)
        sees[d \in 0..last] ==
            /\ d <= MaxDepth /\ d < last
            /\ \/ d + 1 = last /\ b.inside[last] = "object" /\ Says(b)
               \/ sees[d + 1]
    IN sees[0]

DetectFromBody(b) ==
    IF b.text THEN b.says # "broken" /\ DetectFromStructured(b) ELSE DetectFromStructured(b)

(* The headers come first; a body names no scopes. *)
DetectInsufficientScope(p, b) ==
    IF DetectFromChallenge(p) # {} THEN DetectFromChallenge(p)
    ELSE IF DetectFromBody(b) THEN {[required |-> {}]} ELSE {}

(* Calls of OpenAPI, GraphQL and MCP tools that fail with a status.        *)
ToolErrorFromHttp(status, p, b) ==
    LET detected == DetectInsufficientScope(p, b) IN
    IF detected # {}
      THEN [code |-> "oauth_scope_insufficient", retryable |-> FALSE,
            scopes |-> (CHOOSE d \in detected : TRUE).required]
      ELSE [code |-> "http_error", retryable |-> status \in 500..599, scopes |-> {}]

-----------------------------------------------------------------------------
(* The grammar (RFC 7235, 2.1), by the neighbours of each lexeme: a list   *)
(* of challenges, each a scheme followed by nothing, by one token68, or by *)
(* parameters with commas between.                                         *)

Content(h) == {i \in DOMAIN h : h[i].kind # "comma"}
Previous(h, i) ==
    LET before == {j \in Content(h) : j < i}
    IN IF before = {} THEN 0 ELSE CHOOSE j \in before : \A k \in before : k <= j
IsScheme(h, i) ==
    h[i].kind \in {"word", "slashed", "odd"} /\ (i = 1 \/ h[i - 1].kind = "comma")
FollowsScheme(h, i) == i > 1 /\ i - 1 \in Content(h) /\ IsScheme(h, i - 1)
OwnScheme(h, i) ==
    LET schemes == {j \in 1..i : IsScheme(h, j)}
    IN CHOOSE j \in schemes : \A k \in schemes : k <= j
OwnParams(h, s) == {i \in DOMAIN h : h[i].kind = "param" /\ OwnScheme(h, i) = s}

Allowed(h, i) ==
    CASE h[i].kind = "bad" -> FALSE
      [] h[i].kind = "pad" -> FollowsScheme(h, i)
      [] h[i].kind = "param" ->
           \/ FollowsScheme(h, i)
           \/ Previous(h, i) # 0 /\ h[Previous(h, i)].kind = "param" /\ h[i - 1].kind = "comma"
      [] OTHER -> IF IsScheme(h, i) THEN IsHttpToken(h[i])
                  ELSE FollowsScheme(h, i) /\ IsToken68(h[i])

SignalsOnce(h) ==
    \A i, j \in DOMAIN h :
        /\ h[i].kind = "param" /\ h[j].kind = "param" /\ i # j
        /\ h[i].text = h[j].text /\ h[i].text \in Signals
        => OwnScheme(h, i) # OwnScheme(h, j)

WellFormed(h) == (\A i \in Content(h) : Allowed(h, i)) /\ SignalsOnce(h)

(* Schemes whose own parameters report a missing scope.                    *)
Reported(h) ==
    {s \in DOMAIN h :
        /\ IsScheme(h, s) /\ h[s].text = "bearer"
        /\ \E i \in OwnParams(h, s) :
             h[i].text = "error" /\ h[i].value = "insufficient_scope"}

ScopesOf(h, s) == {h[i].value : i \in {j \in OwnParams(h, s) : h[j].text = "scope"}}

(* A malformed header is not trusted, and in a well-formed one parameters  *)
(* are never joined across schemes (www_authenticate.rs, parse_challenges):*)
(* the parser accepts exactly the grammar.  A false positive would strip   *)
(* re-authentication from a 403 that it would fix (scope.rs): a scope is   *)
(* missing exactly when a bearer scheme is followed by its own error, or a *)
(* field of the body, nine levels deep at most, says so; the scopes are    *)
(* those of the same scheme, and such a call is not to be retried.         *)
ScopeErrorsAreRead ==
    LET byHeader == WellFormed(header) /\ Reported(header) # {} IN
    /\ parsed.ok <=> WellFormed(header)
    /\ \A b \in ErrorBody :
         LET err == ToolErrorFromHttp(b.status, parsed, b)
             byBody == /\ Says(b) /\ b.inside # <<>> /\ Len(b.inside) <= 9
                       /\ b.inside[Len(b.inside)] = "object"
         IN /\ err.code = "oauth_scope_insufficient" <=> byHeader \/ byBody
            /\ err.retryable => b.status >= 500 /\ ~byHeader /\ ~byBody
            /\ byHeader => err.scopes = ScopesOf(header,
                                CHOOSE s \in Reported(header) : \A t \in Reported(header) : s <= t)
=============================================================================
