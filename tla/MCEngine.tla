------------------------------ MODULE MCEngine ------------------------------
(* The engine's parts that share no state: each behaviour chooses one.     *)
EXTENDS CodeMode, OAuth, OpenApiTools, Challenges, Search, GraphqlTools,
        ConnectionCatalog, SecretStore, MCCoreTools, MCInputs, TLC

CONSTANTS github, work, home     \* an integration and its connections

VARIABLE part

vars == <<part, codeVars, prepareVars, openApiVars, challengeVars, searchVars,
          graphqlVars, catalogVars, secretVars, coreVars, inputVars>>

Init ==
    /\ part \in {"code", "oauth", "openapi", "challenges", "search",
                 "graphql", "connections", "secrets", "tools", "inputs"}
    /\ CodeModeInit /\ PrepareInit /\ OpenApiInit /\ ChallengesInit
    /\ SearchInit /\ GraphqlInit /\ CatalogInit /\ SecretsInit /\ CoreInit
    /\ InputsInit
    /\ part # "code" => kernel = "js" /\ errors = "plain"
    /\ part # "search" => query = [words |-> <<>>, namespace |-> <<>>]
    /\ part # "connections" => backend = "memory"
    /\ part # "inputs" => input = "command"
    /\ storedTools = {ListIssues}

Takes(p, next) == part = p /\ next /\ UNCHANGED part

Next ==
    \/ Takes("code", CodeModeNext)
       /\ UNCHANGED <<prepareVars, openApiVars, challengeVars, searchVars,
                       graphqlVars, catalogVars, secretVars, coreVars, inputVars>>
    \/ Takes("oauth", PrepareNext)
       /\ UNCHANGED <<codeVars, openApiVars, challengeVars, searchVars,
                       graphqlVars, catalogVars, secretVars, coreVars, inputVars>>
    \/ Takes("openapi", OpenApiNext)
       /\ UNCHANGED <<codeVars, prepareVars, challengeVars, searchVars,
                       graphqlVars, catalogVars, secretVars, coreVars, inputVars>>
    \/ Takes("challenges", ChallengesNext)
       /\ UNCHANGED <<codeVars, prepareVars, openApiVars, searchVars,
                       graphqlVars, catalogVars, secretVars, coreVars, inputVars>>
    \/ Takes("search", SearchNext)
       /\ UNCHANGED <<codeVars, prepareVars, openApiVars, challengeVars,
                       graphqlVars, catalogVars, secretVars, coreVars, inputVars>>
    \/ Takes("graphql", GraphqlNext)
       /\ UNCHANGED <<codeVars, prepareVars, openApiVars, challengeVars,
                       searchVars, catalogVars, secretVars, coreVars, inputVars>>
    \/ Takes("connections", CatalogNext)
       /\ UNCHANGED <<codeVars, prepareVars, openApiVars, challengeVars,
                       searchVars, graphqlVars, secretVars, coreVars, inputVars>>
    \/ Takes("secrets", SecretsNext)
       /\ UNCHANGED <<codeVars, prepareVars, openApiVars, challengeVars,
                       searchVars, graphqlVars, catalogVars, coreVars, inputVars>>
    \/ Takes("tools", CoreNext)
       /\ UNCHANGED <<codeVars, prepareVars, openApiVars, challengeVars,
                       searchVars, graphqlVars, catalogVars, secretVars, inputVars>>
    \/ Takes("inputs", InputsNext)
       /\ UNCHANGED <<codeVars, prepareVars, openApiVars, challengeVars,
                       searchVars, graphqlVars, catalogVars, secretVars, coreVars>>

Spec == Init /\ [][Next]_vars

(* Requests are interchangeable, and so are tool names; a concurrent       *)
(* caller of the secret store goes by the name of a request.               *)
Symmetry == Permutations(Task) \cup Permutations(Name)
-----------------------------------------------------------------------------
(* A small API: tools that collide, a parameter declared twice, a cookie,  *)
(* a body that is a list.                                                  *)
Lit(w) == [kind |-> "name", words |-> w, name |-> ""]
Par(n) == [kind |-> "param", words |-> <<n>>, name |-> n]
Api == [kind |-> "skip", words |-> <<"v", "1">>, name |-> ""]
P(n, i, r) == [name |-> n, in |-> i, required |-> r]
NoBody == [kind |-> "none", props |-> {}, required |-> {}]
Body(k, ps, rs) == [kind |-> k, props |-> ps, required |-> rs]
Op(m, path, id, tag, ip, p, b) ==
    [method |-> m, path |-> path, opId |-> id, tag |-> tag, itemParams |-> ip, opParams |-> p,
     body |-> b]
Pets == <<Api, Lit(<<"pets">>)>>
Pet == <<Api, Lit(<<"pets">>), Par("id")>>
MCOperation == {
    Op("get", Pets, <<>>, <<>>, <<>>, <<P("limit", "query", FALSE), P("trace", "header", FALSE)>>, NoBody),
    Op("get", Pets, <<"pets">>, <<"pets">>, <<>>, <<P("limit", "query", FALSE)>>, NoBody),
    Op("post", Pets, <<"pets">>, <<"pets">>, <<>>, <<>>, Body("object", {"name", "kind"}, {"name"})),
    Op("post", Pet, <<"save">>, <<"pets">>, <<P("id", "path", TRUE)>>, <<P("dry", "query", FALSE)>>,
       Body("object", {"id", "name"}, {"name"})),
    Op("put", Pet, <<"save">>, <<"pets">>, <<P("id", "path", TRUE)>>, <<P("id", "path", TRUE)>>,
       Body("object", {"name", "body"}, {"body"})),
    Op("delete", Pet, <<"save", "put">>, <<"pets">>, <<>>,
       <<P("id", "path", TRUE), P("s", "cookie", FALSE)>>, NoBody),
    Op("put", Pets, <<"all">>, <<>>, <<>>, <<>>, Body("object", {}, {})),
    Op("patch", Pets, <<"all">>, <<>>, <<>>, <<>>, Body("list", {}, {})) }
MCPresets == {{Pets, Pet}, {Pet}}

(* Words, a token68, a parameter that matters, one that does not.          *)
L(k, t, v) == [kind |-> k, text |-> t, value |-> v]
MCLexeme == {
    L("comma", "", ""), L("word", "bearer", ""), L("word", "basic", ""), L("slashed", "a/b", ""),
    L("pad", "abc", ""), L("param", "error", "insufficient_scope"), L("param", "error", "other"),
    L("param", "scope", "s"), L("param", "realm", "r"), L("odd", "x!", ""), L("bad", "", "") }

(* What a failed call may return: nests at the limit and beyond it.        *)
Deep(n) == [i \in 1..n |-> IF i = n \/ i % 2 = 0 THEN "object" ELSE "list"]
Nest(c, n, w) == [status |-> c, text |-> FALSE, inside |-> Deep(n), says |-> w]
Text(c, n, w) == [status |-> c, text |-> TRUE, inside |-> Deep(n), says |-> w]
MCErrorBody == {
    Nest(503, 9, "reason"), Nest(503, 10, "error"), Nest(403, 2, "prose"),
    Text(403, 1, "error"), Text(403, 0, "broken"),
    [status |-> 503, text |-> FALSE, inside |-> <<"object", "list">>, says |-> "prose"] }

(* Three tools, two of one integration. *)
Tool(id, p, n, i, d) ==
    [id |-> id, path |-> p, name |-> n, integration |-> i, description |-> d]
MCDiscoverable == {
    Tool(1, <<"github", "org", "main", "issue">>, <<"issue">>, <<"github">>, <<"list", "issues">>),
    Tool(2, <<"github", "org", "main", "list">>, <<"list">>, <<"github">>, <<>>),
    Tool(3, <<"linear", "org", "main", "issues">>, <<"issues">>, <<"linear">>,
         <<"list", "every", "issue">>) }
MCQuery == [words : {<<>>, <<"issue">>, <<"list", "issue">>, <<"issue", "issue">>, <<"sue">>,
                     <<"list", "every", "issue">>, <<"main", "issues">>},
            namespace : {<<>>, <<"github">>}]
MCStarts == {<<"issue", "issues">>}
MCEnds == {<<"sue", "issue">>}
MCInside == {<<"issue", "issues">>, <<"sue", "issue">>, <<"sue", "issues">>}

(* Types in the way of introspection: one of them five levels deep.        *)
Type(w, k, n) == [wraps |-> w, kind |-> k, name |-> n]
Arg(n, t) == [name |-> n, type |-> t]
FieldOf(r, n, a, t, m) == [root |-> r, name |-> n, args |-> a, type |-> t, meta |-> m]
FullList == <<"NON_NULL", "LIST", "NON_NULL">>
MCField == {
    FieldOf("query", "users", {Arg("first", Type(<<>>, "SCALAR", "Int"))},
            Type(FullList, "OBJECT", "User"), FALSE),
    FieldOf("query", "names", {}, Type(<<"LIST">>, "SCALAR", "String"), FALSE),
    FieldOf("query", "matrix", {},
            Type(<<"NON_NULL", "LIST", "NON_NULL", "LIST", "NON_NULL">>, "OBJECT", "Cell"), FALSE),
    FieldOf("mutation", "users",
            {Arg("ids", Type(FullList, "SCALAR", "ID")), Arg("dry", Type(<<>>, "SCALAR", "Boolean"))},
            Type(<<"NON_NULL">>, "INTERFACE", "Node"), FALSE),
    FieldOf("query", "__type", {}, Type(<<>>, "OBJECT", "__Type"), TRUE) }

(* One integration with two connections. *)
MCSlugOf == (work :> github) @@ (home :> github)
-----------------------------------------------------------------------------
(* Every operation of a document or schema is a tool of its own, and what  *)
(* a call of it sends is a request the server takes for that operation     *)
(* (openapi extract.rs and invoke.rs, graphql extract.rs).                 *)
OperationsReachTheServer == OperationsAreTools /\ OperationsFitTheSchema
=============================================================================
