----------------------------- MODULE GraphqlTools -----------------------------
(***************************************************************************)
(* What the GraphQL plugin makes of a server's schema: introspection,      *)
(* which shows four levels of a type (executor-plugin-graphql/src/lib.rs), *)
(* and one tool with a prepared operation per field (extract.rs).  A type  *)
(* is [wraps, kind, name]: wrappers from the outside in, around a name.    *)
(***************************************************************************)
EXTENDS Integers, FiniteSets, Sequences

CONSTANTS
    Field,           \* of the server: [root, name, args, type, meta]; args: [name, type]
    MaxFields,       \* Limits.max_tools
    Depth            \* levels of a type that the introspection query asks for (4)

ASSUME GraphqlAssumption == MaxFields \in Nat /\ Depth \in Nat \ {0}

VARIABLES
    schema,          \* the server's fields
    fieldTools,      \* what resolve_tools made of them
    sent,            \* [tool, variables] of the last call
    verdict          \* what invoke made of the server's answer

graphqlVars == <<schema, fieldTools, sent, verdict>>

NothingSent == [kind |-> "nothing"]

GraphqlInit == schema = {} /\ fieldTools = {} /\ sent = NothingSent /\ verdict = "none"

(* What is left of a type after introspection: a name, or the wrapper at   *)
(* the last level, with nothing inside.                                    *)
Introspected(t) ==
    IF Len(t.wraps) < Depth THEN t
    ELSE [wraps |-> SubSeq(t.wraps, 1, Depth), kind |-> "none", name |-> "Unknown"]

IsNonNull(t) == t.wraps # <<>> /\ t.wraps[1] = "NON_NULL"

(* format_type_ref: the type as it is written, e.g. [Int!]!. *)
FormatTypeRef(t) == [wraps |-> t.wraps, name |-> t.name]

(* Faulty: a list needs no selection. *)
SelectsBareObjects(t) == t.wraps \in {<<>>, <<"NON_NULL">>} /\ t.kind \in {"OBJECT", "INTERFACE", "UNION"}

(* Whether the result needs a selection, looked up through all wrappers.   *)
NeedsSubselection(t) == t.kind \in {"OBJECT", "INTERFACE", "UNION"}

InputSchema(args) ==
    [properties |-> {a.name : a \in args},
     required |-> {a.name : a \in {b \in args : IsNonNull(b.type)}}]

OperationString(f) ==
    [kind |-> f.root, field |-> f.name,
     vars |-> {[name |-> a.name, type |-> FormatTypeRef(a.type)] : a \in f.args},
     selection |-> NeedsSubselection(f.type)]

AsIntrospected(f) ==
    [f EXCEPT !.type = Introspected(@),
              !.args = {[name |-> a.name, type |-> Introspected(a.type)] : a \in @}]

ToolOf(f) ==
    [name |-> <<f.root, f.name>>, input |-> InputSchema(f.args),
     operation |-> OperationString(f)]

(* resolve_tools: from a schema in the configuration, or by introspection; *)
(* meta fields are left out.                                               *)
ResolveFields == \E fields \in SUBSET Field, given \in BOOLEAN :
    LET shown == {f \in fields : ~f.meta}
        seen == IF given THEN shown ELSE {AsIntrospected(f) : f \in shown}
    IN /\ Cardinality(shown) <= MaxFields
       /\ schema' = fields
       /\ fieldTools' = {ToolOf(f) : f \in seen}
       /\ sent' = NothingSent /\ verdict' = "none"

(* invoke: an HTTP status, errors beside or without data, data.            *)
InvokeField == \E t \in fieldTools : \E variables \in SUBSET t.input.properties,
                  answer \in {"http error", "errors", "errors and data", "data"} :
    /\ t.input.required \subseteq variables
    /\ sent' = [kind |-> "call", tool |-> t, variables |-> variables]
    /\ verdict' = CASE answer = "http error" -> "http error"
                    [] answer \in {"errors", "errors and data"} -> "graphql_error"
                    [] answer = "data" -> "ok"
    /\ UNCHANGED <<schema, fieldTools>>

GraphqlNext == ResolveFields \/ InvokeField
GraphqlSpec == GraphqlInit /\ [][GraphqlNext]_graphqlVars
-----------------------------------------------------------------------------
(* Introspection hides nothing of a field: every type is named within its  *)
(* levels.                                                                 *)
InReach(f) ==
    \A t \in {f.type} \cup {a.type : a \in f.args} : Len(t.wraps) < Depth

(* The server can execute what a tool sends (extract.rs, operation_string):*)
(* each variable is declared with the type the server gives the argument,  *)
(* one that must not be null is always sent, and a selection is there if   *)
(* and only if the result is made of objects, however it is wrapped.       *)
OperationsFitTheSchema ==
    sent # NothingSent =>
        \E f \in schema :
            /\ <<f.root, f.name>> = sent.tool.name
            /\ InReach(f) =>
                 /\ sent.tool.operation.vars =
                      {[name |-> a.name, type |-> FormatTypeRef(a.type)] : a \in f.args}
                 /\ \A a \in f.args : IsNonNull(a.type) => a.name \in sent.variables
                 /\ sent.tool.operation.selection =
                      (f.type.kind \in {"OBJECT", "INTERFACE", "UNION"})
=============================================================================
