---------------------------- MODULE OpenApiTools ----------------------------
(***************************************************************************)
(* What the OpenAPI plugin makes of a document: tools with names and input *)
(* schemas (extract.rs, lib.rs), and of a call to one of them: an HTTP     *)
(* request (invoke.rs).  Identifiers are the sequences of their words, as  *)
(* split_words has them; the values of arguments do not matter, but for    *)
(* one that is called "body".                                              *)
(***************************************************************************)
EXTENDS Integers, FiniteSetsExt, SequencesExt

CONSTANTS
    Operation,       \* [method, path, opId, tag, itemParams, opParams, body]
    Presets,         \* the paths each preset keeps
    MaxTools,        \* Limits.max_tools
    MaxOperations    \* bound: operations of one document

VARIABLES
    document,        \* the operations kept of the document
    registered,      \* [name, op]
    called,          \* [op, args] of the last call
    requested        \* what was sent

openApiVars == <<document, registered, called, requested>>

Nothing == [kind |-> "nothing"]
Reserved == {"query", "path", "headers"}

OpenApiInit == document = {} /\ registered = {} /\ called = Nothing /\ requested = Nothing

-----------------------------------------------------------------------------
(* extract.rs: parameters of the path item come first. *)
Params(op) == op.itemParams \o op.opParams
ParamNames(op) == {p.name : p \in Range(Params(op))}
In(op, carrier) == SelectSeq(Params(op), LAMBDA p : p.in = carrier)
Times(name, params) == Cardinality({i \in DOMAIN params : params[i].name = name})

(* A document without operationId gets one of the method and the path.     *)
OperationId(op) ==
    IF op.opId # <<>> THEN op.opId
    ELSE <<op.method>> \o FlattenSeq([i \in DOMAIN op.path |-> op.path[i].words])

(* The first segment that is neither a parameter nor "api" or a version.   *)
PathGroup(op) ==
    LET named == SelectSeq(op.path, LAMBDA s : s.kind = "name")
    IN IF named = <<>> THEN <<"root">> ELSE named[1].words

Group(op) == IF op.tag # <<>> THEN op.tag ELSE PathGroup(op)

DeriveLeaf(op) ==
    IF OperationId(op) # Group(op) THEN OperationId(op)
    ELSE <<op.method>> \o PathGroup(op)

Planned(op) == [group |-> Group(op), leaf |-> DeriveLeaf(op)]

(* Faulty: the operations that collide keep their name. *)
KeepCollisions(op, ops) == Planned(op)

(* Every operation whose name is not its own gets its method behind it.    *)
ResolveCollisions(op, ops) ==
    IF \E o \in ops \ {op} : Planned(o) = Planned(op)
    THEN [Planned(op) EXCEPT !.leaf = @ \o <<op.method>>]
    ELSE Planned(op)

(* tools_from_operations: the properties of a tool's input. *)
Properties(op) ==
    LET named == ParamNames(op) \cup op.body.props
    IN IF named = {} /\ op.body.kind # "none" THEN {"body"} ELSE named

RequiredOf(op) ==
    {p.name : p \in {q \in Range(Params(op)) : q.required \/ q.in = "path"}} \cup op.body.required

(* resolve_tools: a document of too many operations gives no tools. *)
ResolveTools == \E ops \in SUBSET Operation, preset \in Presets :
    LET kept == {op \in ops : op.path \in preset} IN
    /\ Cardinality(ops) <= MaxOperations
    /\ Cardinality(kept) <= MaxTools
    /\ document' = kept
    /\ registered' = {[name |-> ResolveCollisions(op, kept), op |-> op] : op \in kept}
    /\ called' = Nothing /\ requested' = Nothing

-----------------------------------------------------------------------------
(* invoke.rs. *)

Placeholders(op) == {op.path[i].name : i \in {j \in DOMAIN op.path : op.path[j].kind = "param"}}

(* Faulty: what went into the path, the query or a header is sent again. *)
BodyOfEverything(op, args) ==
    IF op.method \in {"get", "head"} THEN {} ELSE args \ Reserved

(* apply_body: the arguments that are no parameters. *)
Leftover(op, args) ==
    IF op.method \in {"get", "head"} THEN {} ELSE args \ (ParamNames(op) \cup Reserved)

(* A lone object called "body" is the entity itself. *)
Entity(op, args) ==
    IF Leftover(op, args) = {} THEN "none"
    ELSE IF Leftover(op, args) = {"body"} /\ op.body.kind # "list" THEN "inner"
    ELSE "object"

(* invoke_operation: fill_path replaces every placeholder of a given name. *)
InvokeOperation(op, args) ==
    [kind |-> "request",
     unfilled |-> Placeholders(op) \ {a \in args : Times(a, In(op, "path")) > 0},
     path |-> {a \in args \cap Placeholders(op) : Times(a, In(op, "path")) > 0},
     query |-> [a \in args |-> Times(a, In(op, "query"))],
     headers |-> [a \in args |-> Times(a, In(op, "header"))],
     body |-> Leftover(op, args),
     entity |-> Entity(op, args)]

(* A call that the tool's input schema allows. *)
CallOperation == \E t \in registered : \E args \in SUBSET Properties(t.op) :
    /\ RequiredOf(t.op) \subseteq args
    /\ called' = [kind |-> "call", op |-> t.op, args |-> args]
    /\ requested' = InvokeOperation(t.op, args)
    /\ UNCHANGED <<document, registered>>

OpenApiNext == ResolveTools \/ CallOperation
OpenApiSpec == OpenApiInit /\ [][OpenApiNext]_openApiVars
-----------------------------------------------------------------------------
(* Two operations of a document are two tools (extract.rs,                      *)
(* resolve_collisions): names are the keys of the catalog.  They can only  *)
(* be the same when both the name and the method were the same, or when    *)
(* an operationId itself ends in a method.                                 *)
EndsInMethod(op) == Last(OperationId(op)) \in {o.method : o \in Operation}

NamesAreDistinct ==
    \A t, u \in registered :
        /\ t.op # u.op
        /\ ~EndsInMethod(t.op) /\ ~EndsInMethod(u.op)
        /\ Planned(t.op) # Planned(u.op) \/ t.op.method # u.op.method
        => t.name # u.name

(* What the schema asks for and the request does not carry as declared:    *)
(* cookies, a parameter declared for the path and again for the operation, *)
(* a body property with a name invoke.rs reserves, an object's property    *)
(* "body", a body that is a list, and a body of GET or HEAD.               *)
Irregular(op) ==
    \/ \E p \in Range(Params(op)) : p.in = "cookie"
    \/ \E a \in ParamNames(op) : Times(a, Params(op)) > 1
    \/ op.body.props \cap (Reserved \cup {"body"}) # {}
    \/ op.body.kind = "list"
    \/ op.body.kind # "none" /\ op.method \in {"get", "head"}

(* The arguments a schema allows reach the place the operation declares    *)
(* for them, each once, and nothing is left in the path template.          *)
ArgumentsArrive ==
    requested # Nothing =>
        LET op == called.op
            declared(a) == {p.in : p \in {q \in Range(Params(op)) : q.name = a}}
        IN ~Irregular(op) =>
             /\ requested.unfilled \subseteq Placeholders(op) \ ParamNames(op)
             /\ \A a \in called.args :
                  /\ a \in requested.body <=> declared(a) = {}
                  /\ a \in requested.path <=> "path" \in declared(a) /\ a \in Placeholders(op)
                  /\ requested.query[a] = IF "query" \in declared(a) THEN 1 ELSE 0
                  /\ requested.headers[a] = IF "header" \in declared(a) THEN 1 ELSE 0
             /\ requested.entity = "inner" => op.body.props = {}

(* Every operation of a document is a tool of its own, and calling it is   *)
(* calling the operation.                                                  *)
OperationsAreTools == NamesAreDistinct /\ ArgumentsArrive
=============================================================================
