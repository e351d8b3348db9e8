------------------------------ MODULE ToolPaths ------------------------------
(***************************************************************************)
(* Addresses of tools and how the engine finds the tool that a path means. *)
(* A path is the sequence of its segments, what stands between two dots;   *)
(* a segment may be empty.  A tool is known by its cli path: integration,  *)
(* owner, connection and name, or the name alone for a built-in one.       *)
(***************************************************************************)
EXTENDS Integers, SequencesExt, FiniteSetsExt

NoTool == <<>>
ParseOwner(segment) == segment \in {"org", "user"}

Address(path) == <<"tools">> \o path

(* Built-in tools have an address too; it only groups them.                *)
PushStatic(path) == Address(<<"executor", "org", "core">> \o path)
AddressOf(statics, tool) == IF tool \in statics THEN PushStatic(tool) ELSE Address(tool)

(* Four segments lead, what is left is the name. *)
ParseToolAddress(path) ==
    IF /\ Len(path) >= 5
       /\ path[1] = "tools" /\ ParseOwner(path[3])
       /\ "" \notin {path[2], path[4]}
       /\ SubSeq(path, 5, Len(path)) # <<"">>
    THEN Tail(path) ELSE NoTool

UniqueOr(paths, default) ==
    IF Cardinality(paths) = 1 THEN CHOOSE p \in paths : TRUE ELSE default

(* Faulty: a prefix of several tools means the first of them. *)
ResolveToAny(statics, stored, path) ==
    LET under == {t \in statics \cup stored : IsPrefix(path, t)}
    IN IF path \in statics THEN path
       ELSE IF ParseToolAddress(path) # NoTool
            THEN UniqueOr({ParseToolAddress(path)} \cap stored, NoTool)
            ELSE IF under = {} THEN NoTool ELSE CHOOSE t \in under : TRUE

(* A built-in tool's name, a full address, an address without its first    *)
(* segment, and last a prefix that only one tool has.                      *)
ResolvePath(statics, stored, path) ==
    LET tools == statics \cup stored
        named == ParseToolAddress(path)
        short == ParseToolAddress(Address(path))
        under == {t \in tools : IsPrefix(path, t)}
        exact == {t \in tools : path \in {t, AddressOf(statics, t)}}
    IN IF path \in statics THEN path
       ELSE IF named # NoTool THEN UniqueOr({named} \cap stored, NoTool)
       ELSE IF short # NoTool /\ short \in stored THEN short
       ELSE UniqueOr(exact, UniqueOr(under, NoTool))
=============================================================================
