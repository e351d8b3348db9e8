----------------------------- MODULE CallCommand -----------------------------
(***************************************************************************)
(* The call command: a person browses the tools with --help, then types a  *)
(* path and arguments, while the tools of connections come and go.  A word *)
(* is the sequence of its segments, as in ToolPaths.                       *)
(***************************************************************************)
EXTENDS ToolPaths

CONSTANTS
    BuiltIn,         \* names of built-in tools
    Installable,     \* cli paths of tools that connections may have
    OddSegment,      \* segments with other characters than letters, digits, '_', '-'
    Dashed,          \* segments that begin with '-'
    HelpWords,       \* what is typed after call --help
    CallWords,       \* what is typed after call, beside what help printed
    PricedId,        \* ids in the priced catalog
    MaxCommandsTyped \* bound: commands, and changes of the catalog

VARIABLES
    installed,       \* tools of connections
    view,            \* the paths help printed as tools, and with what it went on
    lastCall,        \* the last call: its words, what it ran or why nothing ran, and
                     \* for properties the tools it could run and whether help, still
                     \* true, had printed its path as a tool's
    commandsTyped,   \* commands and changes so far, for the bound only
    \* history, read by properties only
    seen             \* installed, when help printed

callVars == <<installed, view, lastCall, commandsTyped, seen>>

NoWords == <<>>
CallInit ==
    /\ installed = Installable
    /\ view = [tools |-> {}, spaces |-> {}]
    /\ lastCall = [words |-> NoWords, tail |-> "none", ran |-> NoTool, outcome |-> "none",
                   among |-> {}, offered |-> FALSE]
    /\ commandsTyped = 0
    /\ seen = Installable
-----------------------------------------------------------------------------
(* The segments of some words; empty ones are dropped.                     *)
ToSegments(words) == SelectSeq(FlattenSeq(words), LAMBDA s : s # "")
Segments(path) == ToSegments(<<path>>)
Under(paths, prefix) == {p \in paths : Segments(p) # <<>> /\ IsPrefix(prefix, Segments(p))}

Child(paths, n, segment) ==
    LET below == {Segments(p) : p \in {q \in paths : Segments(q)[n + 1] = segment}} IN
    [segment |-> segment,
     invokable |-> \E p \in below : Len(p) = n + 1,
     hasChildren |-> \E p \in below : Len(p) > n + 1]

InspectToolPath(paths, words) ==
    LET prefix == ToSegments(words)
        n == Len(prefix)
        deeper == {p \in Under(paths, prefix) : Len(Segments(p)) > n}
    IN [prefix |-> prefix,
        exact |-> {p \in Under(paths, prefix) : Segments(p) = prefix},
        matches |-> Cardinality(Under(paths, prefix)),
        children |-> {Child(deeper, n, s) : s \in {Segments(p)[n + 1] : p \in deeper}}]

(* The first segment of an address need not be typed. *)
InspectWithToolsPrefix(paths, words) ==
    LET first == InspectToolPath(paths, words)
        second == InspectToolPath(paths, <<<<"tools">>>> \o words)
    IN IF \/ first.matches > 0 \/ words = NoWords \/ Head(words) = <<"tools">>
          \/ second.matches = 0
       THEN first ELSE second

(* Without a match: the longest part of the prefix that has one. *)
Nearest(paths, inspection) ==
    LET part(d) == InspectToolPath(paths, <<SubSeq(inspection.prefix, 1, d)>>)
        depths == {d \in 0..(Len(inspection.prefix) - 1) : part(d).matches > 0}
    IN IF depths = {} THEN InspectToolPath(paths, NoWords) ELSE part(Max(depths))

Listed == {AddressOf(BuiltIn, t) : t \in BuiltIn \cup installed}

(* A lone tool is printed by its cli path, the rest below the prefix.      *)
(* --match and --limit choose among the children; so does a mismatch.      *)
Browse(words) ==
    LET asked == InspectWithToolsPrefix(Listed, words)
        i == IF asked.matches > 0 THEN asked ELSE Nearest(Listed, asked)
        exact == {p \in i.exact : p = i.prefix}
        leaf == {t \in BuiltIn \cup installed : AddressOf(BuiltIn, t) \in exact}
        path(c) == i.prefix \o <<c.segment>>
    IN IF asked.matches > 0 /\ i.children = {} /\ exact # {}
       THEN {[tools |-> leaf, spaces |-> {}]}
       ELSE {[tools |-> exact \cup {path(c) : c \in {d \in some : d.invokable}},
              spaces |-> {path(c) : c \in {d \in some : d.hasChildren}}] :
             some \in SUBSET i.children}

CallHelp == \E words \in HelpWords \cup {<<path>> : path \in view.spaces} :
    /\ commandsTyped < MaxCommandsTyped
    /\ commandsTyped' = commandsTyped + 1
    /\ view' \in Browse(words)
    /\ seen' = installed
    /\ UNCHANGED <<installed, lastCall>>
-----------------------------------------------------------------------------
(* What the last word may be: one more segment, an object that can be read *)
(* or not, or a file: not named, missing, without or with an object.       *)
Unreadable == {"broken", "@", "missing"}
LastWord == {"none", "object", "prose", "file"} \cup Unreadable

BuildToolPath(words) ==
    LET segments == ToSegments(words) IN
    IF segments = <<>> THEN [error |-> "empty", path |-> <<>>]
    ELSE IF Range(segments) \cap OddSegment # {} THEN [error |-> "segment", path |-> <<>>]
    ELSE [error |-> "none", path |-> segments]

ResolveInvocation(words, tail) ==
    IF tail \in {"@", "missing", "prose"} THEN [error |-> tail, path |-> <<>>]
    ELSE IF \E i \in DOMAIN words : words[i] # <<>> /\ words[i][1] \in Dashed
         THEN [error |-> "flags", path |-> <<>>]
    ELSE IF tail = "broken" THEN [error |-> tail, path |-> <<>>]
    ELSE BuildToolPath(words)

LooksLikeCatalogId(words) ==
    words # NoWords /\ Len(Head(words)) > 1 /\ Head(words)[1] \notin {"tools", "executor"}

(* The priced catalog is asked first, and ignored when it does not answer. *)
Outcome(words, tail, reachable) ==
    LET typed == ResolveInvocation(words, tail)
        tool == ResolvePath(BuiltIn, installed, typed.path)
    IN IF LooksLikeCatalogId(words) /\ Head(words) \in PricedId /\ reachable
       THEN <<IF tail \in Unreadable THEN "refused" ELSE "priced", NoTool>>
       ELSE IF typed.error # "none" THEN <<"refused", NoTool>>
       ELSE IF tool = NoTool THEN <<"not found", NoTool>>
       ELSE <<"ran", tool>>

Call ==
    /\ commandsTyped < MaxCommandsTyped
    /\ commandsTyped' = commandsTyped + 1
    /\ \E words \in CallWords \cup {<<path>> : path \in view.tools},
          tail \in LastWord, reachable \in BOOLEAN :
        LET outcome == Outcome(words, tail, reachable) IN
        lastCall' = [words |-> words, tail |-> tail, ran |-> outcome[2], outcome |-> outcome[1],
                     among |-> BuiltIn \cup installed,
                     offered |-> installed = seen /\ words \in {<<path>> : path \in view.tools}]
    /\ UNCHANGED <<installed, view, seen>>

(* A refresh, or a connection that is made or removed.                     *)
ToolsChange == \E tools \in SUBSET Installable :
    /\ commandsTyped < MaxCommandsTyped /\ tools # installed
    /\ commandsTyped' = commandsTyped + 1
    /\ installed' = tools
    /\ UNCHANGED <<view, lastCall, seen>>

CallNext == CallHelp \/ Call \/ ToolsChange
CallSpec == CallInit /\ [][CallNext]_callVars
-----------------------------------------------------------------------------
(* Names of segments a person can type, which call takes neither for a     *)
(* flag nor for the address of another tool.                               *)
Typeable(tool) ==
    /\ "" \notin Range(tool) /\ Range(tool) \cap OddSegment = {}
    /\ Head(tool) \notin Dashed /\ ParseToolAddress(tool) = NoTool

(* A call that repeats what help just printed.                             *)
RepeatsHelp ==
    /\ lastCall.offered /\ lastCall.outcome # "priced"
    /\ lastCall.tail \in {"none", "object", "file"}
Meant == {t \in lastCall.among : Typeable(t)
            /\ Head(lastCall.words) \in {t, AddressOf(BuiltIn, t)}}

(* What runs is what was named, in full or by words that only one tool     *)
(* begins with (lookup.rs:81-102), whatever came or went since help was    *)
(* read; and a tool of a connection that help prints as callable is called *)
(* by what help prints.                                                    *)
CallsRunWhatWasNamed ==
    /\ lastCall.outcome = "ran" =>
         LET path == ToSegments(lastCall.words) IN
         \/ path \in {lastCall.ran, AddressOf(BuiltIn, lastCall.ran)}
         \/ {t \in lastCall.among : IsPrefix(path, t)} = {lastCall.ran}
    /\ RepeatsHelp => \A t \in Meant \ BuiltIn : lastCall.ran = t
=============================================================================
