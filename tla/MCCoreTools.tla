----------------------------- MODULE MCCoreTools -----------------------------
(* The built-in tools beside the tools of one connection, which its server *)
(* lists anew now and then.                                                *)
EXTENDS CoreTools

(* The path of one goes on where another's ends.                           *)
ListIssues == <<"github", "org", "main", "list">>
ListAll == <<"github", "org", "main", "list", "all">>
CloseIssue == <<"github", "org", "main", "close">>
MCStored == {ListIssues, ListAll, CloseIssue}

(* What agents type: a prefix of several tools, one of a single tool, a    *)
(* path and an address of a tool that may be gone.                         *)
MCTyped == {<<"github">>, <<"executor", "graphql">>, ListIssues, Address(CloseIssue)}

ToolsInit == CoreInit /\ storedTools = {ListIssues}
ToolsSpec == ToolsInit /\ [][CoreNext]_coreVars
=============================================================================
