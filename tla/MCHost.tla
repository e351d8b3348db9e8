------------------------------- MODULE MCHost -------------------------------
(* The parts of host and command line that share no state: each behaviour  *)
(* chooses one.                                                            *)
EXTENDS Daemon, McpSessions, DeviceLogin, Policies, Orgs, Profiles, Surfaces,
        Documents, McpStdio, MCCatalogCalls, TLC

CONSTANTS c1, c2, home     \* MCP clients and a toolkit

VARIABLE part

vars == <<part, daemonVars, mcpVars, loginVars, allPolicyVars, orgVars, profileVars,
          surfaceVars, documentVars, stdioVars, callsVars>>

Init ==
    /\ part \in {"daemon", "mcp", "login", "policies", "orgs", "profiles", "surfaces",
                "documents", "stdio", "calls"}
    /\ DaemonInit /\ McpInit /\ LoginInit /\ PoliciesInit /\ OrgsInit /\ ProfilesInit
    /\ SurfacesInit /\ DocumentsInit /\ StdioInit /\ CallsInit
    /\ part # "documents" => store = "memory"

Takes(p, next) == part = p /\ next /\ UNCHANGED part

Next ==
    \/ Takes("daemon", DaemonNext)
       /\ UNCHANGED <<mcpVars, loginVars, allPolicyVars, orgVars,
                       profileVars, surfaceVars, documentVars, stdioVars, callsVars>>
    \/ Takes("mcp", McpNext)
       /\ UNCHANGED <<daemonVars, loginVars, allPolicyVars, orgVars,
                       profileVars, surfaceVars, documentVars, stdioVars, callsVars>>
    \/ Takes("login", LoginNext)
       /\ UNCHANGED <<daemonVars, mcpVars, allPolicyVars, orgVars,
                       profileVars, surfaceVars, documentVars, stdioVars, callsVars>>
    \/ Takes("policies", PoliciesNext)
       /\ UNCHANGED <<daemonVars, mcpVars, loginVars, orgVars,
                       profileVars, surfaceVars, documentVars, stdioVars, callsVars>>
    \/ Takes("orgs", OrgsNext)
       /\ UNCHANGED <<daemonVars, mcpVars, loginVars, allPolicyVars,
                       profileVars, surfaceVars, documentVars, stdioVars, callsVars>>
    \/ Takes("profiles", ProfilesNext)
       /\ UNCHANGED <<daemonVars, mcpVars, loginVars, allPolicyVars,
                       orgVars, surfaceVars, documentVars, stdioVars, callsVars>>
    \/ Takes("surfaces", SurfacesNext)
       /\ UNCHANGED <<daemonVars, mcpVars, loginVars, allPolicyVars,
                       orgVars, profileVars, documentVars, stdioVars, callsVars>>
    \/ Takes("documents", DocumentsNext)
       /\ UNCHANGED <<daemonVars, mcpVars, loginVars, allPolicyVars,
                       orgVars, profileVars, surfaceVars, stdioVars, callsVars>>
    \/ Takes("stdio", StdioNext)
       /\ UNCHANGED <<daemonVars, mcpVars, loginVars, allPolicyVars,
                       orgVars, profileVars, surfaceVars, documentVars, callsVars>>
    \/ Takes("calls", CallsNext)
       /\ UNCHANGED <<daemonVars, mcpVars, loginVars, allPolicyVars, orgVars,
                       profileVars, surfaceVars, documentVars, stdioVars>>

Spec == Init /\ [][Next]_vars

(* Whoever acts is a or b in every part; MCP clients differ by their URLs. *)
Symmetry == Permutations(Cli)
-----------------------------------------------------------------------------
(* What the URL of each client's MCP endpoint says. *)
MCUrls ==
    c1 :> [slug |-> Nil, mode |-> "passthrough", elicitation |-> "model", search |-> TRUE]
    @@ c2 :> [slug |-> home, mode |-> Nil, elicitation |-> "browser", search |-> TRUE]

(* Two tools, and rules of both owners that cover both or one of them.     *)
Create == <<"github", "issues", "create">>
Close == <<"github", "issues", "close">>
Rule(o, p, act) == [owner |-> o, pattern |-> p, action |-> act]
MCNewRule == {
    Rule("org", <<"*">>, "block"), Rule("user", <<"*">>, "approve"),
    Rule("org", <<"github", "*", "close">>, "require_approval"),
    Rule("org", <<"github", "issues", "*">>, "block") }
MCEdit == {
    [pattern |-> Keep, action |-> "require_approval"], [pattern |-> <<"*">>, action |-> Keep] }
MCToolPath == {Create, Close}
MCDynamic == {Create}
MCAsks == {Create}
=============================================================================
