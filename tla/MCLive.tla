------------------------------- MODULE MCLive -------------------------------
(* What must end: calls of the execution runtime, requests to an upstream  *)
(* MCP server, uses of the secrets, and priced calls.  A behaviour is      *)
(* about one of them; the fair actions of the others are disabled before   *)
(* anything is asked of them.                                              *)
EXTENDS Execution, McpUpstream, SecretBackends, MCCatalogCalls

VARIABLE part

liveVars == <<part, vars, upstreamVars, backendVars, callsVars>>

LiveInit ==
    /\ part \in {"execution", "upstream", "secrets", "calls"}
    /\ Init /\ UpstreamInit /\ BackendsInit /\ CallsInit
    /\ part = "calls" => policy = "approve"

LiveNext ==
    \/ part = "execution" /\ Next /\ UNCHANGED <<part, upstreamVars, backendVars, callsVars>>
    \/ part = "upstream" /\ UpstreamNext /\ UNCHANGED <<part, vars, backendVars, callsVars>>
    \/ part = "secrets" /\ BackendsNext /\ UNCHANGED <<part, vars, upstreamVars, callsVars>>
    \/ part = "calls" /\ CallsNext /\ UNCHANGED <<part, vars, upstreamVars, backendVars>>

LiveSpec ==
    /\ LiveInit /\ [][LiveNext]_liveVars
    /\ Fairness /\ UpstreamFairness /\ BackendsFairness /\ CallsFairness
=============================================================================
