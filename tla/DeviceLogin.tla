----------------------------- MODULE DeviceLogin -----------------------------
(***************************************************************************)
(* Device login: the table of grants in the host (executor-host/src/       *)
(* auth.rs) and the commands that ask for a code, show it to their user    *)
(* and poll for the token (executor-cli/src/login.rs, poll_token).  A      *)
(* grant's key and its user code are both made from the millisecond.       *)
(***************************************************************************)
EXTENDS Integers, FiniteSets

CONSTANTS
    Device,          \* commands that log in
    MaxGrants,       \* bound of the table (1024)
    GrantTtl,        \* and of a grant's life (300 s)
    MaxMs            \* bound: how long the model watches

ASSUME LoginAssumption == MaxGrants \in Nat \ {0} /\ GrantTtl \in Nat /\ MaxMs \in Nat

VARIABLES
    grants,          \* [ms, expires, approved]
    ms,              \* the clock, for keys and expiry
    login,           \* each command's stage
    code,            \* the code it was given, its time,
    \* history, read by properties only
    approvedBy,         \* users who approved their command's code
    shared,          \* commands whose code was handed out twice
    younger,         \* codes handed out after each command's, up to MaxGrants
    forgotten        \* commands whose host has restarted

loginVars == <<grants, ms, login, code, approvedBy, shared, younger, forgotten>>

Waiting(d) == login[d] = "polling"

LoginTypeOK ==
    /\ grants \subseteq [ms : 0..MaxMs, expires : Nat, approved : BOOLEAN]
    /\ \A g, h \in grants : g.ms = h.ms => g = h
    /\ Cardinality(grants) <= MaxGrants + 1
    /\ login \in [Device -> {"idle", "polling", "token", "expired", "late", "failed"}]
    /\ code \in [Device -> 0..MaxMs]

LoginInit ==
    /\ grants = {} /\ ms = 0
    /\ login = [d \in Device |-> "idle"]
    /\ code = [d \in Device |-> 0]
    /\ approvedBy = {} /\ shared = {} /\ forgotten = {}
    /\ younger = [d \in Device |-> 0]

Older(g, rows) == Cardinality({h \in rows : h.ms < g.ms})
Newer(g, rows) == Cardinality({h \in rows : h.ms > g.ms})

(* Faulty: over the bound, the table drops its newest grants. *)
PruneNewest ==
    LET live == {g \in grants : g.expires > ms}
    IN {g \in live : Older(g, live) < MaxGrants}

(* Expired grants go, then those with the smallest keys. *)
Prune ==
    LET live == {g \in grants : g.expires > ms}
    IN {g \in live : Newer(g, live) < MaxGrants}

(* The new grant comes after the pruning: the table may have one too many. *)
DeviceCode(d) ==
    /\ ~Waiting(d)
    /\ grants' = {g \in Prune : g.ms # ms} \cup
                 {[ms |-> ms, expires |-> ms + GrantTtl, approved |-> FALSE]}
    /\ login' = [login EXCEPT ![d] = "polling"]
    /\ code' = [code EXCEPT ![d] = ms]
    /\ LET twins == {e \in Device \ {d} : Waiting(e) /\ code[e] = ms}
       IN shared' = (shared \ {d}) \cup
                    IF twins = {} THEN {} ELSE twins \cup {d}
    /\ younger' = [e \in Device |-> IF e = d THEN 0
                                    ELSE IF younger[e] = MaxGrants THEN MaxGrants
                                    ELSE younger[e] + 1]
    /\ approvedBy' = approvedBy \ {d}
    /\ forgotten' = forgotten \ {d}
    /\ UNCHANGED ms

(* Faulty: the code is not compared. *)
ApproveAny(d) ==
    /\ Waiting(d)
    /\ grants' = {[g EXCEPT !.approved = TRUE] : g \in grants}
    /\ approvedBy' = approvedBy \cup {d}
    /\ UNCHANGED <<ms, login, code, shared, younger, forgotten>>

(* The user of a command approves its code; nothing is pruned. *)
DeviceApprove(d) ==
    /\ Waiting(d)
    /\ grants' = {[g EXCEPT !.approved = @ \/ g.ms = code[d]] : g \in grants}
    /\ approvedBy' = IF \E g \in grants : g.ms = code[d] THEN approvedBy \cup {d} ELSE approvedBy
    /\ UNCHANGED <<ms, login, code, shared, younger, forgotten>>

(* One poll: the token of an approved grant, expired_token for one that is *)
(* not in the table, and otherwise another poll.                           *)
DeviceToken(d) ==
    /\ Waiting(d)
    /\ grants' = Prune
    /\ login' = [login EXCEPT ![d] =
            IF ~\E g \in Prune : g.ms = code[d] THEN "expired"
            ELSE IF \E g \in Prune : g.ms = code[d] /\ g.approved THEN "token"
            ELSE "polling"]
    /\ UNCHANGED <<ms, code, approvedBy, shared, younger, forgotten>>

(* The command's own deadline, and an answer that is not one. *)
LoginTimesOut(d) ==
    /\ Waiting(d) /\ ms >= code[d] + GrantTtl
    /\ login' = [login EXCEPT ![d] = "late"]
    /\ UNCHANGED <<grants, ms, code, approvedBy, shared, younger, forgotten>>

PollFails(d) ==
    /\ Waiting(d)
    /\ login' = [login EXCEPT ![d] = "failed"]
    /\ UNCHANGED <<grants, ms, code, approvedBy, shared, younger, forgotten>>

HostRestarts ==
    /\ grants' = {}
    /\ forgotten' = Device
    /\ UNCHANGED <<ms, login, code, approvedBy, shared, younger>>

LoginTick ==
    /\ ms < MaxMs
    /\ ms' = ms + 1
    /\ UNCHANGED <<grants, login, code, approvedBy, shared, younger, forgotten>>

LoginNext ==
    \/ \E d \in Device : \/ DeviceCode(d) \/ DeviceApprove(d) \/ DeviceToken(d)
                         \/ LoginTimesOut(d) \/ PollFails(d)
    \/ HostRestarts \/ LoginTick

LoginSpec == LoginInit /\ [][LoginNext]_loginVars
-----------------------------------------------------------------------------
(* A command that gets a token was approved by its own user (auth.rs,      *)
(* device_approve), except where two commands were given one code within   *)
(* one millisecond; and a login that its user approved is told "expired"   *)
(* only when its time is over, its host has restarted, its code was handed *)
(* out again, or MaxGrants later logins have pushed it out of the table,   *)
(* which holds at most one grant of a code.                                *)
ApprovalDecides ==
    /\ LoginTypeOK
    /\ \A d \in Device :
          /\ login[d] = "token" => d \in approvedBy \cup shared
          /\ login[d] = "expired" /\ d \in approvedBy =>
               \/ ms >= code[d] + GrantTtl
               \/ d \in forgotten \cup shared
               \/ younger[d] >= MaxGrants
=============================================================================
