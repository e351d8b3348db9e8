----------------------------- MODULE CatalogCalls -----------------------------
(***************************************************************************)
(* CatalogService: priced calls over the ledger.  A task is one HTTP or    *)
(* MCP request; its steps are the critical sections it enters (ledger,     *)
(* team tools, relays, pending top-ups) and the upstream call, the only    *)
(* place where it waits and so the only place where a client that hangs up *)
(* drops it.                                                               *)
(***************************************************************************)
EXTENDS Ledger, FiniteSets, Functions

CONSTANTS
    Caller,         \* concurrent requests
    Endpoint,     \* catalogued endpoints
    Provider,     \* their providers
    Catalog,      \* [Endpoint -> [provider, access, cost, child]]
    NoPrice,      \* cost_micro: None
    NoChild,      \* routed_child: None
    NoReply,
    Amounts,      \* top-up amounts
    MaxIds,       \* bound on ids taken from the shared counter
    MaxOrdered    \* bound on what a subject orders

(* struct Endpoint, as far as a call depends on it. *)
Entries == [provider : Provider,
            access   : {"anonymous", "platform", "own_key_only"},
            cost     : 0..MaxI64 \cup {NoPrice},
            child    : Endpoint \cup {NoChild}]

ASSUME CatalogAssumption ==
    /\ Catalog \in [Endpoint -> Entries]
    /\ NoPrice \notin Int
    /\ NoChild \notin Endpoint
    /\ Amounts \subseteq 1..MaxI64
    /\ Subject # {} /\ Endpoint # {}
    /\ IsFiniteSet(Caller)
    /\ MaxIds \in Nat /\ MaxOrdered \in Nat

VARIABLES
    stage, req,   \* each task's point in its handler and its locals
    calls,     \* the id counter shared by calls, top-ups, tools and relays
    pending,   \* pending_topups
    own,       \* providers with a saved connection
    team,      \* providers with a team tool
    relays,    \* providers with an overflow relay
    optOut,    \* overflow_opt_out
    \* history, read by properties only
    replied,   \* the last reply to each task
    leaked,    \* call ids whose task was dropped
    ordered,   \* top-ups ever ordered by a subject
    served     \* priced answers delivered

registry == <<own, team, relays, optOut>>
callsVars == <<money, stage, req, calls, pending, registry, replied, leaked, ordered, served>>

Metered == {"platform", "overflow"}   \* ServedVia::metered of a rung

NoCall == [what |-> "none", subject |-> CHOOSE s \in Subject : TRUE,
           endpoint |-> CHOOSE e \in Endpoint : TRUE, routed |-> FALSE,
           key |-> FALSE, keys |-> {}, via |-> "none", relay |-> FALSE,
           id |-> 0, micro |-> 0, paid |-> 0]

CallsInit ==
    /\ LedgerInit
    /\ stage = [t \in Caller |-> "idle"]
    /\ req = [t \in Caller |-> NoCall]
    /\ calls = 0
    /\ pending = {}
    /\ own = {}
    /\ team = {}
    /\ relays = {}
    /\ optOut = FALSE
    /\ replied = [t \in Caller |-> NoReply]
    /\ leaked = {}
    /\ ordered = [s \in Subject |-> 0]
    /\ served = [s \in Subject |-> [e \in Endpoint |-> 0]]

GoOn(t, next, locals) ==
    /\ stage' = [stage EXCEPT ![t] = next]
    /\ req' = [req EXCEPT ![t] = locals]
    /\ UNCHANGED replied

Done(t) ==
    /\ stage' = [stage EXCEPT ![t] = "idle"]
    /\ req' = [req EXCEPT ![t] = NoCall]

(* The answer to a call.  `by' is who served it, `via' what the reply says *)
(* and `paid' what the ledger really took for the call.                    *)
Respond(t, via, cost, by) ==
    /\ replied' = [replied EXCEPT ![t] =
         [via  |-> IF req[t].routed /\ via # "error" THEN "routed" ELSE via,
          cost |-> cost,
          by   |-> by,
          paid |-> req[t].paid + spent'[req[t].subject] - spent[req[t].subject]]]
    /\ Done(t)

(* AtomicU64::fetch_add *)
NextId == calls < MaxIds /\ calls' = calls + 1

-----------------------------------------------------------------------------
(* call *)

(* The handler looks up a saved connection for the provider of the         *)
(* endpoint it was asked for.                                              *)
StartCall(t, s, e) ==
    /\ stage[t] = "idle"
    /\ stage' = [stage EXCEPT ![t] = "route"]
    /\ req' = [req EXCEPT ![t] = [NoCall EXCEPT
                 !.what = "call", !.subject = s, !.endpoint = e,
                 !.key = Catalog[e].provider \in own, !.keys = own]]
    /\ replied' = [replied EXCEPT ![t] = NoReply]
    /\ UNCHANGED <<money, calls, pending, registry, leaked, ordered, served>>

(* A routed endpoint hands the same input on to its child. *)
RouteToChild(t) ==
    /\ stage[t] = "route"
    /\ LET child == Catalog[req[t].endpoint].child
       IN  IF child = NoChild
             THEN GoOn(t, "ladder", req[t])
             ELSE GoOn(t, "route", [req[t] EXCEPT !.endpoint = child, !.routed = TRUE])
    /\ UNCHANGED <<money, calls, pending, registry, leaked, ordered, served>>

(* enforce_strict_query, or a child the catalog does not have. *)
Refuse(t) ==
    /\ stage[t] = "route"
    /\ UNCHANGED money
    /\ Respond(t, "error", 0, "nobody")
    /\ UNCHANGED <<calls, pending, registry, leaked, ordered, served>>

(* ladder: team tool, own connection, anonymous, platform with a price.    *)
Rung(e, hasTool, hasKey) ==
    CASE hasTool -> "team_tool"
      [] ~hasTool /\ hasKey -> "connection"
      [] ~hasTool /\ ~hasKey /\ Catalog[e].access = "anonymous" -> "anonymous"
      [] ~hasTool /\ ~hasKey /\ Catalog[e].access = "platform"
           /\ Catalog[e].cost # NoPrice -> "platform"
      [] OTHER -> "refused"

Meter(e, via) == IF via \in Metered /\ Catalog[e].cost # NoPrice
                   THEN Catalog[e].cost ELSE 0

Ladder(t) ==
    /\ stage[t] = "ladder"
    /\ UNCHANGED money
    /\ LET e   == req[t].endpoint
           via == Rung(e, Catalog[e].provider \in team, req[t].key)
       IN  IF via = "refused"
             THEN Respond(t, "error", 0, "nobody") /\ UNCHANGED calls
             ELSE /\ NextId
                  /\ GoOn(t, IF Meter(e, via) > 0 THEN "signup" ELSE "invoke",
                          [req[t] EXCEPT !.via = via, !.id = calls])
    /\ UNCHANGED <<pending, registry, leaked, ordered, served>>

(* ensure_signup_grant, on the way to a reserve or to a credit. *)
Signup(t) ==
    /\ stage[t] = "signup"
    /\ EnsureSignupGrant(req[t].subject)
    /\ GoOn(t, IF req[t].what = "call" THEN "reserve" ELSE "credit", req[t])
    /\ UNCHANGED <<calls, pending, registry, leaked, ordered, served>>

ReserveCost(t) ==
    /\ stage[t] = "reserve"
    /\ LET cost == Catalog[req[t].endpoint].cost
       IN  \/ /\ Reserve(req[t].subject, req[t].id, cost)
              /\ GoOn(t, "invoke", req[t])
           \/ /\ ~CanReserve(req[t].subject, req[t].id, cost)
              /\ UNCHANGED money
              /\ Respond(t, "error", 0, "nobody")     \* PaymentRequired
    /\ UNCHANGED <<calls, pending, registry, leaked, ordered, served>>

(* Upstream answers below 500: settle and reply. *)
UpstreamServed(t) ==
    /\ stage[t] = "invoke"
    /\ LET e     == req[t].endpoint
           s     == req[t].subject
           meter == Meter(e, req[t].via)
       IN  /\ IF meter > 0 THEN Settle(req[t].id, meter) ELSE UNCHANGED money
           /\ Respond(t, IF req[t].relay THEN "overflow" ELSE req[t].via, meter,
                    IF req[t].relay THEN "relay" ELSE req[t].via)
           /\ served' = IF meter > 0 THEN [served EXCEPT ![s][e] = @ + 1] ELSE served
    /\ UNCHANGED <<calls, pending, registry, leaked, ordered>>

(* Faulty: a failed attempt is charged like a served one. *)
ChargeFailure(t) ==
    /\ stage[t] = "invoke"
    /\ Settle(req[t].id, Meter(req[t].endpoint, req[t].via))
    /\ IF req[t].relay
         THEN Respond(t, "error", 0, "nobody")
         ELSE GoOn(t, "overflow", [req[t] EXCEPT
                     !.paid = @ + spent'[req[t].subject] - spent[req[t].subject]])
    /\ UNCHANGED <<calls, pending, registry, leaked, ordered, served>>

(* Faulty: the error path forgets the hold. *)
FailWithoutRelease(t) ==
    /\ stage[t] = "invoke"
    /\ UNCHANGED money
    /\ IF req[t].relay THEN Respond(t, "error", 0, "nobody")
                       ELSE GoOn(t, "overflow", req[t])
    /\ UNCHANGED <<calls, pending, registry, leaked, ordered, served>>

(* Upstream answers 500 or above, fails, or runs into the 15 s timeout:    *)
(* release the hold.  A failed relay ends the call with the first failure. *)
NotServed(t) ==
    /\ stage[t] = "invoke"
    /\ IF Meter(req[t].endpoint, req[t].via) > 0
         THEN Release(req[t].id) ELSE UNCHANGED money
    /\ IF req[t].relay
         THEN \E via \in {req[t].via, "error"} : Respond(t, via, 0, "nobody")
         ELSE GoOn(t, "overflow", [req[t] EXCEPT
                     !.paid = @ + spent'[req[t].subject] - spent[req[t].subject]])
    /\ UNCHANGED <<calls, pending, registry, leaked, ordered, served>>

(* overflow_retry: only for the platform rung, unless opted out, and with  *)
(* a call id of its own.                                                   *)
Overflow(t) ==
    /\ stage[t] = "overflow"
    /\ UNCHANGED money
    /\ IF req[t].via = "platform" /\ ~optOut /\ Catalog[req[t].endpoint].provider \in relays
         THEN /\ NextId
              /\ GoOn(t, IF Meter(req[t].endpoint, req[t].via) > 0
                           THEN "signup" ELSE "invoke",
                      [req[t] EXCEPT !.relay = TRUE, !.id = calls])
         ELSE /\ \E via \in {req[t].via, "error"} : Respond(t, via, 0, "nobody")
              /\ UNCHANGED calls
    /\ UNCHANGED <<pending, registry, leaked, ordered, served>>

(* The client hangs up: the handler's future is dropped where it waits,    *)
(* and nobody settles or releases what it reserved.                        *)
HangUp(t) ==
    /\ stage[t] = "invoke"
    /\ leaked' = leaked \cup {req[t].id}
    /\ Done(t)
    /\ UNCHANGED <<money, calls, pending, registry, replied, ordered, served>>

-----------------------------------------------------------------------------
(* Top-ups *)

Order(s, m) == /\ ordered[s] + m <= MaxOrdered
               /\ ordered' = [ordered EXCEPT ![s] = @ + m]

(* create_topup: nothing is credited yet. *)
CreateTopup(s, m) ==
    /\ Order(s, m)
    /\ NextId
    /\ pending' = pending \cup {[id |-> calls, subject |-> s, micro |-> m]}
    /\ UNCHANGED <<money, stage, req, registry, replied, leaked, served>>

(* topup, the direct credit. *)
StartTopup(t, s, m) ==
    /\ stage[t] = "idle"
    /\ Order(s, m)
    /\ GoOn(t, "signup", [NoCall EXCEPT !.what = "topup", !.subject = s, !.micro = m])
    /\ UNCHANGED <<money, calls, pending, registry, leaked, served>>

(* confirm_topup, by the local confirm route or by a (repeated) webhook:   *)
(* whoever removes the intent goes on to credit it.                        *)
StartConfirm(t, intent) ==
    /\ stage[t] = "idle"
    /\ pending' = pending \ {intent}
    /\ GoOn(t, "signup", [NoCall EXCEPT !.what = "topup", !.micro = intent.micro,
                                        !.subject = intent.subject])
    /\ UNCHANGED <<money, calls, registry, leaked, ordered, served>>

CreditTopup(t) ==
    /\ stage[t] = "credit"
    /\ Grant(req[t].subject, req[t].micro)
    /\ Done(t)
    /\ UNCHANGED <<calls, pending, registry, replied, leaked, ordered, served>>

(* balance: a look at the balance grants as well. *)
Balance(s) ==
    /\ s \notin granted
    /\ EnsureSignupGrant(s)
    /\ UNCHANGED <<stage, req, calls, pending, registry, replied, leaked, ordered, served>>

-----------------------------------------------------------------------------
(* Registrations *)

RegisterTeamTool(p) ==
    /\ NextId
    /\ team' = team \cup {p}
    /\ UNCHANGED <<money, stage, req, pending, own, relays, optOut, replied,
                   leaked, ordered, served>>

RegisterOverflowRelay(p) ==
    /\ NextId
    /\ relays' = relays \cup {p}
    /\ UNCHANGED <<money, stage, req, pending, own, team, optOut, replied,
                   leaked, ordered, served>>

(* The same answer again changes nothing. *)
SetOverflowOptOut(b) ==
    /\ b # optOut
    /\ optOut' = b
    /\ UNCHANGED <<money, stage, req, calls, pending, own, team, relays, replied,
                   leaked, ordered, served>>

(* A connection for the provider is saved, or removed. *)
SaveConnection(p) ==
    /\ own' = IF p \in own THEN own \ {p} ELSE own \cup {p}
    /\ UNCHANGED <<money, stage, req, calls, pending, team, relays, optOut,
                   replied, leaked, ordered, served>>

-----------------------------------------------------------------------------

Work(t) ==
    \/ RouteToChild(t) \/ Refuse(t) \/ Ladder(t) \/ Signup(t) \/ ReserveCost(t)
    \/ UpstreamServed(t) \/ NotServed(t) \/ Overflow(t) \/ CreditTopup(t)

CallsNext ==
    \/ \E t \in Caller, s \in Subject, e \in Endpoint : StartCall(t, s, e)
    \/ \E t \in Caller : Work(t) \/ HangUp(t)
    \/ \E s \in Subject : Balance(s)
    \/ \E s \in Subject, m \in Amounts : CreateTopup(s, m)
    \/ \E t \in Caller, s \in Subject, m \in Amounts : StartTopup(t, s, m)
    \/ \E t \in Caller : \E intent \in pending : StartConfirm(t, intent)
    \/ \E p \in Provider : RegisterTeamTool(p) \/ RegisterOverflowRelay(p)
                              \/ SaveConnection(p)
    \/ \E b \in BOOLEAN : SetOverflowOptOut(b)

CallsSpec == CallsInit /\ [][CallsNext]_callsVars

(* A running handler runs on; an upstream that does not answer is cut off  *)
(* by the HTTP client's timeout.                                           *)
CallsFairness == \A t \in Caller : WF_callsVars(Work(t))

-----------------------------------------------------------------------------
(* Properties *)

Stages == {"idle", "route", "ladder", "signup", "reserve", "invoke", "overflow", "credit"}
Vias == {"none", "error", "team_tool", "connection", "anonymous", "platform",
         "routed", "overflow"}

Requests == [what : {"none", "call", "topup"}, subject : Subject,
           endpoint : Endpoint, routed : BOOLEAN, key : BOOLEAN,
           keys : SUBSET Provider, via : Vias, relay : BOOLEAN,
           id : Nat, micro : Nat, paid : Int]

(* Every variable keeps its type: ledger maps, request locals, registries  *)
(* and the records of what was replied.                                    *)
CallsTypeOK ==
    /\ balance \in [Subject -> Int]
    /\ DOMAIN holds \subseteq Nat
    /\ holds \in [DOMAIN holds -> Hold]
    /\ granted \subseteq Subject
    /\ credited \in [Subject -> Nat]
    /\ held \in [Subject -> Int]
    /\ spent \in [Subject -> Int]
    /\ stage \in [Caller -> Stages]
    /\ req \in [Caller -> Requests]
    /\ calls \in Nat
    /\ pending \subseteq [id : Nat, subject : Subject, micro : Amounts]
    /\ own \subseteq Provider
    /\ team \subseteq Provider
    /\ relays \subseteq Provider
    /\ optOut \in BOOLEAN
    /\ leaked \subseteq Nat
    /\ ordered \in [Subject -> Nat]
    /\ served \in [Subject -> [Endpoint -> Nat]]

(* What the hold map reserves for a subject. *)
OnHold(s) == SumFunction([id \in DOMAIN holds |->
                 IF holds[id].subject = s THEN holds[id].reserved ELSE 0])

(* Money is neither made nor lost: as long as what a subject was credited  *)
(* fits an i64, its balance is not negative and balance, holds and charges *)
(* add up to the credits, whatever calls, retries over a relay, hang-ups   *)
(* and top-ups overlap; and the credits are the signup grant and top-ups   *)
(* that were ordered, each credited once, whoever confirms it how often.   *)
MoneyConserved ==
    \A s \in Subject :
        /\ credited[s] <= SignupGrant + ordered[s]
        /\ held[s] = OnHold(s)
        /\ credited[s] <= MaxI64 =>
              balance[s] >= 0 /\ balance[s] + OnHold(s) + spent[s] = credited[s]

Metering(t) == stage[t] = "invoke" /\ Meter(req[t].endpoint, req[t].via) > 0

(* The open holds are exactly those of the metered calls waiting for their *)
(* upstream and of the dropped ones: one hold each, never both the first   *)
(* attempt's and the relay's, none of a call that has its answer, and none *)
(* of a call with a saved key, unless it came through a routed endpoint.   *)
HoldsMatchCalls ==
    /\ DOMAIN holds = {req[t].id : t \in {u \in Caller : Metering(u)}}
                        \cup (leaked \cap DOMAIN holds)
    /\ \A t \in Caller : Metering(t) =>
         /\ req[t].id \notin leaked
         /\ holds[req[t].id] = [subject  |-> req[t].subject,
                                reserved |-> Catalog[req[t].endpoint].cost]
         /\ \A u \in Caller \ {t} : Metering(u) => req[u].id # req[t].id
         /\ ~req[t].routed => Catalog[req[t].endpoint].provider \notin req[t].keys

(* A reply's cost_micro is what the ledger took for that call, over the    *)
(* first attempt and the relay together: nothing for an error, a failed    *)
(* call, an own key or a team tool.                                        *)
ReplyStatesTheCharge ==
    \A t \in Caller : replied[t] # NoReply =>
        /\ replied[t].cost = replied[t].paid
        /\ replied[t].by \notin {"platform", "relay"} => replied[t].cost = 0

(* README: "your key always wins and is never metered".                    *)
OwnKeyIsFree ==
    \A t \in Caller : Metering(t) =>
        Catalog[req[t].endpoint].provider \notin req[t].keys

Priced == {e \in Endpoint : Catalog[e].cost \in 1..MaxI64}

(* Calls and top-ups implement Prepaid: to a subject whose holds are its   *)
(* funds still, only a delivered answer costs, exactly its published price. *)
Funds == [s \in Subject |-> balance[s] + held[s]]
PricedServed == [s \in Subject |-> [e \in Priced |-> served[s][e]]]
Account == INSTANCE Prepaid WITH funds <- Funds, served <- PricedServed,
                                 Price <- [e \in Priced |-> Catalog[e].cost]
ImplementsPrepaid == Account!Spec

(* A hold does not outlive its call: it is settled or released unless the  *)
(* client hung up.                                                         *)
HoldsEnd ==
    \A id \in 0..(MaxIds - 1) :
        (id \in DOMAIN holds) ~> (id \notin DOMAIN holds \/ id \in leaked)

=============================================================================
