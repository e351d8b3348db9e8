-------------------------- MODULE CatalogCallsProofs --------------------------
(***************************************************************************)
(* Theorems about the ledger and the priced calls: the money adds up, the  *)
(* holds are those of waiting calls, replies state what was charged, and   *)
(* the calls implement the abstract prepaid account.                       *)
(***************************************************************************)
EXTENDS CatalogCalls, SumProofs

-----------------------------------------------------------------------------
(* The hold map as a sum *)

(* What hold map H reserves for s, entry by entry and in total. *)
PartOf(hold, s) == IF hold.subject = s THEN hold.reserved ELSE 0
Parts(H, s) == [id \in DOMAIN H |-> PartOf(H[id], s)]
Total(H, s) == SumFunctionOnSet(Parts(H, s), DOMAIN H)

HoldMap(H) == H \in [DOMAIN H -> Hold] /\ DOMAIN H \subseteq Nat /\ IsFiniteSet(DOMAIN H)

(* OnHold is the total of the ledger's hold map.                           *)
LEMMA OnHoldIsTotal ==
  ASSUME NEW s
  PROVE  OnHold(s) = Total(holds, s)
  BY Zenon DEF OnHold, Total, Parts, PartOf, SumFunction

(* What a hold reserves is a natural number, and so is the total.          *)
LEMMA TotalType ==
  ASSUME NEW H, HoldMap(H), NEW s
  PROVE  /\ Total(H, s) \in Nat
         /\ \A id \in DOMAIN H : Parts(H, s)[id] \in Nat
  <1>1. \A id \in DOMAIN H : Parts(H, s)[id] \in Nat
    BY MoneyAssumption DEF HoldMap, Hold, Parts, PartOf
  <1>2. IsFiniteSet(DOMAIN H)
    BY DEF HoldMap
  <1> HIDE DEF Parts
  <1>3. Total(H, s) \in Int /\ Total(H, s) >= 0
    BY <1>1, <1>2, SumType DEF Total
  <1>4. QED
    BY <1>1, <1>3

(* Opening a hold adds what it reserves to its subject's total.            *)
LEMMA TotalOpened ==
  ASSUME NEW H, HoldMap(H), NEW id \in Nat, id \notin DOMAIN H, NEW hold \in Hold, NEW K,
         K = [i \in DOMAIN H \cup {id} |-> IF i = id THEN hold ELSE H[i]]
  PROVE  /\ HoldMap(K) /\ DOMAIN K = DOMAIN H \cup {id}
         /\ \A s : Total(K, s) = Total(H, s) + PartOf(hold, s)
  <1>0. DOMAIN K = DOMAIN H \cup {id}
    OBVIOUS
  <1>1. HoldMap(K)
    <2>1. IsFiniteSet(DOMAIN K)
      BY <1>0, FS_AddElement DEF HoldMap
    <2>2. QED
      BY <1>0, <2>1 DEF HoldMap
  <1>2. ASSUME NEW s
        PROVE  Total(K, s) = Total(H, s) + PartOf(hold, s)
    <2>0. PICK f, g, D : f = Parts(H, s) /\ g = Parts(K, s) /\ D = DOMAIN H
      OBVIOUS
    <2>1. \A i \in D : f[i] \in Int /\ g[i] = f[i]
      BY <2>0, TotalType DEF Parts
    <2>2. id \notin D /\ g[id] = PartOf(hold, s) /\ g[id] \in Int
      BY <2>0, <1>0, <1>1, TotalType DEF Parts
    <2>3. IsFiniteSet(D)
      BY <2>0 DEF HoldMap
    <2>4. SumFunctionOnSet(g, D \cup {id}) = SumFunctionOnSet(f, D) + g[id]
      BY <2>1, <2>2, <2>3, SumAdd
    <2>5. QED
      BY <2>0, <2>2, <2>4, <1>0 DEF Total
  <1>3. QED
    BY <1>0, <1>1, <1>2

(* Closing a hold takes what it reserved off its subject's total.          *)
LEMMA TotalClosed ==
  ASSUME NEW H, HoldMap(H), NEW id \in DOMAIN H, NEW K,
         K = [i \in DOMAIN H \ {id} |-> H[i]]
  PROVE  /\ HoldMap(K) /\ DOMAIN K = DOMAIN H \ {id}
         /\ \A s : Total(K, s) = Total(H, s) - PartOf(H[id], s)
  <1>0. DOMAIN K = DOMAIN H \ {id}
    OBVIOUS
  <1>1. HoldMap(K)
    <2>1. IsFiniteSet(DOMAIN K)
      BY <1>0, FS_RemoveElement DEF HoldMap
    <2>2. QED
      BY <1>0, <2>1 DEF HoldMap
  <1>2. ASSUME NEW s
        PROVE  Total(K, s) = Total(H, s) - PartOf(H[id], s)
    <2>0. PICK f, g, D, E : /\ f = Parts(H, s) /\ g = Parts(K, s)
                            /\ D = DOMAIN H /\ E = DOMAIN K
      OBVIOUS
    <2>1. /\ \A i \in D : f[i] \in Int
          /\ \A i \in E : g[i] = f[i]
      BY <2>0, <1>0, TotalType DEF Parts
    <2>2. id \in D /\ E = D \ {id} /\ IsFiniteSet(D) /\ IsFiniteSet(E)
      BY <2>0, <1>0, <1>1 DEF HoldMap
    <2>3. SumFunctionOnSet(f, D) = f[id] + SumFunctionOnSet(f, D \ {id})
      BY <2>1, <2>2, SumRemove
    <2>4. SumFunctionOnSet(g, E) = SumFunctionOnSet(f, E) /\ SumFunctionOnSet(g, E) \in Int
      <3>1. \A i \in E : g[i] \in Int
        BY <2>1, <2>2
      <3>2. QED
        BY <2>1, <2>2, <3>1, SumSame, SumType
    <2>5. f[id] = PartOf(H[id], s)
      BY <2>0 DEF Parts
    <2>6. f[id] \in Int
      BY <2>1, <2>2
    <2>7. QED
      BY <2>0, <2>2, <2>3, <2>4, <2>5, <2>6 DEF Total
  <1>3. QED
    BY <1>0, <1>1, <1>2

-----------------------------------------------------------------------------
(* The ledger *)

(* The ledger's books: what a subject holds is the sum of its open holds,  *)
(* and, while its credits fit an i64, they are its balance, holds and      *)
(* charges.                                                                *)
LedgerType ==
    /\ balance \in [Subject -> Int]
    /\ HoldMap(holds)
    /\ granted \subseteq Subject
    /\ credited \in [Subject -> Nat]
    /\ held \in [Subject -> Int]
    /\ spent \in [Subject -> Nat]

Books(s) ==
    /\ held[s] = Total(holds, s)
    /\ credited[s] <= MaxI64 =>
          balance[s] >= 0 /\ balance[s] + held[s] + spent[s] = credited[s]

LedgerInv == LedgerType /\ \A s \in Subject : Books(s)

(* An empty ledger is in order.                                            *)
LEMMA LedgerStart == LedgerInit => LedgerInv
  <1> SUFFICES ASSUME LedgerInit PROVE LedgerInv
    OBVIOUS
  <1>1. HoldMap(holds) /\ DOMAIN holds = {}
    BY FS_EmptySet DEF LedgerInit, HoldMap
  <1>2. ASSUME NEW s \in Subject PROVE Total(holds, s) = 0
    BY <1>1, FS_EmptySet, SumUnfold DEF Total
  <1>3. QED
    BY <1>1, <1>2, MoneyAssumption DEF LedgerInit, LedgerInv, LedgerType, Books

(* The signup grant is credited once, to the balance.                      *)
LEMMA GrantsOnce ==
  ASSUME LedgerInv, NEW s \in Subject, EnsureSignupGrant(s)
  PROVE  /\ LedgerInv'
         /\ UNCHANGED <<holds, held, spent>>
         /\ granted' = granted \cup {s}
         /\ credited' = [credited EXCEPT ![s] =
               @ + IF s \in granted THEN 0 ELSE SignupGrant]
  <1>1. /\ UNCHANGED <<holds, held, spent>>
        /\ granted' = granted \cup {s}
        /\ credited' = [credited EXCEPT ![s] = @ + IF s \in granted THEN 0 ELSE SignupGrant]
    BY DEF EnsureSignupGrant, LedgerInv, LedgerType
  <1>2. /\ balance' \in [Subject -> Int] /\ credited' \in [Subject -> Nat]
        /\ \A u \in Subject : u # s => balance'[u] = balance[u] /\ credited'[u] = credited[u]
        /\ credited[s] <= credited'[s]
        /\ credited'[s] <= MaxI64 /\ balance[s] <= credited[s] =>
              balance'[s] - balance[s] = credited'[s] - credited[s]
    BY MoneyAssumption DEF EnsureSignupGrant, LedgerInv, LedgerType, Wrapped
  <1>3. LedgerType'
    BY <1>1, <1>2 DEF LedgerInv, LedgerType
  <1>4. ASSUME NEW u \in Subject PROVE Books(u)'
    <2>1. Books(u) /\ held'[u] = held[u] /\ spent'[u] = spent[u] /\ holds' = holds
      BY <1>1 DEF LedgerInv
    <2>2. held[u] \in Nat /\ spent[u] \in Nat /\ balance[u] \in Int /\ credited[u] \in Nat
      BY <2>1, TotalType DEF LedgerInv, LedgerType, Books
    <2>3. balance'[u] \in Int /\ credited'[u] \in Nat
      BY <1>2
    <2>4. CASE u = s
      BY <1>2, <2>1, <2>2, <2>3, <2>4, MoneyAssumption DEF Books
    <2>5. CASE u # s
      BY <1>2, <2>1, <2>2, <2>3, <2>5 DEF Books
    <2>6. QED
      BY <2>4, <2>5
  <1>5. QED
    BY <1>1, <1>3, <1>4 DEF LedgerInv

(* A credit goes to the balance.                                           *)
LEMMA CreditsBalance ==
  ASSUME LedgerInv, NEW s \in Subject, NEW micro \in Nat, Grant(s, micro)
  PROVE  /\ LedgerInv'
         /\ UNCHANGED <<holds, granted, held, spent>>
         /\ credited' = [credited EXCEPT ![s] = @ + micro]
  <1>1. /\ UNCHANGED <<holds, granted, held, spent>>
        /\ credited' = [credited EXCEPT ![s] = @ + micro]
    BY DEF Grant
  <1>2. /\ balance' \in [Subject -> Int] /\ credited' \in [Subject -> Nat]
        /\ \A u \in Subject : u # s => balance'[u] = balance[u] /\ credited'[u] = credited[u]
        /\ credited[s] <= credited'[s]
        /\ credited'[s] <= MaxI64 /\ balance[s] <= credited[s] =>
              balance'[s] - balance[s] = credited'[s] - credited[s]
    BY MoneyAssumption DEF Grant, LedgerInv, LedgerType, Saturated
  <1>3. LedgerType'
    BY <1>1, <1>2 DEF LedgerInv, LedgerType
  <1>4. ASSUME NEW u \in Subject PROVE Books(u)'
    <2>1. Books(u) /\ held'[u] = held[u] /\ spent'[u] = spent[u] /\ holds' = holds
      BY <1>1 DEF LedgerInv
    <2>2. held[u] \in Nat /\ spent[u] \in Nat /\ balance[u] \in Int /\ credited[u] \in Nat
      BY <2>1, TotalType DEF LedgerInv, LedgerType, Books
    <2>3. balance'[u] \in Int /\ credited'[u] \in Nat
      BY <1>2
    <2>4. CASE u = s
      BY <1>2, <2>1, <2>2, <2>3, <2>4, MoneyAssumption DEF Books
    <2>5. CASE u # s
      BY <1>2, <2>1, <2>2, <2>3, <2>5 DEF Books
    <2>6. QED
      BY <2>4, <2>5
  <1>5. QED
    BY <1>1, <1>3, <1>4 DEF LedgerInv

(* A reservation moves its price from the balance to a new hold.           *)
LEMMA ReservesBalance ==
  ASSUME LedgerInv, NEW s \in Subject, NEW id \in Nat, NEW micro \in 1..MaxI64,
         Reserve(s, id, micro)
  PROVE  /\ LedgerInv'
         /\ id \notin DOMAIN holds /\ DOMAIN holds' = DOMAIN holds \cup {id}
         /\ holds'[id] = [subject |-> s, reserved |-> micro]
         /\ \A i \in DOMAIN holds : holds'[i] = holds[i]
         /\ UNCHANGED <<granted, credited, spent>>
         /\ \A u \in Subject : balance'[u] + held'[u] = balance[u] + held[u]
  <1>0. PICK hold : hold = [subject |-> s, reserved |-> micro]
    OBVIOUS
  <1>1. /\ id \notin DOMAIN holds /\ balance[s] >= micro
        /\ holds' = [i \in DOMAIN holds \cup {id} |-> IF i = id THEN hold ELSE holds[i]]
        /\ UNCHANGED <<granted, credited, spent>>
    BY <1>0 DEF Reserve, CanReserve
  <1>2. hold \in Hold /\ \A u : PartOf(hold, u) = IF s = u THEN micro ELSE 0
    BY <1>0 DEF Hold, PartOf
  <1>3. HoldMap(holds) /\ micro \in Nat
    BY MoneyAssumption DEF LedgerInv, LedgerType
  <1>4. PICK H, K : H = holds /\ K = holds'
    OBVIOUS
  <1>5. /\ HoldMap(K) /\ DOMAIN K = DOMAIN H \cup {id}
        /\ \A u : Total(K, u) = Total(H, u) + PartOf(hold, u)
    BY <1>1, <1>2, <1>3, <1>4, TotalOpened
  <1>6. /\ balance' \in [Subject -> Int] /\ held' \in [Subject -> Int]
        /\ \A u \in Subject : /\ balance'[u] = balance[u] - IF s = u THEN micro ELSE 0
                              /\ held'[u] = held[u] + IF s = u THEN micro ELSE 0
    BY <1>3 DEF Reserve, LedgerInv, LedgerType
  <1>7. LedgerType'
    BY <1>1, <1>4, <1>5, <1>6 DEF LedgerInv, LedgerType
  <1>8. ASSUME NEW u \in Subject
        PROVE Books(u)' /\ balance'[u] + held'[u] = balance[u] + held[u]
    <2>1. /\ Books(u) /\ spent'[u] = spent[u] /\ credited'[u] = credited[u]
          /\ Total(holds', u) = Total(holds, u) + IF s = u THEN micro ELSE 0
      BY <1>1, <1>2, <1>4, <1>5 DEF LedgerInv
    <2>2. held[u] \in Nat /\ spent[u] \in Nat /\ balance[u] \in Int /\ credited[u] \in Nat
      BY <2>1, TotalType DEF LedgerInv, LedgerType, Books
    <2>3. CASE u = s
      BY <1>1, <1>3, <1>6, <2>1, <2>2, <2>3, MoneyAssumption DEF Books
    <2>4. CASE u # s
      BY <1>6, <2>1, <2>2, <2>4 DEF Books
    <2>5. QED
      BY <2>3, <2>4
  <1>9. QED
    BY <1>0, <1>1, <1>4, <1>5, <1>7, <1>8 DEF LedgerInv

(* Settling a hold charges it what was used and refunds the rest; without  *)
(* that hold nothing changes.                                              *)
LEMMA SettlesHold ==
  ASSUME LedgerInv, NEW id, NEW actual \in Nat, Settle(id, actual)
  PROVE  /\ LedgerInv'
         /\ DOMAIN holds' = DOMAIN holds \ {id}
         /\ \A i \in DOMAIN holds' : holds'[i] = holds[i]
         /\ UNCHANGED <<granted, credited>>
         /\ \A u \in Subject : credited[u] <= MaxI64 =>
               balance'[u] + held'[u] + spent'[u] = balance[u] + held[u] + spent[u]
         /\ \A u \in Subject :
               spent'[u] = spent[u] +
                  IF id \in DOMAIN holds /\ holds[id].subject = u
                    THEN IF actual < holds[id].reserved THEN actual ELSE holds[id].reserved
                    ELSE 0
  <1>1. CASE id \notin DOMAIN holds
    <2>1. UNCHANGED money
      BY <1>1 DEF Settle
    <2>2. LedgerInv'
      BY <2>1 DEF money, LedgerInv, LedgerType, Books, Total, Parts, HoldMap
    <2>3. spent \in [Subject -> Nat]
      BY DEF LedgerInv, LedgerType
    <2>4. QED
      BY <1>1, <2>1, <2>2, <2>3 DEF money
  <1>2. CASE id \in DOMAIN holds
    <2>0. PICK s, amount, refund :
             /\ s = holds[id].subject /\ amount = holds[id].reserved
             /\ refund = IF actual < amount THEN amount - actual ELSE 0
      OBVIOUS
    <2>1. /\ s \in Subject /\ amount \in Nat /\ refund \in 0..amount
          /\ \A u : PartOf(holds[id], u) = IF s = u THEN amount ELSE 0
          /\ amount - refund = IF actual < amount THEN actual ELSE amount
      BY <1>2, <2>0, MoneyAssumption DEF LedgerInv, LedgerType, HoldMap, Hold, PartOf
    <2>2. /\ holds' = [i \in DOMAIN holds \ {id} |-> holds[i]]
          /\ balance' = IF refund > 0 THEN [balance EXCEPT ![s] = Wrapped(@ + refund)]
                                      ELSE balance
          /\ held' = [held EXCEPT ![s] = @ - amount]
          /\ spent' = [spent EXCEPT ![s] = @ + (amount - refund)]
          /\ UNCHANGED <<granted, credited>>
      BY <1>2, <2>0 DEF Settle
    <2>3. PICK H, K : H = holds /\ K = holds'
      OBVIOUS
    <2>4. HoldMap(H)
      BY <2>3 DEF LedgerInv, LedgerType
    <2>5. /\ HoldMap(K) /\ DOMAIN K = DOMAIN H \ {id}
          /\ \A u : Total(K, u) = Total(H, u) - PartOf(H[id], u)
      BY <1>2, <2>2, <2>3, <2>4, TotalClosed
    <2>6. /\ balance' \in [Subject -> Int] /\ held' \in [Subject -> Int]
          /\ spent' \in [Subject -> Nat]
          /\ \A u \in Subject : u # s =>
                balance'[u] = balance[u] /\ held'[u] = held[u] /\ spent'[u] = spent[u]
          /\ held'[s] = held[s] - amount
          /\ spent'[s] = spent[s] + (amount - refund)
          /\ balance[s] + refund <= MaxI64 => balance'[s] = balance[s] + refund
      BY <2>1, <2>2, MoneyAssumption DEF LedgerInv, LedgerType, Wrapped
    <2>7. LedgerType'
      BY <2>2, <2>3, <2>5, <2>6 DEF LedgerInv, LedgerType
    <2>8. ASSUME NEW u \in Subject
          PROVE  /\ Books(u)'
                 /\ credited[u] <= MaxI64 =>
                      balance'[u] + held'[u] + spent'[u] = balance[u] + held[u] + spent[u]
                 /\ spent'[u] = spent[u] + IF s = u THEN amount - refund ELSE 0
      <3>1. /\ Books(u) /\ credited'[u] = credited[u]
            /\ Total(holds', u) = Total(holds, u) - IF s = u THEN amount ELSE 0
        BY <2>1, <2>2, <2>3, <2>5 DEF LedgerInv
      <3>2. /\ held[u] \in Nat /\ spent[u] \in Nat /\ balance[u] \in Int
            /\ credited[u] \in Nat /\ Total(holds', u) \in Nat
        BY <2>3, <2>5, <3>1, TotalType DEF LedgerInv, LedgerType, Books
      <3>3. CASE u = s
        <4>1. held[u] >= amount
          BY <3>1, <3>2, <3>3, <2>1 DEF Books
        <4>2. credited[u] <= MaxI64 => balance'[u] = balance[u] + refund /\ balance[u] >= 0
          BY <2>1, <2>6, <3>1, <3>2, <3>3, <4>1, MoneyAssumption DEF Books
        <4>3. QED
          BY <2>1, <2>6, <3>1, <3>2, <3>3, <4>1, <4>2, MoneyAssumption DEF Books
      <3>4. CASE u # s
        BY <2>6, <3>1, <3>2, <3>4 DEF Books
      <3>5. QED
        BY <3>3, <3>4
    <2>9. LedgerInv'
      BY <2>7, <2>8 DEF LedgerInv
    <2>10. \A i \in DOMAIN holds' : holds'[i] = holds[i]
      BY <2>2
    <2>11. DOMAIN holds' = DOMAIN holds \ {id}
      BY <2>2
    <2>12. QED
      BY <1>2, <2>0, <2>1, <2>2, <2>8, <2>9, <2>10, <2>11
  <1>3. QED
    BY <1>1, <1>2

(* A step that leaves the ledger alone leaves it in order.                 *)
LEMMA LedgerSame ==
  ASSUME LedgerInv, UNCHANGED money
  PROVE  LedgerInv'
  BY DEF money, LedgerInv, LedgerType, Books, Total, Parts, HoldMap

-----------------------------------------------------------------------------
(* The requests, one by one *)

(* What is true of a request's locals r at stage st of its handler: which  *)
(* handler it is in, that nothing was taken from it so far, that a metered *)
(* rung means no key was found, and that only metered calls reserve.       *)
RequestOK(st, r) ==
    /\ st = "idle" => r.what = "none"
    /\ st \in {"route", "ladder", "reserve", "invoke", "overflow"} => r.what = "call"
    /\ st = "credit" => r.what = "topup"
    /\ st = "signup" => r.what # "none"
    /\ r.what = "topup" => r.micro \in Amounts
    /\ r.paid = 0
    /\ r.via \notin {"overflow", "relay", "routed"}
    /\ r.via = "platform" => ~r.key
    /\ ~r.routed /\ r.what = "call" => (r.key <=> Catalog[r.endpoint].provider \in r.keys)
    /\ st = "reserve" \/ (st = "signup" /\ r.what = "call") => Meter(r.endpoint, r.via) > 0

RequestsInv ==
    /\ stage \in [Caller -> Stages]
    /\ req \in [Caller -> Requests]
    /\ \A t \in Caller : RequestOK(stage[t], req[t])

(* Task t goes on to stage st with locals r. *)
Moves(t, st, r) ==
    /\ stage' = [stage EXCEPT ![t] = st] /\ st \in Stages
    /\ req' = [req EXCEPT ![t] = r] /\ r \in Requests
    /\ RequestOK(st, r)

(* An idle task has no request.                                            *)
LEMMA NoCallIsIdle ==
  /\ NoCall \in Requests /\ RequestOK("idle", NoCall)
  /\ NoCall.what = "none" /\ NoCall.micro = 0
  <1>1. (CHOOSE s \in Subject : TRUE) \in Subject /\ (CHOOSE e \in Endpoint : TRUE) \in Endpoint
    BY CatalogAssumption
  <1>2. NoCall \in Requests
    BY <1>1 DEF NoCall, Requests, Vias
  <1>3. /\ NoCall.what = "none" /\ NoCall.micro = 0
        /\ NoCall.paid = 0 /\ NoCall.via = "none"
    BY DEF NoCall
  <1>4. QED
    BY <1>2, <1>3 DEF RequestOK

(* What a move leaves of every task.                                       *)
LEMMA MovesOne ==
  ASSUME RequestsInv, NEW t \in Caller, NEW st, NEW r, Moves(t, st, r)
  PROVE  /\ RequestsInv'
         /\ stage'[t] = st /\ req'[t] = r
         /\ \A u \in Caller \ {t} : stage'[u] = stage[u] /\ req'[u] = req[u]
  BY DEF RequestsInv, Moves

(* A price is a natural number and an unmetered rung has none.             *)
LEMMA MeterType ==
  ASSUME NEW e \in Endpoint, NEW via
  PROVE  /\ Meter(e, via) \in Nat
         /\ Meter(e, via) > 0 => /\ via \in Metered
                                 /\ Catalog[e].cost = Meter(e, via)
                                 /\ Meter(e, via) \in 1..MaxI64
  BY CatalogAssumption, MoneyAssumption DEF Meter, Entries

(* The end of a handler is a move to idle.                                 *)
LEMMA DoneMoves ==
  ASSUME NEW t \in Caller, Done(t)
  PROVE  Moves(t, "idle", NoCall)
  BY NoCallIsIdle DEF Done, Moves, Stages

(* A call starts with the keys its subject has then.                       *)
LEMMA StartCallMoves ==
  ASSUME NEW t \in Caller, NEW s \in Subject, NEW e \in Endpoint, StartCall(t, s, e),
         own \subseteq Provider
  PROVE  \E r : Moves(t, "route", r) /\ r.what = "call"
  <1>1. PICK r : r = [NoCall EXCEPT !.what = "call", !.subject = s, !.endpoint = e,
                        !.key = Catalog[e].provider \in own, !.keys = own]
    OBVIOUS
  <1>2. NoCall \in Requests
    BY NoCallIsIdle
  <1>3. /\ r \in Requests /\ r.what = "call" /\ r.paid = 0 /\ r.via = "none"
        /\ r.endpoint = e /\ r.keys = own /\ r.key = (Catalog[e].provider \in own)
    <2>1. /\ NoCall.via = "none" /\ NoCall.paid = 0 /\ NoCall.routed = FALSE
      BY DEF NoCall
    <2>0. PICK k : k = (Catalog[e].provider \in own)
      OBVIOUS
    <2>9. k \in BOOLEAN
      BY <2>0, SMT
    <2>2. k = (Catalog[e].provider \in own)
      BY <2>0
    <2>3. r = [NoCall EXCEPT !.what = "call", !.subject = s, !.endpoint = e,
                        !.key = k, !.keys = own]
      BY <1>1, <2>2
    <2>4. r \in Requests
      BY <1>2, <2>9, <2>3 DEF Requests
    <2>5. /\ r.what = "call" /\ r.paid = 0 /\ r.via = "none"
          /\ r.endpoint = e /\ r.keys = own /\ r.key = k
      BY <1>2, <2>1, <2>9, <2>3 DEF Requests
    <2>6. QED
      BY <2>2, <2>4, <2>5
  <1>4. QED
    BY <1>1, <1>3 DEF Moves, StartCall, Stages, RequestOK

(* A routed call goes on with its child.                                   *)
LEMMA RouteMoves ==
  ASSUME RequestsInv, NEW t \in Caller, RouteToChild(t)
  PROVE  /\ stage[t] = "route"
         /\ \E st \in {"route", "ladder"} : \E r : Moves(t, st, r) /\ r.what = "call"
  <1>1. /\ stage[t] = "route" /\ req[t] \in Requests /\ RequestOK("route", req[t])
        /\ req[t].what = "call"
    BY DEF RouteToChild, RequestsInv, RequestOK
  <1>2. PICK child : child = Catalog[req[t].endpoint].child
    OBVIOUS
  <1>3. child \in Endpoint \cup {NoChild}
    BY <1>1, <1>2, CatalogAssumption DEF Entries, Requests
  <1>4. CASE child = NoChild
    <2>1. Moves(t, "ladder", req[t])
      BY <1>1, <1>2, <1>4 DEF RouteToChild, GoOn, Moves, Stages, RequestOK
    <2>2. QED
      BY <1>1, <2>1
  <1>5. CASE child # NoChild
    <2>1. PICK r : r = [req[t] EXCEPT !.endpoint = child, !.routed = TRUE]
      OBVIOUS
    <2>2. /\ r \in Requests /\ r.routed = TRUE /\ r.what = "call" /\ r.paid = req[t].paid
          /\ r.via = req[t].via /\ r.key = req[t].key
      BY <1>1, <1>3, <1>5, <2>1 DEF Requests
    <2>3. RequestOK("route", r)
      BY <1>1, <2>2 DEF RequestOK
    <2>4. Moves(t, "route", r)
      BY <1>2, <1>5, <2>1, <2>2, <2>3 DEF RouteToChild, GoOn, Moves, Stages
    <2>5. QED
      BY <1>1, <2>2, <2>4
  <1>6. QED
    BY <1>4, <1>5

(* An attempt takes a new id; it reserves first exactly when it is metered. *)
LEMMA LadderMoves ==
  ASSUME RequestsInv, calls \in Nat, NEW t \in Caller, Ladder(t)
  PROVE  /\ stage[t] = "ladder"
         /\ \/ Moves(t, "idle", NoCall) /\ calls' = calls
            \/ /\ calls' = calls + 1
               /\ \E st \in {"signup", "invoke"} : \E r :
                     /\ Moves(t, st, r) /\ r.what = "call" /\ r.id = calls
                     /\ st = "signup" <=> Meter(r.endpoint, r.via) > 0
  <1>1. /\ stage[t] = "ladder" /\ req[t] \in Requests /\ RequestOK("ladder", req[t])
        /\ req[t].what = "call"
    BY DEF Ladder, RequestsInv, RequestOK
  <1>2. PICK e, via : e = req[t].endpoint /\ via = Rung(e, Catalog[e].provider \in team, req[t].key)
    OBVIOUS
  <1>3. CASE via = "refused"
    <2>1. Done(t) /\ calls' = calls
      BY <1>2, <1>3 DEF Ladder, Respond
    <2>2. QED
      BY <1>1, <2>1, DoneMoves
  <1>4. CASE via # "refused"
    <2>1. via \in {"team_tool", "connection", "anonymous", "platform"}
      BY <1>2, <1>4 DEF Rung
    <2>2. via = "platform" => ~req[t].key
      BY <1>2 DEF Rung
    <2>3. PICK st, r : /\ st = IF Meter(e, via) > 0 THEN "signup" ELSE "invoke"
                       /\ r = [req[t] EXCEPT !.via = via, !.id = calls]
      OBVIOUS
    <2>4. /\ calls' = calls + 1
          /\ stage' = [stage EXCEPT ![t] = st] /\ req' = [req EXCEPT ![t] = r]
      BY <1>2, <1>4, <2>3 DEF Ladder, GoOn, NextId
    <2>5. /\ r \in Requests /\ r.what = "call" /\ r.id = calls /\ r.via = via
          /\ r.endpoint = e /\ r.key = req[t].key /\ r.keys = req[t].keys
          /\ r.routed = req[t].routed /\ r.paid = req[t].paid
      BY <1>1, <1>2, <2>1, <2>3 DEF Requests, Vias
    <2>6. RequestOK(st, r)
      BY <1>1, <1>2, <2>1, <2>2, <2>3, <2>5 DEF RequestOK
    <2>7. Moves(t, st, r)
      BY <2>3, <2>4, <2>5, <2>6 DEF Moves, Stages
    <2>8. st = "signup" <=> Meter(r.endpoint, r.via) > 0
      BY <2>3, <2>5
    <2>9. st \in {"signup", "invoke"}
      BY <2>3
    <2>10. QED
      BY <1>1, <2>4, <2>5, <2>7, <2>8, <2>9
  <1>5. QED
    BY <1>3, <1>4

(* A retry over a relay takes an id of its own and reserves like the first. *)
LEMMA OverflowMoves ==
  ASSUME RequestsInv, calls \in Nat, NEW t \in Caller, Overflow(t)
  PROVE  /\ stage[t] = "overflow"
         /\ \/ Moves(t, "idle", NoCall) /\ calls' = calls
            \/ /\ calls' = calls + 1
               /\ \E st \in {"signup", "invoke"} : \E r :
                     /\ Moves(t, st, r) /\ r.what = "call" /\ r.id = calls
                     /\ st = "signup" <=> Meter(r.endpoint, r.via) > 0
  <1>1. /\ stage[t] = "overflow" /\ req[t] \in Requests /\ RequestOK("overflow", req[t])
        /\ req[t].what = "call"
    BY DEF Overflow, RequestsInv, RequestOK
  <1>2. PICK e : e = req[t].endpoint
    OBVIOUS
  <1>3. CASE ~(req[t].via = "platform" /\ ~optOut /\ Catalog[e].provider \in relays)
    <2>1. Done(t) /\ calls' = calls
      BY <1>2, <1>3 DEF Overflow, Respond
    <2>2. QED
      BY <1>1, <2>1, DoneMoves
  <1>4. CASE req[t].via = "platform" /\ ~optOut /\ Catalog[e].provider \in relays
    <2>3. PICK st, r : /\ st = IF Meter(e, req[t].via) > 0 THEN "signup" ELSE "invoke"
                       /\ r = [req[t] EXCEPT !.relay = TRUE, !.id = calls]
      OBVIOUS
    <2>4. /\ calls' = calls + 1
          /\ stage' = [stage EXCEPT ![t] = st] /\ req' = [req EXCEPT ![t] = r]
      BY <1>2, <1>4, <2>3 DEF Overflow, GoOn, NextId
    <2>5. /\ r \in Requests /\ r.what = "call" /\ r.id = calls /\ r.via = req[t].via
          /\ r.endpoint = e /\ r.key = req[t].key /\ r.keys = req[t].keys
          /\ r.routed = req[t].routed /\ r.paid = req[t].paid
      BY <1>1, <1>2, <2>3 DEF Requests
    <2>6. RequestOK(st, r)
      BY <1>1, <1>2, <2>3, <2>5 DEF RequestOK
    <2>7. Moves(t, st, r)
      BY <2>3, <2>4, <2>5, <2>6 DEF Moves, Stages
    <2>8. st = "signup" <=> Meter(r.endpoint, r.via) > 0
      BY <2>3, <2>5
    <2>9. st \in {"signup", "invoke"}
      BY <2>3
    <2>10. QED
      BY <1>1, <2>4, <2>5, <2>7, <2>8, <2>9
  <1>5. QED
    BY <1>2, <1>3, <1>4

(* After the signup grant a call reserves and a top-up credits.            *)
LEMMA SignupMoves ==
  ASSUME RequestsInv, NEW t \in Caller, Signup(t)
  PROVE  /\ stage[t] = "signup" /\ req[t].what \in {"call", "topup"}
         /\ Moves(t, IF req[t].what = "call" THEN "reserve" ELSE "credit", req[t])
  <1>1. /\ stage[t] = "signup" /\ req[t] \in Requests /\ RequestOK("signup", req[t])
    BY DEF Signup, RequestsInv
  <1>2. req[t].what \in {"call", "topup"}
    BY <1>1 DEF RequestOK, Requests
  <1>3. CASE req[t].what = "call"
    <2>1. RequestOK("reserve", req[t])
      BY <1>1, <1>3 DEF RequestOK
    <2>2. QED
      BY <1>1, <1>3, <2>1 DEF Signup, GoOn, Moves, Stages
  <1>4. CASE req[t].what = "topup"
    <2>1. RequestOK("credit", req[t])
      BY <1>1, <1>4 DEF RequestOK
    <2>2. QED
      BY <1>1, <1>4, <2>1 DEF Signup, GoOn, Moves, Stages
  <1>5. QED
    BY <1>1, <1>2, <1>3, <1>4

(* A call that reserves waits for its upstream next, and is metered.       *)
LEMMA ReserveMoves ==
  ASSUME RequestsInv, NEW t \in Caller, ReserveCost(t)
  PROVE  LET cost == Catalog[req[t].endpoint].cost
         IN  /\ stage[t] = "reserve" /\ cost \in 1..MaxI64
             /\ Meter(req[t].endpoint, req[t].via) = cost
             /\ \/ Moves(t, "invoke", req[t]) /\ Reserve(req[t].subject, req[t].id, cost)
                \/ Moves(t, "idle", NoCall) /\ UNCHANGED money
  <1>1. /\ stage[t] = "reserve" /\ req[t] \in Requests /\ RequestOK("reserve", req[t])
    BY DEF ReserveCost, RequestsInv
  <1>2. PICK cost : cost = Catalog[req[t].endpoint].cost
    OBVIOUS
  <1>3. cost \in 1..MaxI64 /\ Meter(req[t].endpoint, req[t].via) = cost
    BY <1>1, <1>2, MeterType DEF RequestOK, Requests
  <1>4. RequestOK("invoke", req[t])
    BY <1>1 DEF RequestOK
  <1>5. \/ Reserve(req[t].subject, req[t].id, cost) /\ GoOn(t, "invoke", req[t])
        \/ UNCHANGED money /\ Done(t)
    BY <1>2 DEF ReserveCost, Respond
  <1>6. GoOn(t, "invoke", req[t]) => Moves(t, "invoke", req[t])
    BY <1>1, <1>4 DEF GoOn, Moves, Stages
  <1>7. QED
    BY <1>1, <1>2, <1>3, <1>5, <1>6, DoneMoves

(* Releasing a hold charges nobody.                                        *)
LEMMA ReleaseIsFree ==
  ASSUME LedgerInv, NEW id, Release(id)
  PROVE  /\ LedgerInv'
         /\ \A u \in Subject : spent'[u] = spent[u]
  <1>1. Settle(id, 0)
    BY DEF Release
  <1>2. LedgerInv /\ spent \in [Subject -> Nat]
    BY DEF LedgerInv, LedgerType
  <1>3. \A i \in DOMAIN holds : holds[i].reserved \in Nat
    BY MoneyAssumption DEF LedgerInv, LedgerType, HoldMap, Hold
  <1>4. /\ LedgerInv'
        /\ \A u \in Subject :
               spent'[u] = spent[u] +
                  IF id \in DOMAIN holds /\ holds[id].subject = u
                    THEN IF 0 < holds[id].reserved THEN 0 ELSE holds[id].reserved
                    ELSE 0
    BY <1>1, SettlesHold
  <1>5. ASSUME NEW u \in Subject PROVE spent'[u] = spent[u]
    <2>1. spent[u] \in Nat
      BY <1>2
    <2>2. id \in DOMAIN holds => holds[id].reserved \in Nat
      BY <1>3
    <2>3. spent'[u] = spent[u] +
                  IF id \in DOMAIN holds /\ holds[id].subject = u
                    THEN IF 0 < holds[id].reserved THEN 0 ELSE holds[id].reserved
                    ELSE 0
      BY <1>4
    <2>4. QED
      BY <2>1, <2>2, <2>3
  <1>6. QED
    BY <1>4, <1>5

(* A first attempt that was not served may retry over a relay, nothing     *)
(* having been taken for it.                                               *)
LEMMA NotServedMoves ==
  ASSUME RequestsInv, LedgerInv, NEW t \in Caller, NotServed(t)
  PROVE  /\ stage[t] = "invoke"
         /\ \/ Moves(t, "idle", NoCall)
            \/ \E r : Moves(t, "overflow", r) /\ r.what = "call"
         /\ \A u \in Subject : spent'[u] = spent[u]
  <1>1. /\ stage[t] = "invoke" /\ req[t] \in Requests /\ RequestOK("invoke", req[t])
        /\ req[t].what = "call" /\ req[t].subject \in Subject /\ req[t].paid = 0
    BY DEF NotServed, RequestsInv, RequestOK, Requests
  <1>2. \A u \in Subject : spent'[u] = spent[u]
    BY ReleaseIsFree DEF NotServed, money
  <1>3. CASE req[t].relay
    <2>1. Done(t)
      BY <1>3 DEF NotServed, Respond
    <2>2. QED
      BY <1>1, <1>2, <2>1, DoneMoves
  <1>4. CASE ~req[t].relay
    <2>1. PICK paid : paid = req[t].paid + spent'[req[t].subject] - spent[req[t].subject]
      OBVIOUS
    <2>2. spent[req[t].subject] \in Nat
      BY <1>1 DEF LedgerInv, LedgerType
    <2>3. paid = 0
      BY <1>1, <1>2, <2>1, <2>2
    <2>4. PICK r : r = [req[t] EXCEPT !.paid = paid]
      OBVIOUS
    <2>5. req' = [req EXCEPT ![t] = r] /\ stage' = [stage EXCEPT ![t] = "overflow"]
      <3>1. GoOn(t, "overflow", [req[t] EXCEPT
                   !.paid = @ + spent'[req[t].subject] - spent[req[t].subject]])
        BY <1>4 DEF NotServed
      <3>2. [req[t] EXCEPT !.paid = @ + spent'[req[t].subject] - spent[req[t].subject]] = r
        BY <2>1, <2>4
      <3>3. QED
        BY <3>1, <3>2 DEF GoOn
    <2>6. /\ r \in Requests /\ r.what = "call" /\ r.via = req[t].via
          /\ r.endpoint = req[t].endpoint /\ r.key = req[t].key /\ r.keys = req[t].keys
          /\ r.routed = req[t].routed /\ r.paid = 0
      BY <1>1, <2>3, <2>4 DEF Requests
    <2>7. RequestOK("overflow", r)
      BY <1>1, <2>6 DEF RequestOK
    <2>8. Moves(t, "overflow", r)
      BY <2>5, <2>6, <2>7 DEF Moves, Stages
    <2>9. QED
      BY <1>1, <1>2, <2>6, <2>8
  <1>5. QED
    BY <1>3, <1>4

(* The locals a top-up of m for s starts with.                             *)
TopupOf(s, m) == [NoCall EXCEPT !.what = "topup", !.subject = s, !.micro = m]

(* A top-up goes for the signup grant first.                               *)
LEMMA TopupMoves ==
  ASSUME NEW t \in Caller, NEW s \in Subject, NEW m \in Amounts, GoOn(t, "signup", TopupOf(s, m))
  PROVE  /\ Moves(t, "signup", TopupOf(s, m))
         /\ TopupOf(s, m).what = "topup"
         /\ TopupOf(s, m).subject = s /\ TopupOf(s, m).micro = m
  <1>0. PICK r : r = TopupOf(s, m)
    OBVIOUS
  <1>1. m \in Nat
    BY CatalogAssumption
  <1>2. /\ NoCall \in Requests /\ NoCall.paid = 0 /\ NoCall.via = "none"
    BY NoCallIsIdle DEF NoCall
  <1>3. /\ r \in Requests /\ r.what = "topup" /\ r.subject = s /\ r.micro = m
        /\ r.paid = 0 /\ r.via = "none"
    BY <1>0, <1>1, <1>2 DEF Requests, TopupOf
  <1>4. RequestOK("signup", r)
    BY <1>3 DEF RequestOK
  <1>5. Moves(t, "signup", r)
    BY <1>0, <1>3, <1>4 DEF GoOn, Moves, Stages
  <1>6. QED
    BY <1>0, <1>3, <1>5

-----------------------------------------------------------------------------
(* Call ids and the holds made for them *)

(* A call that reserves, is about to, or waits for its upstream uses its id. *)
Numbered(t) == \/ stage[t] \in {"reserve", "invoke"}
               \/ stage[t] = "signup" /\ req[t].what = "call"

HoldOf(t) == [subject |-> req[t].subject, reserved |-> Catalog[req[t].endpoint].cost]

(* The ids taken from the counter so far.                                  *)
Ids == 0..(calls - 1)

(* Ids are used by one call each, never again after it was dropped; every  *)
(* metered call that waits has its hold, and every other hold is leaked.   *)
NumbersInv ==
    /\ calls \in Nat
    /\ leaked \subseteq Ids
    /\ DOMAIN holds \subseteq Ids
    /\ \A t \in Caller : Numbered(t) =>
         /\ req[t].id \in Ids \ leaked
         /\ \A u \in Caller \ {t} : Numbered(u) => req[u].id # req[t].id
    /\ \A t \in Caller : Metering(t) =>
         /\ req[t].id \in DOMAIN holds
         /\ holds[req[t].id] = HoldOf(t)
    /\ \A id \in DOMAIN holds :
         id \in leaked \/ \E t \in Caller : Metering(t) /\ req[t].id = id

(* The counter only grows.                                                 *)
LEMMA IdsGrow ==
  ASSUME calls \in Nat, calls' \in {calls, calls + 1}
  PROVE  /\ calls' \in Nat /\ Ids \subseteq Ids'
         /\ calls \notin Ids
         /\ calls' = calls + 1 => calls \in Ids'
  <1>1. PICK n \in Nat : n = calls
    OBVIOUS
  <1>2. PICK m \in Nat : m = calls'
    OBVIOUS
  <1>3. m \in {n, n + 1} /\ (calls' = calls + 1 => m = n + 1)
    BY <1>1, <1>2
  <1>4. Ids = 0..(n - 1) /\ Ids' = 0..(m - 1)
    BY <1>1, <1>2 DEF Ids
  <1>5. 0..(n - 1) \subseteq 0..(m - 1) /\ n \notin 0..(n - 1)
    BY <1>3
  <1>6. m = n + 1 => n \in 0..(m - 1)
    OBVIOUS
  <1>7. QED
    BY <1>1, <1>2, <1>3, <1>4, <1>5, <1>6

(* A task's number, hold and metering depend on its own state only.        *)
LEMMA NumbersAreLocal ==
  ASSUME NEW t, stage'[t] = stage[t], req'[t] = req[t]
  PROVE  /\ Numbered(t)' <=> Numbered(t)
         /\ Metering(t)' <=> Metering(t)
         /\ HoldOf(t)' = HoldOf(t)
  BY DEF Numbered, Metering, Meter, HoldOf

(* Who meters waits with its number.                                       *)
LEMMA MeteringIsNumbered ==
  /\ \A t : Metering(t) => Numbered(t)
  /\ \A t : Metering(t)' => Numbered(t)'
  BY DEF Metering, Numbered

(* Numbers stand while nothing they speak of changes but the counter.      *)
LEMMA NumbersSame ==
  ASSUME NumbersInv, UNCHANGED <<stage, req, leaked, holds>>, calls' \in {calls, calls + 1}
  PROVE  NumbersInv'
  <1>1. calls' \in Nat /\ Ids \subseteq Ids'
    BY IdsGrow DEF NumbersInv
  <1>2. \A t \in Caller : /\ Numbered(t)' <=> Numbered(t)
                          /\ Metering(t)' <=> Metering(t)
                          /\ HoldOf(t)' = HoldOf(t)
    BY NumbersAreLocal
  <1>3. QED
    BY <1>1, <1>2 DEF NumbersInv

(* A move of t out of its numbered stages, which closes the hold it had,   *)
(* if any, and leaves all others.                                          *)
LEMMA NumberDropped ==
  ASSUME NumbersInv, RequestsInv, NEW t \in Caller, NEW st, NEW r, Moves(t, st, r),
         calls' \in {calls, calls + 1}, leaked' = leaked, ~Numbered(t)',
         DOMAIN holds' = DOMAIN holds \ {i \in {req[t].id} : Metering(t)},
         \A i \in DOMAIN holds' : holds'[i] = holds[i]
  PROVE  NumbersInv'
  <1>1. calls' \in Nat /\ Ids \subseteq Ids'
    BY IdsGrow DEF NumbersInv
  <1>2. \A u \in Caller \ {t} : /\ req'[u] = req[u]
                                /\ Numbered(u)' <=> Numbered(u)
                                /\ Metering(u)' <=> Metering(u)
                                /\ HoldOf(u)' = HoldOf(u)
    BY MovesOne, NumbersAreLocal
  <1>3. ~Metering(t)' /\ ~Numbered(t)'
    BY MeteringIsNumbered
  <1>4. \A u \in Caller : Numbered(u)' =>
             /\ req'[u].id \in Ids' \ leaked'
             /\ \A v \in Caller \ {u} : Numbered(v)' => req'[v].id # req'[u].id
    BY <1>1, <1>2, <1>3 DEF NumbersInv
  <1>5. ASSUME NEW u \in Caller, Metering(u)'
        PROVE  req'[u].id \in DOMAIN holds' /\ holds'[req'[u].id] = HoldOf(u)'
    <2>1. u # t /\ Metering(u) /\ req'[u] = req[u] /\ HoldOf(u)' = HoldOf(u)
      BY <1>2, <1>3, <1>5
    <2>2. /\ req[u].id \in DOMAIN holds /\ holds[req[u].id] = HoldOf(u)
          /\ Metering(t) => req[u].id # req[t].id
      BY <2>1, MeteringIsNumbered DEF NumbersInv
    <2>3. QED
      BY <2>1, <2>2
  <1>6. ASSUME NEW id \in DOMAIN holds'
        PROVE  id \in leaked' \/ \E u \in Caller : Metering(u)' /\ req'[u].id = id
    <2>1. id \in DOMAIN holds /\ ~(Metering(t) /\ req[t].id = id)
      BY <1>6
    <2>2. id \in leaked \/ \E u \in Caller : Metering(u) /\ req[u].id = id
      BY <2>1 DEF NumbersInv
    <2>3. QED
      BY <1>2, <2>1, <2>2
  <1>7. leaked' \subseteq Ids' /\ DOMAIN holds' \subseteq Ids'
    BY <1>1 DEF NumbersInv
  <1>8. QED
    BY <1>1, <1>4, <1>5, <1>6, <1>7 DEF NumbersInv

(* A move of t to an attempt with a new id, which holds nothing yet.       *)
LEMMA NumberTaken ==
  ASSUME NumbersInv, RequestsInv, NEW t \in Caller, NEW st, NEW r, Moves(t, st, r),
         calls' = calls + 1, UNCHANGED <<leaked, holds>>, r.id = calls,
         ~Metering(t), ~Metering(t)'
  PROVE  NumbersInv'
  <1>1. /\ calls' \in Nat /\ Ids \subseteq Ids' /\ calls \notin Ids /\ calls \in Ids'
    BY IdsGrow DEF NumbersInv
  <1>2. \A u \in Caller \ {t} : /\ req'[u] = req[u]
                                /\ Numbered(u)' <=> Numbered(u)
                                /\ Metering(u)' <=> Metering(u)
                                /\ HoldOf(u)' = HoldOf(u)
    BY MovesOne, NumbersAreLocal
  <1>3. req'[t].id = calls
    BY MovesOne
  <1>4. \A u \in Caller \ {t} : Numbered(u) => req[u].id # calls
    BY <1>1 DEF NumbersInv
  <1>5. ASSUME NEW u \in Caller, Numbered(u)'
        PROVE  /\ req'[u].id \in Ids' \ leaked'
               /\ \A v \in Caller \ {u} : Numbered(v)' => req'[v].id # req'[u].id
    <2>1. CASE u = t
      <3>1. calls \notin leaked
        BY <1>1 DEF NumbersInv
      <3>2. QED
        BY <1>1, <1>2, <1>3, <1>4, <2>1, <3>1
    <2>2. CASE u # t
      <3>1. /\ req[u].id \in Ids \ leaked /\ req'[u] = req[u]
            /\ \A v \in Caller \ {u} : Numbered(v) => req[v].id # req[u].id
        BY <1>2, <1>5, <2>2 DEF NumbersInv
      <3>2. QED
        BY <1>1, <1>2, <1>3, <3>1
    <2>3. QED
      BY <2>1, <2>2
  <1>6. \A u \in Caller : Metering(u)' =>
             req'[u].id \in DOMAIN holds' /\ holds'[req'[u].id] = HoldOf(u)'
    BY <1>2 DEF NumbersInv
  <1>7. \A id \in DOMAIN holds' :
             id \in leaked' \/ \E u \in Caller : Metering(u)' /\ req'[u].id = id
    BY <1>2 DEF NumbersInv
  <1>8. leaked' \subseteq Ids' /\ DOMAIN holds' \subseteq Ids'
    BY <1>1 DEF NumbersInv
  <1>9. QED
    BY <1>1, <1>5, <1>6, <1>7, <1>8 DEF NumbersInv

(* A call that goes on to reserve keeps its id.                            *)
LEMMA NumberKept ==
  ASSUME NumbersInv, RequestsInv, NEW t \in Caller, NEW st, Moves(t, st, req[t]),
         UNCHANGED <<calls, leaked, holds>>, Numbered(t), ~Metering(t), ~Metering(t)'
  PROVE  NumbersInv'
  <1>1. \A u \in Caller : u # t => /\ Numbered(u)' <=> Numbered(u)
                                   /\ Metering(u)' <=> Metering(u)
                                   /\ HoldOf(u)' = HoldOf(u)
    BY MovesOne, NumbersAreLocal
  <1>2. \A u \in Caller : req'[u] = req[u]
    BY MovesOne
  <1>3. calls' = calls /\ Ids' = Ids /\ leaked' = leaked /\ holds' = holds
    BY DEF Ids
  <1>4. QED
    BY <1>1, <1>2, <1>3 DEF NumbersInv

(* A reservation is the hold of the call that waits from then on.          *)
LEMMA NumberReserved ==
  ASSUME NumbersInv, RequestsInv, NEW t \in Caller, Moves(t, "invoke", req[t]),
         UNCHANGED <<calls, leaked>>, Numbered(t), ~Metering(t), Metering(t)',
         req[t].id \notin DOMAIN holds, DOMAIN holds' = DOMAIN holds \cup {req[t].id},
         holds'[req[t].id] = HoldOf(t), \A i \in DOMAIN holds : holds'[i] = holds[i]
  PROVE  NumbersInv'
  <1>1. \A u \in Caller : u # t => /\ Numbered(u)' <=> Numbered(u)
                                   /\ Metering(u)' <=> Metering(u)
                                   /\ HoldOf(u)' = HoldOf(u)
    BY MovesOne, NumbersAreLocal
  <1>2. (\A u \in Caller : req'[u] = req[u]) /\ HoldOf(t)' = HoldOf(t)
    BY MovesOne DEF HoldOf
  <1>3. calls' = calls /\ Ids' = Ids /\ leaked' = leaked
    BY DEF Ids
  <1>4. DOMAIN holds' \subseteq Ids'
    BY <1>3 DEF NumbersInv
  <1>5. \A u \in Caller : Metering(u)' =>
             req'[u].id \in DOMAIN holds' /\ holds'[req'[u].id] = HoldOf(u)'
    BY <1>1, <1>2 DEF NumbersInv
  <1>6. ASSUME NEW id \in DOMAIN holds'
        PROVE  id \in leaked' \/ \E u \in Caller : Metering(u)' /\ req'[u].id = id
    BY <1>1, <1>2, <1>3 DEF NumbersInv
  <1>7. QED
    BY <1>1, <1>2, <1>3, <1>4, <1>5, <1>6 DEF NumbersInv

(* A dropped call's id is leaked, and with it the hold it had.             *)
LEMMA NumberLeaked ==
  ASSUME NumbersInv, RequestsInv, NEW t \in Caller, Moves(t, "idle", NoCall),
         UNCHANGED <<calls, holds>>, Numbered(t), leaked' = leaked \cup {req[t].id}
  PROVE  NumbersInv'
  <1>1. \A u \in Caller \ {t} : /\ req'[u] = req[u]
                                /\ Numbered(u)' <=> Numbered(u)
                                /\ Metering(u)' <=> Metering(u)
                                /\ HoldOf(u)' = HoldOf(u)
    BY MovesOne, NumbersAreLocal
  <1>2. ~Metering(t)' /\ ~Numbered(t)'
    BY MovesOne DEF Metering, Numbered
  <1>3. calls' = calls /\ Ids' = Ids /\ holds' = holds
    BY DEF Ids
  <1>4. req[t].id \in Ids /\ \A u \in Caller \ {t} : Numbered(u) => req[u].id # req[t].id
    BY DEF NumbersInv
  <1>5. \A u \in Caller : Numbered(u)' =>
             /\ req'[u].id \in Ids' \ leaked'
             /\ \A v \in Caller \ {u} : Numbered(v)' => req'[v].id # req'[u].id
    BY <1>1, <1>2, <1>3, <1>4 DEF NumbersInv
  <1>6. \A u \in Caller : Metering(u)' =>
             req'[u].id \in DOMAIN holds' /\ holds'[req'[u].id] = HoldOf(u)'
    BY <1>1, <1>2, <1>3 DEF NumbersInv
  <1>7. \A id \in DOMAIN holds' :
             id \in leaked' \/ \E u \in Caller : Metering(u)' /\ req'[u].id = id
    BY <1>1, <1>2, <1>3 DEF NumbersInv
  <1>8. QED
    BY <1>3, <1>4, <1>5, <1>6, <1>7 DEF NumbersInv

-----------------------------------------------------------------------------
(* The steps, one action at a time *)

RestInv ==
    /\ pending \subseteq [id : Nat, subject : Subject, micro : Amounts]
    /\ own \subseteq Provider
    /\ team \subseteq Provider
    /\ relays \subseteq Provider
    /\ optOut \in BOOLEAN
    /\ ordered \in [Subject -> Nat]
    /\ served \in [Subject -> [Endpoint -> Nat]]

CoreInv == LedgerInv /\ RequestsInv /\ NumbersInv /\ RestInv

(* What the invariant says of one task.                                    *)
LEMMA OneRequest ==
  ASSUME RequestsInv, NEW t \in Caller
  PROVE  /\ stage[t] \in Stages /\ req[t] \in Requests /\ RequestOK(stage[t], req[t])
         /\ req[t].subject \in Subject /\ req[t].endpoint \in Endpoint
         /\ req[t].id \in Nat /\ req[t].micro \in Nat
  BY DEF RequestsInv, Requests

(* A task that waits for nothing has no number and meters nothing.         *)
LEMMA OnlyWaitersMeter ==
  /\ \A t : stage[t] \in {"idle", "route", "ladder", "overflow", "credit"} => ~Numbered(t)
  /\ \A t : Numbered(t) \/ ~Metering(t)
  /\ \A t : stage[t] # "invoke" => ~Metering(t)
  BY DEF Numbered, Metering

(* The same after a move.                                                  *)
LEMMA OnlyWaitersMeterThen ==
  ASSUME RequestsInv, NEW t \in Caller, NEW st, NEW r, Moves(t, st, r)
  PROVE  /\ st \in {"idle", "route", "ladder", "overflow", "credit"} => ~Numbered(t)'
         /\ st = "signup" /\ r.what # "call" => ~Numbered(t)'
         /\ st # "invoke" => ~Metering(t)'
         /\ Meter(r.endpoint, r.via) = 0 => ~Metering(t)'
  <1>1. stage'[t] = st /\ req'[t] = r
    BY MovesOne
  <1>2. Metering(t)' => st = "invoke" /\ Meter(r.endpoint, r.via) > 0
    BY <1>1 DEF Metering, Meter
  <1>3. QED
    BY <1>1, <1>2 DEF Numbered

(* A move between stages without a number, the ledger left alone.          *)
LEMMA FreeMove ==
  ASSUME LedgerInv, RequestsInv, NumbersInv, NEW t \in Caller, NEW st, NEW r,
         Moves(t, st, r), UNCHANGED money, leaked' = leaked, calls' \in {calls, calls + 1},
         ~Metering(t), st \in {"idle", "route", "ladder"} \/ (st = "signup" /\ r.what = "topup")
  PROVE  LedgerInv' /\ RequestsInv' /\ NumbersInv'
  <1>1. LedgerInv' /\ RequestsInv'
    BY LedgerSame, MovesOne
  <1>2. ~Numbered(t)' /\ holds' = holds
    BY OnlyWaitersMeterThen DEF money
  <1>3. NumbersInv'
    BY <1>2, NumberDropped
  <1>4. QED
    BY <1>1, <1>3

(* Starting, routing and refusing a call touches no money.                 *)
LEMMA StartCallStep ==
  ASSUME CoreInv, NEW t \in Caller, NEW s \in Subject, NEW e \in Endpoint, StartCall(t, s, e)
  PROVE  LedgerInv' /\ RequestsInv' /\ NumbersInv'
  <1>1. /\ stage[t] = "idle" /\ UNCHANGED money /\ leaked' = leaked /\ calls' = calls
        /\ own \subseteq Provider
    BY DEF StartCall, CoreInv, RestInv
  <1>2. PICK r : Moves(t, "route", r)
    BY <1>1, StartCallMoves
  <1>3. QED
    BY <1>1, <1>2, FreeMove, OnlyWaitersMeter DEF CoreInv

(* Routing moves to the child or to the ladder.                            *)
LEMMA RouteStep ==
  ASSUME CoreInv, NEW t \in Caller, RouteToChild(t)
  PROVE  LedgerInv' /\ RequestsInv' /\ NumbersInv'
  <1>1. UNCHANGED money /\ leaked' = leaked /\ calls' = calls
    BY DEF RouteToChild
  <1>2. PICK st, r : st \in {"route", "ladder"} /\ stage[t] = "route" /\ Moves(t, st, r)
    BY RouteMoves DEF CoreInv
  <1>3. QED
    BY <1>1, <1>2, FreeMove, OnlyWaitersMeter DEF CoreInv

(* A refused call ends.                                                    *)
LEMMA RefuseStep ==
  ASSUME CoreInv, NEW t \in Caller, Refuse(t)
  PROVE  LedgerInv' /\ RequestsInv' /\ NumbersInv'
  <1>1. /\ stage[t] = "route" /\ UNCHANGED money /\ leaked' = leaked /\ calls' = calls
        /\ Moves(t, "idle", NoCall)
    BY DoneMoves DEF Refuse, Respond
  <1>2. QED
    BY <1>1, FreeMove, OnlyWaitersMeter DEF CoreInv

(* A new attempt, first or over a relay, takes a number and no money.      *)
LEMMA AttemptStep ==
  ASSUME CoreInv, NEW t \in Caller, Ladder(t) \/ Overflow(t)
  PROVE  LedgerInv' /\ RequestsInv' /\ NumbersInv'
  <1>1. UNCHANGED money /\ leaked' = leaked /\ holds' = holds /\ LedgerInv'
    BY LedgerSame DEF Ladder, Overflow, money, CoreInv
  <1>2. /\ stage[t] \in {"ladder", "overflow"}
        /\ \/ Moves(t, "idle", NoCall) /\ calls' = calls
           \/ /\ calls' = calls + 1
              /\ \E st \in {"signup", "invoke"} : \E r :
                    /\ Moves(t, st, r) /\ r.what = "call" /\ r.id = calls
                    /\ st = "signup" <=> Meter(r.endpoint, r.via) > 0
    BY LadderMoves, OverflowMoves DEF CoreInv, NumbersInv
  <1>3. ~Metering(t)
    BY <1>2, OnlyWaitersMeter
  <1>4. CASE Moves(t, "idle", NoCall) /\ calls' = calls
    BY <1>1, <1>3, <1>4, FreeMove DEF CoreInv
  <1>5. ASSUME calls' = calls + 1, NEW st \in {"signup", "invoke"}, NEW r,
               Moves(t, st, r), r.id = calls, st = "signup" <=> Meter(r.endpoint, r.via) > 0
        PROVE  RequestsInv' /\ NumbersInv'
    <2>1. RequestsInv' /\ r \in Requests
      BY <1>5, MovesOne DEF CoreInv, Moves
    <2>2. Meter(r.endpoint, r.via) \in Nat
      BY <2>1, MeterType DEF Requests
    <2>3. ~Metering(t)'
      BY <1>5, <2>2, OnlyWaitersMeterThen DEF CoreInv
    <2>4. QED
      BY <1>1, <1>3, <1>5, <2>1, <2>3, NumberTaken DEF CoreInv
  <1>6. QED
    BY <1>1, <1>2, <1>4, <1>5

(* The signup grant is credited and the handler goes on.                   *)
LEMMA SignupStep ==
  ASSUME CoreInv, NEW t \in Caller, Signup(t)
  PROVE  LedgerInv' /\ RequestsInv' /\ NumbersInv'
  <1>1. /\ EnsureSignupGrant(req[t].subject) /\ UNCHANGED <<calls, leaked>>
        /\ req[t].subject \in Subject
    BY OneRequest DEF Signup, CoreInv
  <1>2. LedgerInv' /\ holds' = holds
    BY <1>1, GrantsOnce DEF CoreInv
  <1>3. /\ stage[t] = "signup" /\ req[t].what \in {"call", "topup"}
        /\ Moves(t, IF req[t].what = "call" THEN "reserve" ELSE "credit", req[t])
    BY SignupMoves DEF CoreInv
  <1>4. RequestsInv' /\ ~Metering(t)
    BY <1>3, MovesOne, OnlyWaitersMeter DEF CoreInv
  <1>5. CASE req[t].what = "call"
    <2>1. Moves(t, "reserve", req[t]) /\ Numbered(t)
      BY <1>3, <1>5 DEF Numbered
    <2>2. ~Metering(t)'
      BY <2>1, OnlyWaitersMeterThen DEF CoreInv
    <2>3. QED
      BY <1>1, <1>2, <1>4, <2>1, <2>2, NumberKept DEF CoreInv
  <1>6. CASE req[t].what = "topup"
    <2>1. Moves(t, "credit", req[t])
      BY <1>3, <1>6
    <2>2. ~Numbered(t)'
      BY <2>1, OnlyWaitersMeterThen DEF CoreInv
    <2>3. QED
      BY <1>1, <1>2, <1>4, <2>1, <2>2, NumberDropped DEF CoreInv
  <1>7. QED
    BY <1>3, <1>5, <1>6

(* A reservation makes the hold of the call, or the call is refused.       *)
LEMMA ReserveStep ==
  ASSUME CoreInv, NEW t \in Caller, ReserveCost(t)
  PROVE  LedgerInv' /\ RequestsInv' /\ NumbersInv'
  <1>1. /\ UNCHANGED <<calls, leaked>> /\ req[t].subject \in Subject /\ req[t].id \in Nat
    BY OneRequest DEF ReserveCost, CoreInv
  <1>2. PICK cost : cost = Catalog[req[t].endpoint].cost
    OBVIOUS
  <1>3. /\ stage[t] = "reserve" /\ cost \in 1..MaxI64
        /\ Meter(req[t].endpoint, req[t].via) = cost
        /\ \/ Moves(t, "invoke", req[t]) /\ Reserve(req[t].subject, req[t].id, cost)
           \/ Moves(t, "idle", NoCall) /\ UNCHANGED money
    BY <1>2, ReserveMoves DEF CoreInv
  <1>4. Numbered(t) /\ ~Metering(t)
    BY <1>3, OnlyWaitersMeter DEF Numbered
  <1>5. CASE Moves(t, "idle", NoCall) /\ UNCHANGED money
    BY <1>1, <1>4, <1>5, FreeMove DEF CoreInv
  <1>6. CASE Moves(t, "invoke", req[t]) /\ Reserve(req[t].subject, req[t].id, cost)
    <2>1. /\ LedgerInv'
          /\ req[t].id \notin DOMAIN holds /\ DOMAIN holds' = DOMAIN holds \cup {req[t].id}
          /\ holds'[req[t].id] = [subject |-> req[t].subject, reserved |-> cost]
          /\ \A i \in DOMAIN holds : holds'[i] = holds[i]
      BY <1>1, <1>3, <1>6, ReservesBalance, ZenonT(60) DEF CoreInv
    <2>2. RequestsInv' /\ stage'[t] = "invoke" /\ req'[t] = req[t]
      BY <1>6, MovesOne DEF CoreInv
    <2>3. Metering(t)'
      BY <1>3, <2>2 DEF Metering, Meter
    <2>4. holds'[req[t].id] = HoldOf(t)
      BY <1>2, <2>1 DEF HoldOf
    <2>5. QED
      BY <1>1, <1>4, <1>6, <2>1, <2>2, <2>3, <2>4, NumberReserved DEF CoreInv
  <1>7. QED
    BY <1>3, <1>5, <1>6

(* An attempt is over: its hold, if it had one, is settled.                *)
LEMMA AttemptOver ==
  ASSUME CoreInv, NEW t \in Caller, stage[t] = "invoke", NEW st \in {"idle", "overflow"},
         NEW r, Moves(t, st, r), UNCHANGED <<calls, leaked>>, NEW actual \in Nat,
         IF Meter(req[t].endpoint, req[t].via) > 0
           THEN Settle(req[t].id, actual) ELSE UNCHANGED money
  PROVE  LedgerInv' /\ RequestsInv' /\ NumbersInv'
  <1>1. RequestsInv' /\ ~Numbered(t)'
    BY MovesOne, OnlyWaitersMeterThen DEF CoreInv
  <1>2. Metering(t) <=> Meter(req[t].endpoint, req[t].via) > 0
    BY DEF Metering
  <1>3. CASE Metering(t)
    <2>1. /\ LedgerInv' /\ DOMAIN holds' = DOMAIN holds \ {req[t].id}
          /\ \A i \in DOMAIN holds' : holds'[i] = holds[i]
      BY <1>2, <1>3, SettlesHold DEF CoreInv
    <2>2. {i \in {req[t].id} : Metering(t)} = {req[t].id}
      BY <1>3
    <2>3. QED
      BY <1>1, <2>1, <2>2, NumberDropped DEF CoreInv
  <1>4. CASE ~Metering(t)
    <2>1. LedgerInv' /\ holds' = holds
      BY <1>2, <1>4, LedgerSame DEF CoreInv, money
    <2>2. {i \in {req[t].id} : Metering(t)} = {}
      BY <1>4
    <2>3. QED
      BY <1>1, <2>1, <2>2, NumberDropped DEF CoreInv
  <1>5. QED
    BY <1>3, <1>4

(* A served call settles its hold for its price and ends.                  *)
LEMMA ServedStep ==
  ASSUME CoreInv, NEW t \in Caller, UpstreamServed(t)
  PROVE  LedgerInv' /\ RequestsInv' /\ NumbersInv'
  <1>1. PICK meter : meter = Meter(req[t].endpoint, req[t].via)
    OBVIOUS
  <1>2. meter \in Nat
    BY <1>1, OneRequest, MeterType DEF CoreInv
  <1>3. /\ stage[t] = "invoke" /\ UNCHANGED <<calls, leaked>> /\ Moves(t, "idle", NoCall)
        /\ IF meter > 0 THEN Settle(req[t].id, meter) ELSE UNCHANGED money
    BY <1>1, DoneMoves DEF UpstreamServed, Respond
  <1>4. QED
    BY <1>1, <1>2, <1>3, AttemptOver

(* An attempt that is not served releases its hold.                        *)
LEMMA NotServedStep ==
  ASSUME CoreInv, NEW t \in Caller, NotServed(t)
  PROVE  LedgerInv' /\ RequestsInv' /\ NumbersInv'
  <1>1. /\ UNCHANGED <<calls, leaked>>
        /\ IF Meter(req[t].endpoint, req[t].via) > 0
             THEN Settle(req[t].id, 0) ELSE UNCHANGED money
    BY DEF NotServed, Release
  <1>2. PICK st, r : st \in {"idle", "overflow"} /\ stage[t] = "invoke" /\ Moves(t, st, r)
    BY NotServedMoves DEF CoreInv
  <1>3. QED
    BY <1>1, <1>2, AttemptOver

(* A dropped call leaves its hold behind.                                  *)
LEMMA HangUpStep ==
  ASSUME CoreInv, NEW t \in Caller, HangUp(t)
  PROVE  LedgerInv' /\ RequestsInv' /\ NumbersInv'
  <1>1. /\ Moves(t, "idle", NoCall) /\ UNCHANGED <<calls, money>> /\ Numbered(t)
        /\ leaked' = leaked \cup {req[t].id} /\ holds' = holds
    BY DoneMoves DEF HangUp, Numbered, money
  <1>2. QED
    BY <1>1, LedgerSame, MovesOne, NumberLeaked DEF CoreInv

(* A top-up starts, ordered directly or by a confirmed intent.             *)
LEMMA StartTopupStep ==
  ASSUME CoreInv, NEW t \in Caller, stage[t] = "idle", UNCHANGED <<money, calls, leaked>>,
         NEW s \in Subject, NEW m \in Amounts, GoOn(t, "signup", TopupOf(s, m))
  PROVE  LedgerInv' /\ RequestsInv' /\ NumbersInv'
  <1>1. Moves(t, "signup", TopupOf(s, m)) /\ TopupOf(s, m).what = "topup"
    BY TopupMoves
  <1>2. QED
    BY <1>1, FreeMove, OnlyWaitersMeter DEF CoreInv

(* A top-up is credited and ends.                                          *)
LEMMA CreditTopupStep ==
  ASSUME CoreInv, NEW t \in Caller, CreditTopup(t)
  PROVE  LedgerInv' /\ RequestsInv' /\ NumbersInv'
  <1>1. /\ stage[t] = "credit" /\ Moves(t, "idle", NoCall) /\ UNCHANGED <<calls, leaked>>
        /\ Grant(req[t].subject, req[t].micro)
        /\ req[t].subject \in Subject /\ req[t].micro \in Nat
    BY DoneMoves, OneRequest DEF CreditTopup, CoreInv
  <1>2. LedgerInv' /\ holds' = holds
    BY <1>1, CreditsBalance DEF CoreInv
  <1>3. RequestsInv' /\ ~Numbered(t)' /\ ~Metering(t)
    BY <1>1, MovesOne, OnlyWaitersMeter, OnlyWaitersMeterThen DEF CoreInv
  <1>4. QED
    BY <1>1, <1>2, <1>3, NumberDropped DEF CoreInv

(* A look at the balance may credit the grant.                             *)
LEMMA BalanceStep ==
  ASSUME CoreInv, NEW s \in Subject, Balance(s)
  PROVE  LedgerInv' /\ RequestsInv' /\ NumbersInv'
  <1>1. LedgerInv' /\ UNCHANGED <<stage, req, leaked, holds, calls>>
    BY GrantsOnce DEF Balance, CoreInv
  <1>2. QED
    BY <1>1, NumbersSame DEF CoreInv, RequestsInv

(* Everything else moves no task and no money.                             *)
LEMMA QuietStep ==
  ASSUME CoreInv, UNCHANGED <<money, stage, req, leaked>>, calls' \in {calls, calls + 1}
  PROVE  LedgerInv' /\ RequestsInv' /\ NumbersInv'
  <1>1. LedgerInv' /\ holds' = holds
    BY LedgerSame DEF CoreInv, money
  <1>2. QED
    BY <1>1, NumbersSame DEF CoreInv, RequestsInv

(* Registries, orders and counts keep their types.                         *)
LEMMA RestStep ==
  ASSUME CoreInv, CallsNext
  PROVE  RestInv'
  <1> USE DEF RestInv
  <1>0. RestInv /\ RequestsInv /\ calls \in Nat
    BY DEF CoreInv, NumbersInv
  <1>1. ASSUME NEW t \in Caller, Work(t) \/ HangUp(t) PROVE RestInv'
    <2>1. /\ req[t].subject \in Subject /\ req[t].endpoint \in Endpoint
      BY <1>0, OneRequest
    <2>2. CASE UpstreamServed(t)
      <3>1. UNCHANGED <<pending, registry, ordered>>
        BY <2>2 DEF UpstreamServed
      <3>2. served' \in {served, [served EXCEPT ![req[t].subject][req[t].endpoint] = @ + 1]}
        BY <2>2 DEF UpstreamServed
      <3>3. served' \in [Subject -> [Endpoint -> Nat]]
        BY <1>0, <2>1, <3>2
      <3>4. QED
        BY <1>0, <3>1, <3>3 DEF registry
    <2>3. CASE ~UpstreamServed(t)
      <3>1. UNCHANGED <<pending, registry, ordered, served>>
        BY <1>1, <2>3 DEF Work, RouteToChild, Refuse, Ladder, Signup, ReserveCost,
                 NotServed, Overflow, CreditTopup, HangUp
      <3>2. QED
        BY <1>0, <3>1 DEF registry
    <2>4. QED
      BY <2>2, <2>3
  <1>2. ASSUME NEW t \in Caller, NEW s \in Subject, NEW e \in Endpoint, StartCall(t, s, e)
        PROVE  RestInv'
    BY <1>0, <1>2 DEF StartCall, registry
  <1>3. ASSUME NEW s \in Subject, Balance(s) PROVE RestInv'
    BY <1>0, <1>3 DEF Balance, registry
  <1>4. ASSUME NEW s \in Subject, NEW m \in Amounts, CreateTopup(s, m) PROVE RestInv'
    <2>1. /\ pending' = pending \cup {[id |-> calls, subject |-> s, micro |-> m]}
          /\ ordered' = [ordered EXCEPT ![s] = @ + m]
          /\ UNCHANGED <<registry, served>>
      BY <1>4 DEF CreateTopup, Order
    <2>2. m \in Nat
      BY CatalogAssumption
    <2>3. ordered' \in [Subject -> Nat]
      BY <1>0, <2>1, <2>2
    <2>4. QED
      BY <1>0, <2>1, <2>3 DEF registry
  <1>5. ASSUME NEW t \in Caller, NEW s \in Subject, NEW m \in Amounts, StartTopup(t, s, m)
        PROVE  RestInv'
    <2>1. /\ ordered' = [ordered EXCEPT ![s] = @ + m]
          /\ UNCHANGED <<registry, served, pending>>
      BY <1>5 DEF StartTopup, Order
    <2>2. m \in Nat
      BY CatalogAssumption
    <2>3. ordered' \in [Subject -> Nat]
      BY <1>0, <2>1, <2>2
    <2>4. QED
      BY <1>0, <2>1, <2>3 DEF registry
  <1>6. ASSUME NEW t \in Caller, NEW intent \in pending, StartConfirm(t, intent)
        PROVE  RestInv'
    BY <1>0, <1>6 DEF StartConfirm, registry
  <1>7. ASSUME NEW p \in Provider,
               RegisterTeamTool(p) \/ RegisterOverflowRelay(p) \/ SaveConnection(p)
        PROVE  RestInv'
    BY <1>0, <1>7 DEF RegisterTeamTool, RegisterOverflowRelay, SaveConnection
  <1>8. ASSUME NEW b \in BOOLEAN, SetOverflowOptOut(b) PROVE RestInv'
    BY <1>0, <1>8 DEF SetOverflowOptOut
  <1>9. QED
    BY <1>1, <1>2, <1>3, <1>4, <1>5, <1>6, <1>7, <1>8 DEF CallsNext

(* A confirmed intent is a top-up of its subject and amount.               *)
LEMMA ConfirmIsTopup ==
  ASSUME RestInv, NEW t \in Caller, NEW intent \in pending, StartConfirm(t, intent)
  PROVE  /\ stage[t] = "idle" /\ intent.subject \in Subject /\ intent.micro \in Amounts
         /\ GoOn(t, "signup", TopupOf(intent.subject, intent.micro))
  <1>1. [NoCall EXCEPT !.what = "topup", !.micro = intent.micro, !.subject = intent.subject]
        = TopupOf(intent.subject, intent.micro)
    <2>1. PICK r \in Requests : r = NoCall
      BY NoCallIsIdle
    <2>2. [r EXCEPT !.what = "topup", !.micro = intent.micro, !.subject = intent.subject]
          = [r EXCEPT !.what = "topup", !.subject = intent.subject, !.micro = intent.micro]
      BY DEF Requests
    <2>3. QED
      BY <2>1, <2>2 DEF TopupOf
  <1>2. GoOn(t, "signup", [NoCall EXCEPT !.what = "topup", !.micro = intent.micro,
                                         !.subject = intent.subject])
    BY DEF StartConfirm
  <1>3. intent.subject \in Subject /\ intent.micro \in Amounts
    BY DEF RestInv
  <1>4. stage[t] = "idle"
    BY DEF StartConfirm
  <1>5. QED
    BY <1>1, <1>2, <1>3, <1>4

(* Every step keeps the ledger, the requests and the numbers in order.     *)
LEMMA CoreStep ==
  ASSUME CoreInv, [CallsNext]_callsVars
  PROVE  CoreInv'
  <1>1. CASE CallsNext
    <2>1. ASSUME NEW t \in Caller, NEW s \in Subject, NEW e \in Endpoint, StartCall(t, s, e)
          PROVE  LedgerInv' /\ RequestsInv' /\ NumbersInv'
      BY <2>1, StartCallStep
    <2>2. ASSUME NEW t \in Caller, Work(t) \/ HangUp(t)
          PROVE  LedgerInv' /\ RequestsInv' /\ NumbersInv'
      BY <2>2, RouteStep, RefuseStep, AttemptStep, SignupStep, ReserveStep, ServedStep,
         NotServedStep, HangUpStep, CreditTopupStep DEF Work
    <2>3. ASSUME NEW s \in Subject, Balance(s)
          PROVE  LedgerInv' /\ RequestsInv' /\ NumbersInv'
      BY <2>3, BalanceStep
    <2>4. ASSUME NEW s \in Subject, NEW m \in Amounts, CreateTopup(s, m)
          PROVE  LedgerInv' /\ RequestsInv' /\ NumbersInv'
      BY <2>4, QuietStep DEF CreateTopup, NextId
    <2>5. ASSUME NEW t \in Caller, NEW s \in Subject, NEW m \in Amounts, StartTopup(t, s, m)
          PROVE  LedgerInv' /\ RequestsInv' /\ NumbersInv'
      <3>1. /\ stage[t] = "idle" /\ UNCHANGED <<money, calls, leaked>>
            /\ GoOn(t, "signup", TopupOf(s, m))
        BY <2>5 DEF StartTopup, TopupOf
      <3>2. QED
        BY <3>1, StartTopupStep
    <2>6. ASSUME NEW t \in Caller, NEW intent \in pending, StartConfirm(t, intent)
          PROVE  LedgerInv' /\ RequestsInv' /\ NumbersInv'
      <3>1. UNCHANGED <<money, calls, leaked>>
        BY <2>6 DEF StartConfirm
      <3>2. /\ stage[t] = "idle" /\ intent.subject \in Subject /\ intent.micro \in Amounts
            /\ GoOn(t, "signup", TopupOf(intent.subject, intent.micro))
        BY <2>6, ConfirmIsTopup DEF CoreInv
      <3>3. QED
        BY <3>1, <3>2, StartTopupStep
    <2>7. ASSUME NEW p \in Provider,
                 RegisterTeamTool(p) \/ RegisterOverflowRelay(p) \/ SaveConnection(p)
          PROVE  LedgerInv' /\ RequestsInv' /\ NumbersInv'
      BY <2>7, QuietStep DEF RegisterTeamTool, RegisterOverflowRelay, SaveConnection, NextId
    <2>8. ASSUME NEW b \in BOOLEAN, SetOverflowOptOut(b)
          PROVE  LedgerInv' /\ RequestsInv' /\ NumbersInv'
      BY <2>8, QuietStep DEF SetOverflowOptOut
    <2>9. LedgerInv' /\ RequestsInv' /\ NumbersInv'
      BY <1>1, <2>1, <2>2, <2>3, <2>4, <2>5, <2>6, <2>7, <2>8 DEF CallsNext
    <2>10. QED
      BY <1>1, <2>9, RestStep DEF CoreInv
  <1>2. CASE UNCHANGED callsVars
    <2>1. UNCHANGED <<money, stage, req, leaked, calls>>
      BY <1>2 DEF callsVars
    <2>2. RestInv'
      BY <1>2 DEF callsVars, registry, CoreInv, RestInv
    <2>3. QED
      BY <2>1, <2>2, QuietStep DEF CoreInv
  <1>3. QED
    BY <1>1, <1>2

(* The system starts in order.                                             *)
LEMMA CoreStart == CallsInit => CoreInv
  <1> SUFFICES ASSUME CallsInit PROVE CoreInv
    OBVIOUS
  <1>1. LedgerInv /\ DOMAIN holds = {}
    BY LedgerStart DEF CallsInit, LedgerInit
  <1>2. RequestsInv
    BY NoCallIsIdle DEF CallsInit, RequestsInv, Stages
  <1>3. \A t \in Caller : ~Numbered(t) /\ ~Metering(t)
    BY OnlyWaitersMeter DEF CallsInit
  <1>4. NumbersInv
    BY <1>1, <1>3 DEF CallsInit, NumbersInv
  <1>5. RestInv
    BY DEF CallsInit, RestInv
  <1>6. QED
    BY <1>1, <1>2, <1>4, <1>5 DEF CoreInv

(* The invariant holds in every behaviour of the calls.                    *)
LEMMA CallsStayInOrder == CallsSpec => []CoreInv
  BY CoreStart, CoreStep, PTL DEF CallsSpec

(* Every variable of the ledger and the calls keeps its type.              *)
THEOREM CallsTypeCorrect == CallsSpec => []CallsTypeOK
  <1>1. CoreInv => CallsTypeOK
    BY DEF CoreInv, LedgerInv, LedgerType, HoldMap, RequestsInv, NumbersInv, Ids, RestInv,
           CallsTypeOK
  <1>2. QED
    BY <1>1, CallsStayInOrder, PTL

(* The open holds are those of the metered calls that wait for their       *)
(* upstream, one each and of the call's price, and of the dropped calls; a *)
(* call with a saved key reserves nothing unless it was routed.            *)
THEOREM HoldsMatch == CallsSpec => []HoldsMatchCalls
  <1>1. ASSUME CoreInv PROVE HoldsMatchCalls
    <2>1. DOMAIN holds = {req[t].id : t \in {u \in Caller : Metering(u)}}
                           \cup (leaked \cap DOMAIN holds)
      <3>1. PICK Waiting : Waiting = {req[t].id : t \in {u \in Caller : Metering(u)}}
        OBVIOUS
      <3>2. \A id : id \in Waiting <=> \E t \in Caller : Metering(t) /\ req[t].id = id
        BY <3>1
      <3>3. NumbersInv
        BY <1>1 DEF CoreInv
      <3>4. Waiting \subseteq DOMAIN holds
        BY <3>2, <3>3 DEF NumbersInv
      <3>5. \A id \in DOMAIN holds : id \in leaked \/ id \in Waiting
        BY <3>2, <3>3 DEF NumbersInv
      <3>6. DOMAIN holds = Waiting \cup (leaked \cap DOMAIN holds)
        BY <3>4, <3>5
      <3>7. QED
        BY <3>1, <3>6
    <2>2. ASSUME NEW t \in Caller, Metering(t)
          PROVE  /\ req[t].id \notin leaked
                 /\ holds[req[t].id] = [subject  |-> req[t].subject,
                                        reserved |-> Catalog[req[t].endpoint].cost]
                 /\ \A u \in Caller \ {t} : Metering(u) => req[u].id # req[t].id
      BY <1>1, <2>2, MeteringIsNumbered DEF CoreInv, NumbersInv, HoldOf
    <2>3. ASSUME NEW t \in Caller, Metering(t), ~req[t].routed
          PROVE  Catalog[req[t].endpoint].provider \notin req[t].keys
      <3>1. RequestOK(stage[t], req[t]) /\ req[t].endpoint \in Endpoint
        BY <1>1, OneRequest DEF CoreInv
      <3>2. stage[t] = "invoke" /\ Meter(req[t].endpoint, req[t].via) > 0
        BY <2>3 DEF Metering
      <3>3. req[t].via \in Metered
        BY <3>1, <3>2, MeterType
      <3>4. QED
        BY <2>3, <3>1, <3>2, <3>3 DEF RequestOK, Metered
    <2>4. QED
      BY <2>1, <2>2, <2>3 DEF HoldsMatchCalls
  <1>2. QED
    BY <1>1, CallsStayInOrder, PTL

-----------------------------------------------------------------------------
(* Top-ups on their way *)

(* What the running top-ups R and the pending intents P will credit to s.  *)
Share(r, s) == IF r.what = "topup" /\ r.subject = s THEN r.micro ELSE 0
Shares(R, s) == [t \in Caller |-> Share(R[t], s)]
Flying(R, s) == SumFunctionOnSet(Shares(R, s), Caller)

Worth(intent, s) == IF intent.subject = s THEN intent.micro ELSE 0
Worths(P, s) == [intent \in P |-> Worth(intent, s)]
Waiting(P, s) == SumFunctionOnSet(Worths(P, s), P)

Given(s) == IF s \in granted THEN SignupGrant ELSE 0

Intents == [id : Nat, subject : Subject, micro : Amounts]

(* Whatever was ordered is credited, on its way in one request, or pending *)
(* in one intent; the only other credit is one signup grant.               *)
FlowInv ==
    /\ IsFiniteSet(pending)
    /\ \A intent \in pending : intent.id \in Ids
    /\ \A s \in Subject :
         /\ credited[s] + Waiting(pending, s) + Flying(req, s) = Given(s) + ordered[s]
         /\ ordered[s] <= MaxOrdered

(* What requests and intents will credit are natural numbers.              *)
LEMMA FlyingType ==
  ASSUME NEW R \in [Caller -> Requests], NEW s
  PROVE  Flying(R, s) \in Nat /\ \A t \in Caller : Shares(R, s)[t] \in Nat
  <1>1. \A t \in Caller : Shares(R, s)[t] \in Nat
    BY DEF Shares, Share, Requests
  <1>2. IsFiniteSet(Caller)
    BY CatalogAssumption
  <1> HIDE DEF Shares
  <1>3. Flying(R, s) \in Int /\ Flying(R, s) >= 0
    BY <1>1, <1>2, SumType DEF Flying
  <1>4. QED
    BY <1>1, <1>3

(* Amounts are positive numbers.                                           *)
LEMMA AmountsAreNatural ==
  ASSUME NEW m \in Amounts
  PROVE  m \in Nat /\ m > 0
  BY CatalogAssumption

(* The same of the pending intents.                                        *)
LEMMA WaitingType ==
  ASSUME NEW P \in SUBSET Intents, IsFiniteSet(P), NEW s
  PROVE  Waiting(P, s) \in Nat /\ \A p \in P : Worths(P, s)[p] \in Nat
  <1>0. ASSUME NEW p \in P PROVE p.micro \in Nat
    <2>1. p.micro \in Amounts
      BY DEF Intents
    <2>2. QED
      BY <2>1, AmountsAreNatural
  <1>1. \A p \in P : Worths(P, s)[p] \in Nat
    BY <1>0 DEF Worths, Worth
  <1> HIDE DEF Worths
  <1>2. Waiting(P, s) \in Int /\ Waiting(P, s) >= 0
    BY <1>1, SumType DEF Waiting
  <1>3. QED
    BY <1>1, <1>2

(* A move changes what is on its way by what the task carries.             *)
LEMMA FlyingMoved ==
  ASSUME RequestsInv, NEW t \in Caller, NEW st, NEW r, Moves(t, st, r), NEW s
  PROVE  /\ Flying(req', s) = Flying(req, s) - Share(req[t], s) + Share(r, s)
         /\ Flying(req', s) \in Nat /\ Flying(req, s) \in Nat
         /\ Share(req[t], s) \in Nat /\ Share(r, s) \in Nat
  <1>1. /\ req \in [Caller -> Requests] /\ req' \in [Caller -> Requests]
        /\ req'[t] = r /\ \A u \in Caller \ {t} : req'[u] = req[u]
    BY MovesOne DEF RequestsInv
  <1>2. PICK f, g : f = Shares(req, s) /\ g = Shares(req', s)
    OBVIOUS
  <1>3. \A u \in Caller : f[u] \in Nat /\ g[u] \in Nat
    BY <1>1, <1>2, FlyingType
  <1>4. \A u \in Caller : u # t => g[u] = f[u]
    BY <1>1, <1>2 DEF Shares
  <1>5. f[t] = Share(req[t], s) /\ g[t] = Share(r, s)
    BY <1>1, <1>2 DEF Shares
  <1>6. IsFiniteSet(Caller)
    BY CatalogAssumption
  <1>7. SumFunctionOnSet(g, Caller) = SumFunctionOnSet(f, Caller) - f[t] + g[t]
    BY <1>3, <1>4, <1>6, SumChange
  <1>8. Flying(req', s) \in Nat /\ Flying(req, s) \in Nat
    BY <1>1, FlyingType
  <1>9. f[t] \in Nat /\ g[t] \in Nat
    BY <1>3
  <1>10. QED
    BY <1>2, <1>5, <1>7, <1>8, <1>9 DEF Flying

(* An intent that is filed waits.                                          *)
LEMMA WaitingFiled ==
  ASSUME NEW P \in SUBSET Intents, IsFiniteSet(P), NEW intent \in Intents, intent \notin P, NEW s
  PROVE  /\ Waiting(P \cup {intent}, s) = Waiting(P, s) + Worth(intent, s)
         /\ IsFiniteSet(P \cup {intent})
  <1>1. PICK Q : Q = P \cup {intent}
    OBVIOUS
  <1>2. Q \in SUBSET Intents /\ IsFiniteSet(Q)
    BY <1>1, FS_AddElement
  <1>3. PICK f, g : f = Worths(P, s) /\ g = Worths(Q, s)
    OBVIOUS
  <1>4. /\ \A p \in P : f[p] \in Nat /\ g[p] = f[p]
        /\ g[intent] \in Nat /\ g[intent] = Worth(intent, s)
    <2>1. (\A p \in P : f[p] \in Nat) /\ (\A p \in Q : g[p] \in Nat)
      BY <1>2, <1>3, WaitingType
    <2>2. \A p \in P : g[p] = f[p]
      BY <1>1, <1>3 DEF Worths
    <2>3. g[intent] = Worth(intent, s)
      BY <1>1, <1>3 DEF Worths
    <2>4. QED
      BY <1>1, <2>1, <2>2, <2>3
  <1>5. SumFunctionOnSet(g, P \cup {intent}) = SumFunctionOnSet(f, P) + g[intent]
    BY <1>4, SumAdd
  <1>6. QED
    BY <1>1, <1>2, <1>3, <1>4, <1>5 DEF Waiting

(* An intent that is taken waits no more.                                  *)
LEMMA WaitingTaken ==
  ASSUME NEW P \in SUBSET Intents, IsFiniteSet(P), NEW intent \in P, NEW s
  PROVE  /\ Waiting(P, s) = Waiting(P \ {intent}, s) + Worth(intent, s)
         /\ IsFiniteSet(P \ {intent})
  <1>1. PICK Q : Q = P \ {intent}
    OBVIOUS
  <1>2. Q \in SUBSET Intents /\ IsFiniteSet(Q) /\ intent \notin Q /\ P = Q \cup {intent}
    BY <1>1, FS_RemoveElement
  <1>3. intent \in Intents
    OBVIOUS
  <1>4. Waiting(Q \cup {intent}, s) = Waiting(Q, s) + Worth(intent, s)
    BY <1>2, <1>3, WaitingFiled
  <1>5. QED
    BY <1>1, <1>2, <1>4

(* What the flow equation speaks of are natural numbers.                   *)
LEMMA FlowTypes ==
  ASSUME CoreInv, FlowInv, NEW s \in Subject
  PROVE  /\ pending \in SUBSET Intents
         /\ credited[s] \in Nat /\ ordered[s] \in Nat /\ Given(s) \in Nat
         /\ Waiting(pending, s) \in Nat /\ Flying(req, s) \in Nat
  BY MoneyAssumption, WaitingType, FlyingType
     DEF CoreInv, LedgerInv, LedgerType, RestInv, RequestsInv, Intents, FlowInv, Given

(* A call that moves on credits nothing and carries nothing.               *)
LEMMA CallFlows ==
  ASSUME CoreInv, FlowInv, NEW t \in Caller, NEW st, NEW r, Moves(t, st, r),
         req[t].what # "topup", r.what # "topup",
         UNCHANGED <<credited, granted, pending, ordered>>, calls' \in {calls, calls + 1}
  PROVE  FlowInv'
  <1>1. \A s : Share(req[t], s) = 0 /\ Share(r, s) = 0
    BY DEF Share
  <1>2. \A s : Flying(req', s) = Flying(req, s)
    BY <1>1, FlyingMoved DEF CoreInv
  <1>3. Ids \subseteq Ids'
    BY IdsGrow DEF CoreInv, NumbersInv
  <1>4. \A s : Given(s)' = Given(s)
    BY DEF Given
  <1>5. QED
    BY <1>2, <1>3, <1>4 DEF FlowInv

(* The steps of a call.                                                    *)
LEMMA CallsKeepFlow ==
  ASSUME CoreInv, FlowInv, NEW t \in Caller,
         \/ RouteToChild(t) \/ Refuse(t) \/ Ladder(t) \/ ReserveCost(t) \/ UpstreamServed(t)
         \/ NotServed(t) \/ Overflow(t) \/ HangUp(t)
  PROVE  FlowInv'
  <1>1. req[t].what # "topup"
    <2>1. stage[t] \in {"route", "ladder", "reserve", "invoke", "overflow"}
      BY DEF RouteToChild, Refuse, Ladder, ReserveCost, UpstreamServed, NotServed, Overflow,
             HangUp
    <2>2. QED
      BY <2>1, OneRequest DEF CoreInv, RequestOK
  <1>2. PICK st, r : Moves(t, st, r) /\ r.what # "topup"
    BY <1>1, RouteMoves, LadderMoves, OverflowMoves, ReserveMoves, NotServedMoves, DoneMoves,
       NoCallIsIdle
       DEF CoreInv, NumbersInv, Refuse, Respond, UpstreamServed, HangUp
  <1>3. UNCHANGED <<pending, ordered>> /\ calls' \in {calls, calls + 1}
    BY DEF RouteToChild, Refuse, Ladder, ReserveCost, UpstreamServed, NotServed, Overflow,
           HangUp, NextId
  <1>4. UNCHANGED <<credited, granted>>
    BY DEF RouteToChild, Refuse, Ladder, ReserveCost, UpstreamServed, NotServed, Overflow,
           HangUp, Reserve, Release, Settle, money
  <1>5. QED
    BY <1>1, <1>2, <1>3, <1>4, CallFlows

(* The grant is credited to the subject it is given to.                    *)
LEMMA GrantKeepsFlow ==
  ASSUME CoreInv, FlowInv, NEW s \in Subject, EnsureSignupGrant(s),
         UNCHANGED <<pending, ordered, calls>>, \A u : Flying(req', u) = Flying(req, u)
  PROVE  FlowInv'
  <1>1. /\ granted' = granted \cup {s}
        /\ credited' = [credited EXCEPT ![s] = @ + IF s \in granted THEN 0 ELSE SignupGrant]
    BY GrantsOnce DEF CoreInv
  <1>2. credited \in [Subject -> Nat]
    BY DEF CoreInv, LedgerInv, LedgerType
  <1>3. ASSUME NEW u \in Subject
        PROVE  credited'[u] + Waiting(pending', u) + Flying(req', u) = Given(u)' + ordered'[u]
    <2>1. /\ credited[u] + Waiting(pending, u) + Flying(req, u) = Given(u) + ordered[u]
          /\ credited[u] \in Nat /\ ordered[u] \in Nat
          /\ Waiting(pending, u) \in Nat /\ Flying(req, u) \in Nat
      BY FlowTypes DEF FlowInv
    <2>2. Given(u)' = IF u = s THEN SignupGrant ELSE Given(u)
      BY <1>1 DEF Given
    <2>3. credited'[u] = IF u = s /\ u \notin granted THEN credited[u] + SignupGrant
                                                      ELSE credited[u]
      BY <1>1, <1>2, <2>1
    <2>4. Given(u) = IF u \in granted THEN SignupGrant ELSE 0
      BY DEF Given
    <2>5. QED
      BY <2>1, <2>2, <2>3, <2>4, MoneyAssumption
  <1>4. Ids' = Ids
    BY DEF Ids
  <1>5. QED
    BY <1>3, <1>4 DEF FlowInv

(* A top-up that starts carries what was ordered.                          *)
LEMMA StartTopupFlows ==
  ASSUME CoreInv, FlowInv, NEW t \in Caller, NEW s \in Subject, NEW m \in Amounts,
         StartTopup(t, s, m)
  PROVE  FlowInv'
  <1>1. /\ stage[t] = "idle" /\ UNCHANGED <<credited, granted, pending, calls>>
        /\ ordered[s] + m <= MaxOrdered /\ ordered' = [ordered EXCEPT ![s] = @ + m]
        /\ GoOn(t, "signup", TopupOf(s, m))
    BY DEF StartTopup, Order, money, TopupOf
  <1>0. PICK r : r = TopupOf(s, m)
    OBVIOUS
  <1>2. Moves(t, "signup", r) /\ r.what = "topup" /\ r.subject = s /\ r.micro = m
    BY <1>0, <1>1, TopupMoves
  <1>3. \A u : Share(req[t], u) = 0 /\ Share(r, u) = IF u = s THEN m ELSE 0
    BY <1>1, <1>2, OneRequest DEF CoreInv, RequestOK, Share
  <1>4. Ids' = Ids /\ \A u : Given(u)' = Given(u)
    BY <1>1 DEF Ids, Given
  <1>5. ASSUME NEW u \in Subject
        PROVE  /\ credited'[u] + Waiting(pending', u) + Flying(req', u)
                    = Given(u)' + ordered'[u]
               /\ ordered'[u] <= MaxOrdered
    <2>1. /\ credited[u] + Waiting(pending, u) + Flying(req, u) = Given(u) + ordered[u]
          /\ ordered[u] <= MaxOrdered
          /\ credited[u] \in Nat /\ ordered[u] \in Nat /\ Given(u) \in Nat
          /\ Waiting(pending, u) \in Nat /\ Flying(req, u) \in Nat
      BY FlowTypes DEF FlowInv
    <2>2. /\ credited'[u] = credited[u] /\ Waiting(pending', u) = Waiting(pending, u)
          /\ Given(u)' = Given(u)
      BY <1>1, <1>4
    <2>3. ordered'[u] = ordered[u] + IF u = s THEN m ELSE 0
      BY <1>1, <2>1 DEF CoreInv, RestInv
    <2>4. Flying(req', u) = Flying(req, u) - 0 + IF u = s THEN m ELSE 0
      BY <1>2, <1>3, FlyingMoved DEF CoreInv
    <2>5. m \in Nat
      BY AmountsAreNatural
    <2>6. QED
      BY <1>1, <2>1, <2>2, <2>3, <2>4, <2>5
  <1>6. QED
    BY <1>1, <1>4, <1>5 DEF FlowInv

(* An intent that is filed is a new one, whatever its amount.              *)
LEMMA CreateTopupFlows ==
  ASSUME CoreInv, FlowInv, NEW s \in Subject, NEW m \in Amounts, CreateTopup(s, m)
  PROVE  FlowInv'
  <1>0. PICK intent : intent = [id |-> calls, subject |-> s, micro |-> m]
    OBVIOUS
  <1>1. /\ UNCHANGED <<credited, granted, req>> /\ calls' = calls + 1
        /\ ordered[s] + m <= MaxOrdered /\ ordered' = [ordered EXCEPT ![s] = @ + m]
        /\ pending' = pending \cup {intent}
    BY <1>0 DEF CreateTopup, Order, NextId, money
  <1>2. Ids \subseteq Ids' /\ calls \in Ids' /\ calls \notin Ids /\ calls \in Nat
    BY <1>1, IdsGrow DEF CoreInv, NumbersInv
  <1>3. intent \in Intents /\ intent.id = calls /\ intent.subject = s /\ intent.micro = m
    BY <1>0, <1>2 DEF Intents
  <1>4. intent \notin pending /\ pending \in SUBSET Intents /\ IsFiniteSet(pending)
    BY <1>2, <1>3 DEF FlowInv, CoreInv, RestInv, Intents
  <1>5. PICK P : P = pending
    OBVIOUS
  <1>6. /\ \A u : Waiting(P \cup {intent}, u) = Waiting(P, u) + Worth(intent, u)
        /\ IsFiniteSet(P \cup {intent})
    BY <1>3, <1>4, <1>5, WaitingFiled
  <1>7. \A u : Worth(intent, u) = IF u = s THEN m ELSE 0
    BY <1>3 DEF Worth
  <1>8. \A u : Given(u)' = Given(u)
    BY <1>1 DEF Given
  <1>9. ASSUME NEW u \in Subject
        PROVE  /\ credited'[u] + Waiting(pending', u) + Flying(req', u)
                    = Given(u)' + ordered'[u]
               /\ ordered'[u] <= MaxOrdered
    <2>1. /\ credited[u] + Waiting(pending, u) + Flying(req, u) = Given(u) + ordered[u]
          /\ ordered[u] <= MaxOrdered
          /\ credited[u] \in Nat /\ ordered[u] \in Nat /\ Given(u) \in Nat
          /\ Waiting(pending, u) \in Nat /\ Flying(req, u) \in Nat
      BY FlowTypes DEF FlowInv
    <2>2. /\ credited'[u] = credited[u] /\ Flying(req', u) = Flying(req, u)
          /\ Given(u)' = Given(u)
      BY <1>1, <1>8
    <2>3. ordered'[u] = ordered[u] + IF u = s THEN m ELSE 0
      BY <1>1, <2>1 DEF CoreInv, RestInv
    <2>4. Waiting(pending', u) = Waiting(pending, u) + IF u = s THEN m ELSE 0
      BY <1>1, <1>5, <1>6, <1>7
    <2>5. m \in Nat
      BY AmountsAreNatural
    <2>6. QED
      BY <1>1, <2>1, <2>2, <2>3, <2>4, <2>5
  <1>10. IsFiniteSet(pending')
    BY <1>1, <1>5, <1>6
  <1>11. \A p \in pending' : p.id \in Ids'
    BY <1>1, <1>2, <1>3 DEF FlowInv
  <1>12. QED
    BY <1>9, <1>10, <1>11 DEF FlowInv

(* An intent that is confirmed leaves the pending ones for a request.      *)
LEMMA StartConfirmFlows ==
  ASSUME CoreInv, FlowInv, NEW t \in Caller, NEW intent \in pending, StartConfirm(t, intent)
  PROVE  FlowInv'
  <1>1. PICK s \in Subject, m \in Amounts : s = intent.subject /\ m = intent.micro
    BY ConfirmIsTopup DEF CoreInv
  <1>2. /\ stage[t] = "idle" /\ UNCHANGED <<credited, granted, ordered, calls>>
        /\ pending' = pending \ {intent}
        /\ GoOn(t, "signup", TopupOf(s, m))
    BY <1>1, ConfirmIsTopup DEF StartConfirm, money, CoreInv
  <1>0. PICK r : r = TopupOf(s, m)
    OBVIOUS
  <1>3. Moves(t, "signup", r) /\ r.what = "topup" /\ r.subject = s /\ r.micro = m
    BY <1>0, <1>2, TopupMoves
  <1>4. \A u : Share(req[t], u) = 0 /\ Share(r, u) = IF u = s THEN m ELSE 0
    BY <1>2, <1>3, OneRequest DEF CoreInv, RequestOK, Share
  <1>5. Ids' = Ids /\ \A u : Given(u)' = Given(u)
    BY <1>2 DEF Ids, Given
  <1>6. PICK P, p : P = pending /\ p = intent
    OBVIOUS
  <1>7. P \in SUBSET Intents /\ IsFiniteSet(P) /\ p \in P
    BY <1>6 DEF CoreInv, RestInv, Intents, FlowInv
  <1>8. /\ \A u : Waiting(P, u) = Waiting(P \ {p}, u) + Worth(p, u)
        /\ IsFiniteSet(P \ {p})
    BY <1>7, WaitingTaken
  <1>9. \A u : Worth(p, u) = IF u = s THEN m ELSE 0
    BY <1>1, <1>6 DEF Worth
  <1>10. ASSUME NEW u \in Subject
         PROVE  /\ credited'[u] + Waiting(pending', u) + Flying(req', u)
                     = Given(u)' + ordered'[u]
                /\ ordered'[u] <= MaxOrdered
    <2>1. /\ credited[u] + Waiting(pending, u) + Flying(req, u) = Given(u) + ordered[u]
          /\ ordered[u] <= MaxOrdered
          /\ credited[u] \in Nat /\ ordered[u] \in Nat /\ Given(u) \in Nat
          /\ Waiting(pending, u) \in Nat /\ Flying(req, u) \in Nat
      BY FlowTypes DEF FlowInv
    <2>2. /\ credited'[u] = credited[u] /\ ordered'[u] = ordered[u] /\ Given(u)' = Given(u)
      BY <1>2, <1>5
    <2>3. Waiting(pending, u) = Waiting(pending', u) + IF u = s THEN m ELSE 0
      BY <1>2, <1>6, <1>8, <1>9
    <2>4. Flying(req', u) = Flying(req, u) - 0 + IF u = s THEN m ELSE 0
      BY <1>3, <1>4, FlyingMoved DEF CoreInv
    <2>5. m \in Nat
      BY AmountsAreNatural
    <2>6. Waiting(pending', u) \in Nat
      <3>1. P \ {p} \in SUBSET Intents
        BY <1>7
      <3>2. QED
        BY <1>2, <1>6, <1>8, <3>1, WaitingType
    <2>7. QED
      BY <2>1, <2>2, <2>3, <2>4, <2>5, <2>6
  <1>11. IsFiniteSet(pending') /\ \A q \in pending' : q.id \in Ids'
    BY <1>2, <1>5, <1>6, <1>8 DEF FlowInv
  <1>12. QED
    BY <1>10, <1>11 DEF FlowInv

(* What a top-up carried is credited when it ends.                         *)
LEMMA CreditFlows ==
  ASSUME CoreInv, FlowInv, NEW t \in Caller, CreditTopup(t)
  PROVE  FlowInv'
  <1>1. /\ stage[t] = "credit" /\ Moves(t, "idle", NoCall)
        /\ UNCHANGED <<calls, pending, ordered>> /\ Grant(req[t].subject, req[t].micro)
    BY DoneMoves DEF CreditTopup
  <1>2. PICK s, m : s = req[t].subject /\ m = req[t].micro
    OBVIOUS
  <1>3. s \in Subject /\ m \in Nat /\ req[t].what = "topup"
    BY <1>1, <1>2, OneRequest DEF CoreInv, RequestOK
  <1>4. /\ credited' = [credited EXCEPT ![s] = @ + m] /\ granted' = granted
        /\ credited \in [Subject -> Nat]
    BY <1>1, <1>2 DEF Grant, CoreInv, LedgerInv, LedgerType
  <1>5. \A u : Share(NoCall, u) = 0 /\ Share(req[t], u) = IF u = s THEN m ELSE 0
    BY <1>2, <1>3, NoCallIsIdle DEF Share
  <1>6. Ids' = Ids /\ \A u : Given(u)' = Given(u)
    BY <1>1, <1>4 DEF Ids, Given
  <1>7. ASSUME NEW u \in Subject
        PROVE  credited'[u] + Waiting(pending', u) + Flying(req', u) = Given(u)' + ordered'[u]
    <2>1. /\ credited[u] + Waiting(pending, u) + Flying(req, u) = Given(u) + ordered[u]
          /\ credited[u] \in Nat /\ ordered[u] \in Nat /\ Given(u) \in Nat
          /\ Waiting(pending, u) \in Nat /\ Flying(req, u) \in Nat
      BY FlowTypes DEF FlowInv
    <2>2. /\ ordered'[u] = ordered[u] /\ Given(u)' = Given(u)
          /\ Waiting(pending', u) = Waiting(pending, u)
      BY <1>1, <1>6
    <2>3. credited'[u] = credited[u] + IF u = s THEN m ELSE 0
      BY <1>3, <1>4, <2>1
    <2>4. Flying(req', u) = Flying(req, u) - (IF u = s THEN m ELSE 0) + 0
      BY <1>1, <1>5, FlyingMoved DEF CoreInv
    <2>5. QED
      BY <1>3, <2>1, <2>2, <2>3, <2>4
  <1>8. QED
    BY <1>1, <1>6, <1>7 DEF FlowInv

(* Every step keeps the flow equation.                                     *)
LEMMA FlowStep ==
  ASSUME CoreInv, FlowInv, [CallsNext]_callsVars
  PROVE  FlowInv'
  <1>1. ASSUME NEW t \in Caller, NEW s \in Subject, NEW e \in Endpoint, StartCall(t, s, e)
        PROVE  FlowInv'
    <2>1. /\ stage[t] = "idle" /\ own \subseteq Provider
          /\ UNCHANGED <<credited, granted, pending, ordered, calls>>
      BY <1>1 DEF StartCall, money, CoreInv, RestInv
    <2>2. PICK r : Moves(t, "route", r) /\ r.what = "call"
      BY <1>1, <2>1, StartCallMoves
    <2>3. req[t].what # "topup"
      BY <2>1, OneRequest DEF CoreInv, RequestOK
    <2>4. QED
      BY <2>1, <2>2, <2>3, CallFlows
  <1>2. ASSUME NEW t \in Caller, Work(t) \/ HangUp(t) PROVE FlowInv'
    <2>1. CASE Signup(t)
      <3>1. PICK st : Moves(t, st, req[t])
        BY <2>1, SignupMoves DEF CoreInv
      <3>2. \A u : Flying(req', u) = Flying(req, u)
        BY <3>1, FlyingMoved DEF CoreInv
      <3>3. QED
        BY <2>1, <3>2, OneRequest, GrantKeepsFlow DEF Signup, CoreInv
    <2>2. CASE CreditTopup(t)
      BY <2>2, CreditFlows
    <2>3. CASE ~Signup(t) /\ ~CreditTopup(t)
      BY <1>2, <2>3, CallsKeepFlow DEF Work
    <2>4. QED
      BY <2>1, <2>2, <2>3
  <1>3. ASSUME NEW s \in Subject, Balance(s) PROVE FlowInv'
    BY <1>3, GrantKeepsFlow DEF Balance
  <1>4. ASSUME NEW s \in Subject, NEW m \in Amounts, CreateTopup(s, m) PROVE FlowInv'
    BY <1>4, CreateTopupFlows
  <1>5. ASSUME NEW t \in Caller, NEW s \in Subject, NEW m \in Amounts, StartTopup(t, s, m)
        PROVE  FlowInv'
    BY <1>5, StartTopupFlows
  <1>6. ASSUME NEW t \in Caller, NEW intent \in pending, StartConfirm(t, intent)
        PROVE  FlowInv'
    BY <1>6, StartConfirmFlows
  <1>7. ASSUME UNCHANGED <<credited, granted, pending, ordered, req>>, calls' \in {calls, calls + 1}
        PROVE  FlowInv'
    <2>1. Ids \subseteq Ids'
      BY <1>7, IdsGrow DEF CoreInv, NumbersInv
    <2>2. \A s : Given(s)' = Given(s)
      BY <1>7 DEF Given
    <2>3. QED
      BY <1>7, <2>1, <2>2 DEF FlowInv
  <1>8. ASSUME NEW p \in Provider,
               RegisterTeamTool(p) \/ RegisterOverflowRelay(p) \/ SaveConnection(p)
        PROVE  FlowInv'
    BY <1>7, <1>8 DEF RegisterTeamTool, RegisterOverflowRelay, SaveConnection, NextId, money
  <1>9. ASSUME NEW b \in BOOLEAN, SetOverflowOptOut(b) PROVE FlowInv'
    BY <1>7, <1>9 DEF SetOverflowOptOut, money
  <1>10. ASSUME UNCHANGED callsVars PROVE FlowInv'
    BY <1>7, <1>10 DEF callsVars, money
  <1>11. QED
    BY <1>1, <1>2, <1>3, <1>4, <1>5, <1>6, <1>8, <1>9, <1>10 DEF CallsNext

(* Nothing is on its way at the start.                                     *)
LEMMA FlowStart == CallsInit => FlowInv
  <1> SUFFICES ASSUME CallsInit PROVE FlowInv
    OBVIOUS
  <1>1. pending = {} /\ IsFiniteSet(pending)
    BY FS_EmptySet DEF CallsInit
  <1>2. \A s : Waiting(pending, s) = 0
    BY <1>1, FS_EmptySet, SumUnfold DEF Waiting
  <1>3. ASSUME NEW s PROVE Flying(req, s) = 0
    <2>1. PICK f : f = Shares(req, s)
      OBVIOUS
    <2>2. \A t \in Caller : f[t] = 0
      BY <2>1, NoCallIsIdle DEF Shares, Share, CallsInit
    <2>3. IsFiniteSet(Caller)
      BY CatalogAssumption
    <2>4. SumFunctionOnSet(f, Caller) = 0
      BY <2>2, <2>3, SumOfZeros
    <2>5. QED
      BY <2>1, <2>4 DEF Flying
  <1>4. QED
    BY <1>1, <1>2, <1>3, CatalogAssumption DEF CallsInit, LedgerInit, FlowInv, Given

(* The flow equation holds in every behaviour of the calls.                *)
LEMMA MoneyFlows == CallsSpec => [](CoreInv /\ FlowInv)
  BY CoreStart, CoreStep, FlowStart, FlowStep, PTL DEF CallsSpec

(* Money is neither made nor lost: as long as a subject's credits fit an   *)
(* i64 its balance is not negative and balance, open holds and charges add *)
(* up to the credits, which are one signup grant and the top-ups ordered.  *)
THEOREM MoneyIsConserved == CallsSpec => []MoneyConserved
  <1>1. ASSUME CoreInv, FlowInv PROVE MoneyConserved
    <2>1. ASSUME NEW s \in Subject
          PROVE  /\ credited[s] <= SignupGrant + ordered[s]
                 /\ held[s] = OnHold(s)
                 /\ credited[s] <= MaxI64 =>
                       balance[s] >= 0 /\ balance[s] + OnHold(s) + spent[s] = credited[s]
      <3>1. Books(s)
        BY <1>1 DEF CoreInv, LedgerInv
      <3>2. OnHold(s) = Total(holds, s)
        BY OnHoldIsTotal
      <3>3. /\ credited[s] + Waiting(pending, s) + Flying(req, s) = Given(s) + ordered[s]
            /\ credited[s] \in Nat /\ ordered[s] \in Nat /\ Given(s) \in Nat
            /\ Waiting(pending, s) \in Nat /\ Flying(req, s) \in Nat
        BY <1>1, FlowTypes DEF FlowInv
      <3>4. Given(s) <= SignupGrant
        BY MoneyAssumption DEF Given
      <3>5. SignupGrant \in Nat
        BY MoneyAssumption
      <3>6. credited[s] <= SignupGrant + ordered[s]
        BY <3>3, <3>4, <3>5
      <3>7. QED
        BY <3>1, <3>2, <3>6 DEF Books
    <2>2. QED
      BY <2>1 DEF MoneyConserved
  <1>2. QED
    BY <1>1, MoneyFlows, PTL

-----------------------------------------------------------------------------
(* Replies *)

ReplyInv == DOMAIN replied = Caller /\ ReplyStatesTheCharge

(* A served call is charged the price of its endpoint, another nothing.    *)
LEMMA ServedCharge ==
  ASSUME CoreInv, NEW t \in Caller, UpstreamServed(t)
  PROVE  LET meter == Meter(req[t].endpoint, req[t].via)
         IN  /\ meter \in Nat
             /\ spent'[req[t].subject] = spent[req[t].subject] + meter
             /\ \A u \in Subject : u # req[t].subject => spent'[u] = spent[u]
             /\ meter > 0 => /\ req[t].via = "platform"
                             /\ Catalog[req[t].endpoint].cost = meter
                             /\ Metering(t)
  <1>1. PICK meter, s, id : /\ meter = Meter(req[t].endpoint, req[t].via)
                            /\ s = req[t].subject /\ id = req[t].id
    OBVIOUS
  <1>2. /\ meter \in Nat /\ s \in Subject /\ RequestOK(stage[t], req[t])
        /\ meter > 0 => /\ req[t].via \in Metered
                        /\ Catalog[req[t].endpoint].cost = meter
    BY <1>1, OneRequest, MeterType DEF CoreInv
  <1>3. spent \in [Subject -> Nat] /\ LedgerInv
    BY DEF CoreInv, LedgerInv, LedgerType
  <1>4. /\ stage[t] = "invoke"
        /\ IF meter > 0 THEN Settle(id, meter) ELSE UNCHANGED money
    BY <1>1 DEF UpstreamServed
  <1>5. CASE meter > 0
    <2>1. Metering(t)
      BY <1>1, <1>4, <1>5 DEF Metering
    <2>2. id \in DOMAIN holds /\ holds[id].subject = s /\ holds[id].reserved = meter
      <3>1. id \in DOMAIN holds /\ holds[id] = HoldOf(t)
        BY <1>1, <2>1 DEF CoreInv, NumbersInv
      <3>2. HoldOf(t).subject = s /\ HoldOf(t).reserved = meter
        BY <1>1, <1>2, <1>5 DEF HoldOf
      <3>3. QED
        BY <3>1, <3>2
    <2>3. \A u \in Subject :
               spent'[u] = spent[u] +
                  IF id \in DOMAIN holds /\ holds[id].subject = u
                    THEN IF meter < holds[id].reserved THEN meter ELSE holds[id].reserved
                    ELSE 0
      BY <1>2, <1>3, <1>4, <1>5, SettlesHold
    <2>4. \A u \in Subject : spent'[u] = spent[u] + IF s = u THEN meter ELSE 0
      BY <1>2, <2>2, <2>3
    <2>5. \A u \in Subject : u # s => spent'[u] = spent[u]
      BY <1>3, <2>4
    <2>6. req[t].via = "platform"
      BY <1>2, <1>5 DEF Metered, RequestOK
    <2>7. QED
      BY <1>1, <1>2, <1>5, <2>1, <2>4, <2>5, <2>6
  <1>6. CASE ~(meter > 0)
    <2>1. meter = 0 /\ spent' = spent
      BY <1>2, <1>4, <1>6 DEF money
    <2>2. QED
      BY <1>1, <1>2, <1>3, <1>6, <2>1
  <1>7. QED
    BY <1>5, <1>6

(* A reply that states what was taken keeps the promise.                   *)
LEMMA RespondStates ==
  ASSUME CoreInv, ReplyInv, NEW t \in Caller, NEW via, NEW by, NEW cost \in Nat,
         Respond(t, via, cost, by),
         spent'[req[t].subject] = spent[req[t].subject] + cost,
         by \in {"platform", "relay"} \/ cost = 0
  PROVE  ReplyInv'
  <1>1. PICK paid : paid = req[t].paid + spent'[req[t].subject] - spent[req[t].subject]
    OBVIOUS
  <1>2. req[t].paid = 0 /\ req[t].subject \in Subject
    BY OneRequest DEF CoreInv, RequestOK
  <1>3. spent[req[t].subject] \in Nat
    BY <1>2 DEF CoreInv, LedgerInv, LedgerType
  <1>4. paid = cost
    BY <1>1, <1>2, <1>3
  <1>5. PICK said : said = IF req[t].routed /\ via # "error" THEN "routed" ELSE via
    OBVIOUS
  <1>6. PICK reply : reply = [via |-> said, cost |-> cost, by |-> by, paid |-> paid]
    OBVIOUS
  <1>7. replied' = [replied EXCEPT ![t] = reply]
    BY <1>1, <1>5, <1>6 DEF Respond
  <1>8. reply.cost = cost /\ reply.paid = cost /\ reply.by = by
    BY <1>4, <1>6
  <1>9. DOMAIN replied' = Caller /\ \A u \in Caller : replied'[u] \in {replied[u], reply}
    BY <1>7 DEF ReplyInv
  <1>10. QED
    BY <1>8, <1>9 DEF ReplyInv, ReplyStatesTheCharge

(* A reply that nothing was taken for.                                     *)
LEMMA RespondFree ==
  ASSUME CoreInv, ReplyInv, NEW t \in Caller, NEW via,
         Respond(t, via, 0, "nobody"), \A u \in Subject : spent'[u] = spent[u]
  PROVE  ReplyInv'
  <1>1. req[t].subject \in Subject
    BY OneRequest DEF CoreInv
  <1>2. spent[req[t].subject] \in Nat
    BY <1>1 DEF CoreInv, LedgerInv, LedgerType
  <1>3. spent'[req[t].subject] = spent[req[t].subject] + 0
    BY <1>1, <1>2
  <1>4. QED
    BY <1>3, RespondStates

(* Every step keeps the promise of the replies.                            *)
LEMMA ReplyStep ==
  ASSUME CoreInv, ReplyInv, [CallsNext]_callsVars
  PROVE  ReplyInv'
  <1>1. replied' = replied => ReplyInv'
    BY DEF ReplyInv, ReplyStatesTheCharge
  <1>2. UNCHANGED money => \A u \in Subject : spent'[u] = spent[u]
    BY DEF money
  <1>3. ASSUME NEW t \in Caller, NEW s \in Subject, NEW e \in Endpoint, StartCall(t, s, e)
        PROVE  ReplyInv'
    <2>1. replied' = [replied EXCEPT ![t] = NoReply]
      BY <1>3 DEF StartCall
    <2>2. DOMAIN replied' = Caller /\ \A u \in Caller : replied'[u] \in {replied[u], NoReply}
      BY <2>1 DEF ReplyInv
    <2>3. QED
      BY <2>2 DEF ReplyInv, ReplyStatesTheCharge
  <1>4. ASSUME NEW t \in Caller, Work(t) \/ HangUp(t) PROVE ReplyInv'
    <2>1. CASE UpstreamServed(t)
      <3>1. PICK meter, via, by :
               /\ meter = Meter(req[t].endpoint, req[t].via)
               /\ via = (IF req[t].relay THEN "overflow" ELSE req[t].via)
               /\ by = (IF req[t].relay THEN "relay" ELSE req[t].via)
        OBVIOUS
      <3>2. Respond(t, via, meter, by)
        BY <2>1, <3>1 DEF UpstreamServed
      <3>3. /\ meter \in Nat /\ spent'[req[t].subject] = spent[req[t].subject] + meter
            /\ meter > 0 => req[t].via = "platform"
        BY <2>1, <3>1, ServedCharge
      <3>4. by \in {"platform", "relay"} \/ meter = 0
        BY <3>1, <3>3
      <3>5. QED
        BY <3>2, <3>3, <3>4, RespondStates
    <2>2. CASE NotServed(t)
      <3>1. \A u \in Subject : spent'[u] = spent[u]
        BY <2>2, NotServedMoves DEF CoreInv
      <3>2. replied' = replied \/ \E via : Respond(t, via, 0, "nobody")
        BY <2>2 DEF NotServed, GoOn
      <3>3. QED
        BY <1>1, <3>1, <3>2, RespondFree
    <2>3. CASE Refuse(t) \/ Ladder(t) \/ Overflow(t)
      <3>1. \A u \in Subject : spent'[u] = spent[u]
        BY <1>2, <2>3 DEF Refuse, Ladder, Overflow
      <3>2. replied' = replied \/ \E via : Respond(t, via, 0, "nobody")
        BY <2>3 DEF Refuse, Ladder, Overflow, GoOn
      <3>3. QED
        BY <1>1, <3>1, <3>2, RespondFree
    <2>4. CASE ReserveCost(t)
      <3>1. \/ replied' = replied
            \/ UNCHANGED money /\ Respond(t, "error", 0, "nobody")
        BY <2>4 DEF ReserveCost, GoOn
      <3>2. QED
        BY <1>1, <1>2, <3>1, RespondFree
    <2>5. CASE RouteToChild(t) \/ Signup(t) \/ CreditTopup(t) \/ HangUp(t)
      BY <1>1, <2>5 DEF RouteToChild, Signup, CreditTopup, HangUp, GoOn
    <2>6. QED
      BY <1>4, <2>1, <2>2, <2>3, <2>4, <2>5 DEF Work
  <1>5. ASSUME NEW s \in Subject, Balance(s) PROVE replied' = replied
    BY <1>5 DEF Balance
  <1>6. ASSUME NEW s \in Subject, NEW m \in Amounts, CreateTopup(s, m) PROVE replied' = replied
    BY <1>6 DEF CreateTopup
  <1>7. ASSUME NEW t \in Caller, NEW s \in Subject, NEW m \in Amounts, StartTopup(t, s, m)
        PROVE  replied' = replied
    BY <1>7 DEF StartTopup, GoOn
  <1>8. ASSUME NEW t \in Caller, NEW intent \in pending, StartConfirm(t, intent)
        PROVE  replied' = replied
    BY <1>8 DEF StartConfirm, GoOn
  <1>9. ASSUME NEW p \in Provider,
               RegisterTeamTool(p) \/ RegisterOverflowRelay(p) \/ SaveConnection(p)
        PROVE  replied' = replied
    BY <1>9 DEF RegisterTeamTool, RegisterOverflowRelay, SaveConnection
  <1>10. ASSUME NEW b \in BOOLEAN, SetOverflowOptOut(b) PROVE replied' = replied
    BY <1>10 DEF SetOverflowOptOut
  <1>11. UNCHANGED callsVars => replied' = replied
    BY DEF callsVars
  <1>12. QED
    BY <1>1, <1>3, <1>4, <1>5, <1>6, <1>7, <1>8, <1>9, <1>10, <1>11 DEF CallsNext

(* A reply's cost is what the ledger took for that call, over the first    *)
(* attempt and the relay together, and nothing for anybody's own key.      *)
THEOREM RepliesStateCharges == CallsSpec => []ReplyStatesTheCharge
  <1>1. CallsInit => ReplyInv
    BY DEF CallsInit, ReplyInv, ReplyStatesTheCharge
  <1>2. ReplyInv => ReplyStatesTheCharge
    BY DEF ReplyInv
  <1>3. QED
    BY <1>1, <1>2, CoreStart, CoreStep, ReplyStep, PTL DEF CallsSpec

-----------------------------------------------------------------------------
(* The calls implement the prepaid account *)

Credits(s, m) == credited' = [credited EXCEPT ![s] = @ + m] /\ UNCHANGED <<spent, served>>

Charges(s, e) == /\ spent' = [spent EXCEPT ![s] = @ + Catalog[e].cost]
                 /\ served' = [served EXCEPT ![s][e] = @ + 1]
                 /\ UNCHANGED credited

(* What one step does to the credits, the charges and the answers.         *)
LEMMA WhatAStepBooks ==
  ASSUME CoreInv, [CallsNext]_callsVars
  PROVE  \/ UNCHANGED <<credited, spent, served>>
         \/ \E s \in Subject, m \in Nat : Credits(s, m)
         \/ \E s \in Subject, e \in Priced : Charges(s, e)
  <1>0. /\ CoreInv' /\ spent \in [Subject -> Nat] /\ spent' \in [Subject -> Nat]
        /\ SignupGrant \in Nat
    BY CoreStep, MoneyAssumption DEF CoreInv, LedgerInv, LedgerType
  <1>1. ASSUME NEW t \in Caller, UpstreamServed(t)
        PROVE  \/ UNCHANGED <<credited, spent, served>>
               \/ \E s \in Subject, e \in Priced : Charges(s, e)
    <2>1. PICK s, e, meter : /\ s = req[t].subject /\ e = req[t].endpoint
                             /\ meter = Meter(req[t].endpoint, req[t].via)
      OBVIOUS
    <2>2. s \in Subject /\ e \in Endpoint
      BY <2>1, OneRequest DEF CoreInv
    <2>3. /\ meter \in Nat /\ spent'[s] = spent[s] + meter
          /\ \A u \in Subject : u # s => spent'[u] = spent[u]
          /\ meter > 0 => Catalog[e].cost = meter
      BY <1>1, <2>1, ServedCharge
    <2>4. /\ credited' = credited
          /\ served' = IF meter > 0 THEN [served EXCEPT ![s][e] = @ + 1] ELSE served
      BY <1>1, <2>1 DEF UpstreamServed, Settle, money
    <2>5. CASE meter > 0
      <3>1. spent' = [spent EXCEPT ![s] = @ + meter]
        BY <1>0, <2>2, <2>3
      <3>2. e \in Priced
        BY <2>1, <2>2, <2>3, <2>5, MeterType DEF Priced
      <3>3. Charges(s, e)
        BY <2>3, <2>4, <2>5, <3>1 DEF Charges
      <3>4. QED
        BY <2>2, <3>2, <3>3
    <2>6. CASE meter = 0
      <3>1. \A u \in Subject : spent'[u] = spent[u]
        BY <1>0, <2>2, <2>3, <2>6
      <3>2. spent' = spent
        BY <1>0, <3>1
      <3>3. QED
        BY <2>4, <2>6, <3>2
    <2>7. QED
      BY <2>3, <2>5, <2>6
  <1>2. ASSUME NEW t \in Caller, NotServed(t)
        PROVE  UNCHANGED <<credited, spent, served>>
    <2>1. \A u \in Subject : spent'[u] = spent[u]
      BY <1>2, NotServedMoves DEF CoreInv
    <2>2. spent' = spent
      BY <1>0, <2>1
    <2>3. UNCHANGED <<credited, served>>
      BY <1>2 DEF NotServed, Release, Settle, money
    <2>4. QED
      BY <2>2, <2>3
  <1>3. ASSUME NEW s \in Subject, EnsureSignupGrant(s), served' = served
        PROVE  \E m \in Nat : Credits(s, m)
    <2>1. PICK m \in Nat : m = IF s \in granted THEN 0 ELSE SignupGrant
      BY <1>0
    <2>2. credited' = [credited EXCEPT ![s] = @ + m] /\ spent' = spent
      BY <1>3, <2>1, GrantsOnce DEF CoreInv
    <2>3. QED
      BY <1>3, <2>2 DEF Credits
  <1>4. ASSUME NEW t \in Caller, Signup(t)
        PROVE  \E s \in Subject, m \in Nat : Credits(s, m)
    BY <1>3, <1>4, OneRequest DEF Signup, CoreInv
  <1>5. ASSUME NEW t \in Caller, CreditTopup(t)
        PROVE  \E s \in Subject, m \in Nat : Credits(s, m)
    BY <1>5, OneRequest DEF CreditTopup, Grant, Credits, CoreInv
  <1>6. ASSUME NEW t \in Caller,
               \/ RouteToChild(t) \/ Refuse(t) \/ Ladder(t) \/ ReserveCost(t)
               \/ Overflow(t) \/ HangUp(t)
        PROVE  UNCHANGED <<credited, spent, served>>
    BY <1>6 DEF RouteToChild, Refuse, Ladder, ReserveCost, Overflow, HangUp, Reserve, money
  <1>7. ASSUME NEW s \in Subject, Balance(s)
        PROVE  \E m \in Nat : Credits(s, m)
    BY <1>3, <1>7 DEF Balance
  <1>8. ASSUME \/ \E t \in Caller, s \in Subject, e \in Endpoint : StartCall(t, s, e)
               \/ \E s \in Subject, m \in Amounts : CreateTopup(s, m)
               \/ \E t \in Caller, s \in Subject, m \in Amounts : StartTopup(t, s, m)
               \/ \E t \in Caller : \E intent \in pending : StartConfirm(t, intent)
               \/ \E p \in Provider : RegisterTeamTool(p) \/ RegisterOverflowRelay(p)
                                        \/ SaveConnection(p)
               \/ \E b \in BOOLEAN : SetOverflowOptOut(b)
               \/ UNCHANGED callsVars
        PROVE  UNCHANGED <<credited, spent, served>>
    BY <1>8 DEF StartCall, CreateTopup, StartTopup, StartConfirm, RegisterTeamTool,
                RegisterOverflowRelay, SaveConnection, SetOverflowOptOut, callsVars, money
  <1>9. QED
    BY <1>1, <1>2, <1>4, <1>5, <1>6, <1>7, <1>8 DEF CallsNext, Work

(* Funds are what was credited and not charged.                            *)
FundsOK == \A s \in Subject : /\ Funds[s] = credited[s] - spent[s]
                              /\ Funds[s] >= 0
                              /\ credited[s] \in Nat /\ spent[s] \in Nat

(* So they are while credits fit an i64.                                   *)
LEMMA FundsAreCreditsLessCharges ==
  ASSUME SignupGrant + MaxOrdered <= MaxI64
  PROVE  CoreInv /\ FlowInv => FundsOK
  <1> SUFFICES ASSUME CoreInv, FlowInv, NEW s \in Subject
               PROVE  /\ Funds[s] = credited[s] - spent[s]
                      /\ Funds[s] >= 0
                      /\ credited[s] \in Nat /\ spent[s] \in Nat
    BY DEF FundsOK
  <1>1. Books(s) /\ balance[s] \in Int /\ spent[s] \in Nat /\ held[s] \in Nat
    BY TotalType DEF CoreInv, LedgerInv, LedgerType, Books
  <1>2. /\ credited[s] + Waiting(pending, s) + Flying(req, s) = Given(s) + ordered[s]
        /\ ordered[s] <= MaxOrdered
        /\ credited[s] \in Nat /\ ordered[s] \in Nat /\ Given(s) \in Nat
        /\ Waiting(pending, s) \in Nat /\ Flying(req, s) \in Nat
    BY FlowTypes DEF FlowInv
  <1>3. Given(s) <= SignupGrant /\ SignupGrant \in Nat /\ MaxOrdered \in Nat /\ MaxI64 \in Nat
    BY MoneyAssumption, CatalogAssumption DEF Given
  <1>4. credited[s] <= MaxI64
    BY <1>2, <1>3
  <1>5. balance[s] >= 0 /\ balance[s] + held[s] + spent[s] = credited[s]
    BY <1>1, <1>4 DEF Books
  <1>6. Funds[s] = balance[s] + held[s]
    BY DEF Funds
  <1>7. QED
    BY <1>1, <1>2, <1>5, <1>6

(* A step of the calls is a credit, a delivered answer at its price or a   *)
(* stutter of the prepaid account.                                         *)
LEMMA StepsMapToAccount ==
  ASSUME CoreInv, FundsOK, FundsOK', [CallsNext]_callsVars
  PROVE  [Account!Next]_<<Funds, PricedServed>>
  <1>1. \A s \in Subject : /\ Funds[s] = credited[s] - spent[s] /\ Funds[s] >= 0
                           /\ credited[s] \in Nat /\ spent[s] \in Nat
    BY DEF FundsOK
  <1>2. \A s \in Subject : /\ Funds'[s] = credited'[s] - spent'[s] /\ Funds'[s] >= 0
                           /\ credited'[s] \in Nat /\ spent'[s] \in Nat
    BY DEF FundsOK
  <1>3. Funds = [s \in Subject |-> Funds[s]] /\ Funds' = [s \in Subject |-> Funds'[s]]
    BY DEF Funds
  <1>4. credited \in [Subject -> Nat] /\ spent \in [Subject -> Nat]
    BY DEF CoreInv, LedgerInv, LedgerType
  <1>5. CASE UNCHANGED <<credited, spent, served>>
    <2>1. PricedServed' = PricedServed
      BY <1>5 DEF PricedServed
    <2>2. Funds' = Funds
      BY <1>1, <1>2, <1>3, <1>5
    <2>3. QED
      BY <2>1, <2>2
  <1>6. ASSUME NEW s \in Subject, NEW m \in Nat, Credits(s, m)
        PROVE  [Account!Next]_<<Funds, PricedServed>>
    <2>1. PricedServed' = PricedServed
      BY <1>6 DEF PricedServed, Credits
    <2>2. /\ Funds'[s] = Funds[s] + m
          /\ \A u \in Subject : u # s => Funds'[u] = Funds[u]
      BY <1>1, <1>2, <1>4, <1>6 DEF Credits
    <2>3. CASE m = 0
      <3>1. \A u \in Subject : Funds'[u] = Funds[u]
        BY <1>1, <2>2, <2>3
      <3>2. Funds' = Funds
        BY <1>3, <3>1
      <3>3. QED
        BY <2>1, <3>2
    <2>4. CASE m > 0
      <3>1. Funds'[s] > Funds[s]
        BY <1>1, <2>2, <2>4
      <3>2. Funds' = [Funds EXCEPT ![s] = Funds'[s]]
        BY <1>3, <2>2
      <3>3. Account!Credit(s)
        BY <2>1, <3>1, <3>2 DEF Account!Credit
      <3>4. QED
        BY <3>3 DEF Account!Next
    <2>5. QED
      BY <2>3, <2>4
  <1>7. ASSUME NEW s \in Subject, NEW e \in Priced, Charges(s, e)
        PROVE  [Account!Next]_<<Funds, PricedServed>>
    <2>1. PICK price, Prices : /\ price = Catalog[e].cost
                               /\ Prices = [x \in Priced |-> Catalog[x].cost]
      OBVIOUS
    <2>2. price \in Nat /\ Prices[e] = price /\ e \in Endpoint
      BY <2>1, MoneyAssumption DEF Priced
    <2>3. /\ Funds'[s] = Funds[s] - price
          /\ \A u \in Subject : u # s => Funds'[u] = Funds[u]
      BY <1>1, <1>2, <1>4, <1>7, <2>1, <2>2 DEF Charges
    <2>4. Funds[s] >= price
      BY <1>1, <1>2, <2>2, <2>3
    <2>5. Funds' = [Funds EXCEPT ![s] = @ - price]
      BY <1>3, <2>3
    <2>6. PricedServed' = [PricedServed EXCEPT ![s][e] = @ + 1]
      <3>1. served' = [served EXCEPT ![s][e] = @ + 1] /\ served \in [Subject -> [Endpoint -> Nat]]
        BY <1>7 DEF Charges, CoreInv, RestInv
      <3>2. \A u \in Subject, x \in Priced :
                 served'[u][x] = IF u = s /\ x = e THEN served[s][e] + 1 ELSE served[u][x]
        BY <2>2, <3>1 DEF Priced
      <3>3. PricedServed' = [u \in Subject |-> [x \in Priced |->
                 IF u = s /\ x = e THEN served[s][e] + 1 ELSE served[u][x]]]
        BY <3>2 DEF PricedServed
      <3>4. PICK P : P = PricedServed
        OBVIOUS
      <3>5. P = [u \in Subject |-> [x \in Priced |-> served[u][x]]]
        BY <3>4 DEF PricedServed
      <3>6. [P EXCEPT ![s][e] = @ + 1] = [u \in Subject |-> [x \in Priced |->
                 IF u = s /\ x = e THEN served[s][e] + 1 ELSE served[u][x]]]
        <4>1. PICK p : p = [P[s] EXCEPT ![e] = @ + 1]
          OBVIOUS
        <4>2. [P EXCEPT ![s][e] = @ + 1] = [P EXCEPT ![s] = p]
          BY <4>1
        <4>3. p = [x \in Priced |-> IF x = e THEN served[s][e] + 1 ELSE served[s][x]]
          BY <3>5, <4>1
        <4>4. [P EXCEPT ![s] = p] = [u \in Subject |-> IF u = s THEN p ELSE P[u]]
          BY <3>5
        <4>5. \A u \in Subject : (IF u = s THEN p ELSE P[u]) = [x \in Priced |->
                 IF u = s /\ x = e THEN served[s][e] + 1 ELSE served[u][x]]
          BY <3>5, <4>3
        <4>6. QED
          BY <4>2, <4>4, <4>5
      <3>7. QED
        BY <3>3, <3>4, <3>6
    <2>7. Account!Serve(s, e)
      BY <2>1, <2>2, <2>4, <2>5, <2>6 DEF Account!Serve
    <2>8. QED
      BY <2>7 DEF Account!Next
  <1>8. QED
    BY <1>5, <1>6, <1>7, WhatAStepBooks

(* The calls start as an empty prepaid account.                            *)
LEMMA StartsMapToAccount == CallsInit => Account!Init
  <1> SUFFICES ASSUME CallsInit PROVE Account!Init
    OBVIOUS
  <1>1. Funds = [s \in Subject |-> 0]
    BY DEF CallsInit, LedgerInit, Funds
  <1>2. PricedServed = [s \in Subject |-> [e \in Priced |-> 0]]
    <2>1. \A s \in Subject, e \in Priced : served[s][e] = 0
      BY DEF CallsInit, Priced
    <2>2. QED
      BY <2>1 DEF PricedServed
  <1>3. QED
    BY <1>1, <1>2 DEF Account!Init

(* As long as what a subject may be credited fits an i64, priced calls,    *)
(* retries, hang-ups and top-ups implement the prepaid account: the only   *)
(* step that takes funds delivers one answer for its published price.      *)
THEOREM CallsImplementPrepaid ==
  ASSUME SignupGrant + MaxOrdered <= MaxI64
  PROVE  CallsSpec => ImplementsPrepaid
  <1>1. CoreInv /\ FlowInv => FundsOK
    BY FundsAreCreditsLessCharges
  <1>2. CoreInv /\ FundsOK /\ FundsOK' /\ [CallsNext]_callsVars
          => [Account!Next]_<<Funds, PricedServed>>
    BY StepsMapToAccount
  <1>3. QED
    BY <1>1, <1>2, StartsMapToAccount, MoneyFlows, PTL
       DEF CallsSpec, ImplementsPrepaid, Account!Spec

=============================================================================
