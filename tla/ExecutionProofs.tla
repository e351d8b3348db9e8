--------------------------- MODULE ExecutionProofs ---------------------------
(***************************************************************************)
(* Proofs about Execution for every set of tasks, ids and keys, every      *)
(* permit count and poll budget, and both catalog stores.                  *)
(***************************************************************************)
EXTENDS Execution, FiniteSetTheorems, TLAPS

USE DEF table, rules, history

-----------------------------------------------------------------------------
(* Type correctness *)

HasKey == {"replay", "claim", "winner", "markRunning"}
HasId  == {"claim", "winner", "markRunning", "gate", "session", "dispatch",
           "pause", "lookup", "invoking", "persist", "take", "delete",
           "remember", "rememberPolicy", "resolve"}

(* What a task's locals hold when it is at a point of its handler. *)
PointOK(point, l, keys) ==
    /\ point \in HasKey => l.key \in Key
    /\ point \in HasId => l.id \in Id
    /\ point = "winner" => keys[l.key] \in Id
    /\ point = "join" => l.target \in Id /\ l.polls < MaxPolls
    /\ point = "persist" => l.outcome \in {"paused", "completed"}

LocalsOK == \A t \in Task : PointOK(pc[t], loc[t], idem)

TypeInv == TypeOK /\ LocalsOK

(* The part of TypeOK that is not about a task's own state. *)
StoreTypes ==
    /\ rows \in [Id -> RowStates]
    /\ idem \in [Key -> Id \cup {NoId}]
    /\ session \in BOOLEAN
    /\ policy \in Actions
    /\ late \subseteq LateOps
    /\ minted \subseteq Id
    /\ known \subseteq Id
    /\ crashes \in Nat
    /\ runs \in [Id -> Nat]
    /\ answers \in [Key -> Nat]
    /\ takes \in [Id -> Nat]
    /\ declined \subseteq Id
    /\ promised \in [Id -> {"none", "paused", "completed"}]

(* put_idempotency never takes a key away from its first writer. *)
KeysKept == \A k \in Key : idem[k] \in Id => idem'[k] = idem[k]

(* The locals of a returned call are well typed and hold no id.            *)
LEMMA NoLocalsType == NoLocals \in Locals /\ NoLocals.id = NoId
  BY BoundsAssumption DEF NoLocals, Locals, RowStates

(* Counting one more event (a run, an answer, a take) keeps a counter map  *)
(* typed.                                                                  *)
LEMMA IncrementType ==
  ASSUME NEW S, NEW f \in [S -> Nat], NEW x
  PROVE  [f EXCEPT ![x] = @ + 1] \in [S -> Nat]
  <1> DEFINE g == [f EXCEPT ![x] = @ + 1]
  <1>1. g = [s \in S |-> IF s = x THEN f[x] + 1 ELSE f[s]]
    OBVIOUS
  <1>2. ASSUME NEW s \in S PROVE (IF s = x THEN f[x] + 1 ELSE f[s]) \in Nat
    <2>1. CASE s = x
      <3>1. f[x] \in Nat
        BY <2>1
      <3>2. QED
        BY <2>1, <3>1
    <2>2. CASE s # x
      BY <2>2
    <2>3. QED
      BY <2>1, <2>2
  <1>3. QED
    BY <1>1, <1>2

(* The type invariant holds before the first call.                         *)
LEMMA InitTypeInv == Init => TypeInv
  <1> SUFFICES ASSUME Init PROVE TypeInv
    OBVIOUS
  <1>1. TypeOK
    BY NoLocalsType, BoundsAssumption, ValuesAssumption
    DEF Init, TypeOK, PCs, RowStates, Actions, Facts
  <1>2. LocalsOK
    BY DEF Init, LocalsOK, PointOK, HasKey, HasId
  <1>3. QED
    BY <1>1, <1>2 DEF TypeInv

(* What moving one task does to pc and loc. *)
Moved(t, point, l) ==
    /\ pc' = [pc EXCEPT ![t] = point]
    /\ loc' = [loc EXCEPT ![t] = l]

(* A step that moves one task to a point whose needs its new locals meet.  *)
LEMMA MoveTypeInv ==
  ASSUME TypeInv, NEW t \in Task, NEW point \in PCs, NEW l \in Locals,
         Moved(t, point, l), PointOK(point, l, idem'), KeysKept, StoreTypes',
         permits' \in Nat, seen' \in [Task -> SUBSET Facts]
  PROVE  TypeInv'
  <1>1. TypeOK'
    BY DEF TypeInv, TypeOK, StoreTypes, Moved
  <1>2. ASSUME NEW s \in Task PROVE PointOK(pc'[s], loc'[s], idem')
    <2>1. CASE s = t
      BY <2>1 DEF TypeInv, TypeOK, Moved
    <2>2. CASE s # t
      BY <2>2 DEF TypeInv, TypeOK, LocalsOK, Moved, PointOK, KeysKept, HasKey
    <2>3. QED
      BY <2>1, <2>2
  <1>3. QED
    BY <1>1, <1>2 DEF TypeInv, LocalsOK

(* Going on inside a handler keeps the type invariant.                     *)
LEMMA GotoTypeInv ==
  ASSUME TypeInv, NEW t \in Task, NEW point \in PCs, NEW l \in Locals,
         Goto(t, point, l), PointOK(point, l, idem'), KeysKept, StoreTypes'
  PROVE  TypeInv'
  BY MoveTypeInv DEF Goto, Moved, TypeInv, TypeOK

(* Dropping the permit and returning keeps the type invariant.             *)
LEMMA ReturnTypeInv ==
  ASSUME TypeInv, NEW t \in Task, Return(t), KeysKept, StoreTypes'
  PROVE  TypeInv'
  <1>1. PointOK("idle", NoLocals, idem') /\ "idle" \in PCs
    BY DEF PointOK, HasKey, HasId, PCs
  <1>2. Moved(t, "idle", NoLocals)
    BY DEF Return, Moved
  <1>3. permits' \in Nat /\ seen' \in [Task -> SUBSET Facts]
    BY DEF Return, TypeInv, TypeOK
  <1>4. QED
    BY <1>1, <1>2, <1>3, MoveTypeInv, NoLocalsType

(* Taking a permit and entering a handler keeps the type invariant.        *)
LEMMA AdmitTypeInv ==
  ASSUME TypeInv, NEW t \in Task, NEW point \in PCs, NEW l \in Locals,
         Admit(t, l, point), PointOK(point, l, idem'), KeysKept, StoreTypes'
  PROVE  TypeInv'
  <1>1. Moved(t, point, l)
    BY DEF Admit, Moved
  <1>2. permits' \in Nat
    BY DEF Admit, TypeInv, TypeOK
  <1>3. FactsOf(policy, session) \in SUBSET Facts
    BY DEF FactsOf, Facts
  <1>4. seen' \in [Task -> SUBSET Facts]
    BY <1>3 DEF Admit, TypeInv, TypeOK
  <1>5. QED
    BY <1>1, <1>2, <1>4, MoveTypeInv

-----------------------------------------------------------------------------
(* What TypeInv says of one task.                                          *)
LEMMA LocalTypes ==
  ASSUME TypeInv, NEW t \in Task
  PROVE  loc[t] \in Locals /\ pc[t] \in PCs /\ PointOK(pc[t], loc[t], idem)
  BY DEF TypeInv, TypeOK, LocalsOK

(* Entering execute keeps the type invariant.                              *)
LEMMA StartExecuteTypeInv ==
  ASSUME TypeInv, NEW t \in Task, NEW k \in Key \cup {NoKey},
         NEW yes \in BOOLEAN, StartExecute(t, k, yes)
  PROVE  TypeInv'
  <1> DEFINE l == [NoLocals EXCEPT !.kind = "execute", !.key = k, !.yes = yes]
             point == IF k = NoKey THEN "mint" ELSE "replay"
  <1>1. l \in Locals /\ l.key = k
    BY NoLocalsType DEF Locals
  <1>2. point \in PCs /\ (point = "replay" => k \in Key) /\ point \in {"mint", "replay"}
    BY DEF PCs
  <1>3. Admit(t, l, point) /\ KeysKept /\ StoreTypes'
    BY DEF StartExecute, TypeInv, TypeOK, StoreTypes, KeysKept
  <1> HIDE DEF l, point
  <1>4. PointOK(point, l, idem')
    BY <1>1, <1>2 DEF PointOK, HasKey, HasId
  <1>5. QED
    BY <1>1, <1>2, <1>3, <1>4, AdmitTypeInv

(* Entering resume keeps the type invariant.                               *)
LEMMA StartResumeTypeInv ==
  ASSUME TypeInv, NEW t \in Task, NEW i \in Id, NEW a \in {"accept", "decline"},
         NEW c \in Choices, StartResume(t, i, a, c)
  PROVE  TypeInv'
  <1> DEFINE l == [NoLocals EXCEPT !.kind = "resume", !.id = i,
                                   !.action = a, !.choice = c]
  <1>1. l \in Locals /\ l.id = i
    BY NoLocalsType, ValuesAssumption DEF Locals
  <1>2. Admit(t, l, "take") /\ KeysKept /\ StoreTypes'
    BY DEF StartResume, TypeInv, TypeOK, StoreTypes, KeysKept
  <1> HIDE DEF l
  <1>3. PointOK("take", l, idem') /\ "take" \in PCs
    BY <1>1 DEF PointOK, HasKey, HasId, PCs
  <1>4. QED
    BY <1>1, <1>2, <1>3, AdmitTypeInv

(* Both ways into outcome_from_execution: poll the id the key belongs to.  *)
LEMMA StartJoinTypeInv ==
  ASSUME TypeInv, NEW t \in Task, NEW first \in Id,
         Goto(t, "join", [loc[t] EXCEPT !.target = first, !.polls = 0]),
         KeysKept, StoreTypes'
  PROVE  TypeInv'
  <1> DEFINE l == [loc[t] EXCEPT !.target = first, !.polls = 0]
  <1>1. 0 \in 0..MaxPolls /\ 0 < MaxPolls
    BY BoundsAssumption
  <1>2. l \in Locals /\ l.target = first /\ l.polls = 0
    BY <1>1, LocalTypes DEF Locals
  <1>3. Goto(t, "join", l) /\ "join" \in PCs
    BY DEF PCs
  <1> HIDE DEF l
  <1>4. PointOK("join", l, idem')
    BY <1>1, <1>2 DEF PointOK, HasKey, HasId
  <1>5. QED
    BY <1>2, <1>3, <1>4, GotoTypeInv

(* replay_idempotent keeps the type invariant.                             *)
LEMMA ReplayTypeInv ==
  ASSUME TypeInv, NEW t \in Task, Replay(t)
  PROVE  TypeInv'
  <1> DEFINE first == idem[loc[t].key]
  <1>1. first \in Id \cup {NoId}
    BY LocalTypes DEF Replay, PointOK, HasKey, TypeInv, TypeOK
  <1>2. KeysKept /\ StoreTypes'
    BY DEF Replay, TypeInv, TypeOK, StoreTypes, KeysKept
  <1>3. CASE first = NoId
    <2>1. Goto(t, "mint", loc[t]) /\ "mint" \in PCs
      BY <1>3 DEF Replay, PCs
    <2>2. PointOK("mint", loc[t], idem')
      BY DEF PointOK, HasKey, HasId
    <2>3. QED
      BY <1>2, <2>1, <2>2, LocalTypes, GotoTypeInv
  <1>4. CASE first # NoId
    <2>1. Goto(t, "join", [loc[t] EXCEPT !.target = first, !.polls = 0])
      BY <1>4 DEF Replay
    <2> HIDE DEF first
    <2>2. QED
      BY <1>1, <1>2, <1>4, <2>1, StartJoinTypeInv
  <1>5. QED
    BY <1>3, <1>4

(* Reading the winner of a claim keeps the type invariant.                 *)
LEMMA ReadWinnerTypeInv ==
  ASSUME TypeInv, NEW t \in Task, ReadWinner(t)
  PROVE  TypeInv'
  <1> DEFINE winner == idem[loc[t].key]
  <1>1. winner \in Id /\ loc[t].key \in Key /\ loc[t].id \in Id
    BY LocalTypes DEF ReadWinner, PointOK, HasKey, HasId
  <1>2. KeysKept /\ StoreTypes'
    BY DEF ReadWinner, TypeInv, TypeOK, StoreTypes, KeysKept
  <1>3. CASE Goto(t, "markRunning", loc[t])
    <2>1. PointOK("markRunning", loc[t], idem') /\ "markRunning" \in PCs
      BY <1>1 DEF PointOK, HasKey, HasId, PCs
    <2>2. QED
      BY <1>2, <1>3, <2>1, LocalTypes, GotoTypeInv
  <1>4. CASE Goto(t, "join", [loc[t] EXCEPT !.target = winner, !.polls = 0])
    <2> HIDE DEF winner
    <2>1. QED
      BY <1>1, <1>2, <1>4, StartJoinTypeInv
  <1>5. QED
    BY <1>3, <1>4 DEF ReadWinner

(* put_idempotency keeps the type invariant: its key has an owner          *)
(* afterwards.                                                             *)
LEMMA ClaimTypeInv ==
  ASSUME TypeInv, NEW t \in Task, Claim(t)
  PROVE  TypeInv'
  <1>1. loc[t].key \in Key /\ loc[t].id \in Id
    BY LocalTypes DEF Claim, PointOK, HasKey, HasId
  <1>2. KeysKept /\ StoreTypes' /\ idem'[loc[t].key] \in Id
    BY <1>1, ValuesAssumption
    DEF Claim, PutIdempotency, TypeInv, TypeOK, StoreTypes, KeysKept
  <1>3. PointOK("winner", loc[t], idem') /\ "winner" \in PCs
    BY <1>1, <1>2 DEF PointOK, HasKey, HasId, PCs
  <1>4. QED
    BY <1>2, <1>3, LocalTypes, GotoTypeInv DEF Claim

(* From the gate on only the task's id matters: steps that go on with the  *)
(* same id.                                                                *)
PastGate == {"gate", "session", "dispatch", "pause", "lookup", "invoking",
             "delete"}

(* Points past the first gate only need an id, which the task keeps.       *)
LEMMA GoOnTypeInv ==
  ASSUME TypeInv, NEW t \in Task, pc[t] \in HasId, NEW point \in PastGate,
         NEW l \in Locals, l.id = loc[t].id, Goto(t, point, l), KeysKept, StoreTypes'
  PROVE  TypeInv'
  <1>1. loc[t].id \in Id
    BY LocalTypes DEF PointOK
  <1>2. point \in PCs /\ PointOK(point, l, idem')
    BY <1>1 DEF PastGate, PCs, PointOK, HasKey, HasId
  <1>3. QED
    BY <1>2, GotoTypeInv

(* Writing the running row keeps the type invariant.                       *)
LEMMA MarkRunningTypeInv ==
  ASSUME TypeInv, NEW t \in Task, MarkRunning(t)
  PROVE  TypeInv'
  <1>1. KeysKept /\ StoreTypes' /\ Goto(t, "gate", loc[t])
    BY DEF MarkRunning, TypeInv, TypeOK, StoreTypes, KeysKept, RowStates
  <1>2. QED
    BY <1>1, LocalTypes, GoOnTypeInv DEF MarkRunning, PastGate, HasId

(* The first gate keeps the type invariant.                                *)
LEMMA GateTypeInv ==
  ASSUME TypeInv, NEW t \in Task, Gate(t)
  PROVE  TypeInv'
  <1>1. KeysKept /\ StoreTypes' /\ (Return(t) \/ Goto(t, "session", loc[t]))
    BY DEF Gate, TypeInv, TypeOK, StoreTypes, KeysKept
  <1>2. QED
    BY <1>1, LocalTypes, ReturnTypeInv, GoOnTypeInv DEF Gate, PastGate, HasId

(* Reading the session approval keeps the type invariant.                  *)
LEMMA ReadSessionTypeInv ==
  ASSUME TypeInv, NEW t \in Task, ReadSession(t)
  PROVE  TypeInv'
  <1> DEFINE l == [loc[t] EXCEPT !.auto = loc[t].yes \/ session]
  <1>1. l \in Locals /\ l.id = loc[t].id
    BY LocalTypes, ZenonT(60) DEF Locals
  <1>2. KeysKept /\ StoreTypes' /\ Goto(t, "dispatch", l)
    BY DEF ReadSession, TypeInv, TypeOK, StoreTypes, KeysKept
  <1> HIDE DEF l
  <1>3. QED
    BY <1>1, <1>2, GoOnTypeInv DEF ReadSession, PastGate, HasId

(* The gate of dispatch keeps the type invariant.                          *)
LEMMA DispatchTypeInv ==
  ASSUME TypeInv, NEW t \in Task, Dispatch(t)
  PROVE  TypeInv'
  <1>1. KeysKept /\ StoreTypes'
    BY DEF Dispatch, TypeInv, TypeOK, StoreTypes, KeysKept
  <1>2. Return(t) \/ Goto(t, "pause", loc[t]) \/ Goto(t, "lookup", loc[t])
    BY DEF Dispatch
  <1>3. QED
    BY <1>1, <1>2, LocalTypes, ReturnTypeInv, GoOnTypeInv
    DEF Dispatch, PastGate, HasId

(* pause_for_approval keeps the type invariant and sets the outcome.       *)
LEMMA PauseTypeInv ==
  ASSUME TypeInv, NEW t \in Task, Pause(t)
  PROVE  TypeInv'
  <1> DEFINE l == [loc[t] EXCEPT !.outcome = "paused"]
  <1>1. l \in Locals /\ l.id = loc[t].id /\ l.outcome = "paused"
    BY LocalTypes DEF Locals
  <1>2. KeysKept /\ StoreTypes' /\ Goto(t, "persist", l)
    BY DEF Pause, TypeInv, TypeOK, StoreTypes, KeysKept, RowStates
  <1> HIDE DEF l
  <1>3. loc[t].id \in Id /\ "persist" \in PCs
    BY LocalTypes DEF Pause, PointOK, HasId, PCs
  <1>4. PointOK("persist", l, idem')
    BY <1>1, <1>3 DEF PointOK, HasKey, HasId
  <1>5. QED
    BY <1>1, <1>2, <1>3, <1>4, GotoTypeInv

(* Sending the upstream call keeps the type invariant.                     *)
LEMMA InvokeTypeInv ==
  ASSUME TypeInv, NEW t \in Task, Invoke(t)
  PROVE  TypeInv'
  <1>1. runs' \in [Id -> Nat]
    BY IncrementType DEF Invoke, TypeInv, TypeOK
  <1>2. KeysKept /\ StoreTypes' /\ Goto(t, "invoking", loc[t])
    BY <1>1 DEF Invoke, TypeInv, TypeOK, StoreTypes, KeysKept
  <1>3. QED
    BY <1>2, LocalTypes, GoOnTypeInv DEF Invoke, PastGate, HasId

(* The SELECT of the SQLite take keeps the type invariant.                 *)
LEMMA TakeSelectTypeInv ==
  ASSUME TypeInv, NEW t \in Task, TakeSelect(t)
  PROVE  TypeInv'
  <1> DEFINE l == [loc[t] EXCEPT !.row = rows[loc[t].id]]
  <1>1. loc[t].id \in Id
    BY LocalTypes DEF TakeSelect, PointOK, HasId
  <1>2. rows[loc[t].id] \in RowStates
    BY <1>1 DEF TypeInv, TypeOK
  <1>3. l \in Locals /\ l.id = loc[t].id
    BY <1>2, LocalTypes DEF Locals
  <1>4. KeysKept /\ StoreTypes' /\ Goto(t, "delete", l)
    BY DEF TakeSelect, TypeInv, TypeOK, StoreTypes, KeysKept
  <1> HIDE DEF l
  <1>5. QED
    BY <1>3, <1>4, GoOnTypeInv DEF TakeSelect, PastGate, HasId

(* Resolving the path of a resumed call keeps the type invariant.          *)
LEMMA ResolveTypeInv ==
  ASSUME TypeInv, NEW t \in Task, Resolve(t)
  PROVE  TypeInv'
  <1>1. KeysKept /\ StoreTypes' /\ Goto(t, "dispatch", loc[t])
    BY DEF Resolve, TypeInv, TypeOK, StoreTypes, KeysKept
  <1>2. QED
    BY <1>1, LocalTypes, GoOnTypeInv DEF Resolve, PastGate, HasId

(* One poll of outcome_from_execution keeps the type invariant.            *)
LEMMA JoinTypeInv ==
  ASSUME TypeInv, NEW t \in Task, Join(t)
  PROVE  TypeInv'
  <1>1. /\ loc[t] \in Locals /\ loc[t].target \in Id /\ loc[t].polls < MaxPolls
        /\ loc[t].polls \in 0..MaxPolls /\ MaxPolls \in Nat
    BY LocalTypes, BoundsAssumption DEF Join, PointOK, Locals
  <1>2. CASE Return(t) /\ Reply(loc[t].target, rows[loc[t].target])
             /\ rows[loc[t].target] \in {"paused", "completed"}
    <2>1. KeysKept /\ StoreTypes'
      BY <1>1, <1>2 DEF Join, Reply, TypeInv, TypeOK, StoreTypes, KeysKept
    <2>2. QED
      BY <1>2, <2>1, ReturnTypeInv
  <1> DEFINE n == loc[t].polls + 1
             again == [loc[t] EXCEPT !.polls = n]
             late1 == [loc[t] EXCEPT !.polls = n, !.gaveUp = TRUE]
  <1>3. CASE /\ UNCHANGED <<known, promised>>
             /\ \/ n < MaxPolls /\ Goto(t, "join", again)
                \/ Goto(t, "mint", again)
                \/ loc[t].id # NoId /\ Goto(t, "gate", late1)
    <2>1. KeysKept /\ StoreTypes'
      BY <1>3 DEF Join, TypeInv, TypeOK, StoreTypes, KeysKept
    <2>2. n \in 0..MaxPolls
      BY <1>1
    <2>3. /\ again \in Locals /\ again.target \in Id /\ again.polls = n
          /\ late1 \in Locals /\ late1.id = loc[t].id
          /\ loc[t].id \in Id \cup {NoId}
      BY <1>1, <2>2 DEF Locals
    <2> HIDE DEF n, again, late1
    <2>4. "join" \in PCs /\ "mint" \in PCs /\ "gate" \in PCs
      BY DEF PCs
    <2>5. CASE n < MaxPolls /\ Goto(t, "join", again)
      <3>1. PointOK("join", again, idem')
        BY <2>3, <2>5 DEF PointOK, HasKey, HasId
      <3>2. QED
        BY <2>1, <2>3, <2>4, <2>5, <3>1, GotoTypeInv
    <2>6. CASE Goto(t, "mint", again)
      <3>1. PointOK("mint", again, idem')
        BY DEF PointOK, HasKey, HasId
      <3>2. QED
        BY <2>1, <2>3, <2>4, <2>6, <3>1, GotoTypeInv
    <2>7. CASE loc[t].id # NoId /\ Goto(t, "gate", late1)
      <3>1. PointOK("gate", late1, idem')
        BY <2>3, <2>7 DEF PointOK, HasKey, HasId
      <3>2. QED
        BY <2>1, <2>3, <2>4, <2>7, <3>1, GotoTypeInv
    <2>8. QED
      BY <1>3, <2>5, <2>6, <2>7
  <1>4. QED
    BY <1>2, <1>3 DEF Join

(* ExecutionId::mint keeps the type invariant.                             *)
LEMMA MintTypeInv ==
  ASSUME TypeInv, NEW t \in Task, Mint(t)
  PROVE  TypeInv'
  <1>1. loc[t] \in Locals /\ loc[t].key \in Key \cup {NoKey}
    BY LocalTypes DEF Locals
  <1>2. PICK i \in Id \ minted :
          /\ minted' = minted \cup {i}
          /\ Goto(t, IF loc[t].key = NoKey THEN "gate" ELSE "claim",
                  [loc[t] EXCEPT !.id = i])
    BY DEF Mint
  <1> DEFINE l == [loc[t] EXCEPT !.id = i]
             point == IF loc[t].key = NoKey THEN "gate" ELSE "claim"
  <1>3. l \in Locals /\ l.id = i /\ l.key = loc[t].key
    BY <1>1 DEF Locals
  <1>4. /\ Goto(t, point, l) /\ point \in PCs /\ point \in {"gate", "claim"}
        /\ point = "claim" => loc[t].key \in Key
    BY <1>1, <1>2 DEF PCs
  <1>5. KeysKept /\ StoreTypes'
    BY <1>2 DEF Mint, TypeInv, TypeOK, StoreTypes, KeysKept
  <1> HIDE DEF l, point
  <1>6. PointOK(point, l, idem')
    BY <1>3, <1>4 DEF PointOK, HasKey, HasId
  <1>7. QED
    BY <1>3, <1>4, <1>5, <1>6, GotoTypeInv

(* Finish, whatever else the step does to the histories. *)
LEMMA FinishTypeInv ==
  ASSUME TypeInv, NEW t \in Task, NEW out \in {"paused", "completed"},
         Finish(t, out), loc[t].id \in Id, KeysKept, StoreTypes'
  PROVE  TypeInv'
  <1> DEFINE l == [loc[t] EXCEPT !.outcome = out]
  <1>1. l \in Locals /\ l.id = loc[t].id /\ l.outcome = out
    BY LocalTypes DEF Locals
  <1>2. CASE Goto(t, "persist", l)
    <2>1. Goto(t, "persist", l) /\ "persist" \in PCs
      BY <1>2 DEF PCs
    <2> HIDE DEF l
    <2>2. PointOK("persist", l, idem')
      BY <1>1 DEF PointOK, HasKey, HasId
    <2>3. QED
      BY <1>1, <2>1, <2>2, GotoTypeInv
  <1>3. CASE Return(t)
    BY <1>3, ReturnTypeInv
  <1>4. QED
    BY <1>2, <1>3 DEF Finish

(* The authorization pause keeps the type invariant.                       *)
LEMMA AuthPauseTypeInv ==
  ASSUME TypeInv, NEW t \in Task, AuthPause(t)
  PROVE  TypeInv'
  <1>1. loc[t].id \in Id
    BY LocalTypes DEF AuthPause, PointOK, HasId
  <1>2. /\ known' \subseteq Id
        /\ promised' \in [Id -> {"none", "paused", "completed"}]
    BY <1>1 DEF AuthPause, Finish, TypeInv, TypeOK
  <1>3. KeysKept /\ StoreTypes' /\ Finish(t, "paused")
    BY <1>2 DEF AuthPause, TypeInv, TypeOK, StoreTypes, KeysKept
  <1>4. QED
    BY <1>1, <1>3, FinishTypeInv

(* The answer of the tool keeps the type invariant.                        *)
LEMMA ToolAnswersTypeInv ==
  ASSUME TypeInv, NEW t \in Task, ToolAnswers(t)
  PROVE  TypeInv'
  <1>1. loc[t].id \in Id
    BY LocalTypes DEF ToolAnswers, PointOK, HasId
  <1>2. /\ known' \subseteq Id
        /\ promised' \in [Id -> {"none", "paused", "completed"}]
    BY <1>1 DEF ToolAnswers, Finish, TypeInv, TypeOK
  <1>3. answers' \in [Key -> Nat]
    BY IncrementType DEF ToolAnswers, TypeInv, TypeOK
  <1>4. KeysKept /\ StoreTypes' /\ Finish(t, "completed")
    BY <1>2, <1>3 DEF ToolAnswers, TypeInv, TypeOK, StoreTypes, KeysKept
  <1>5. QED
    BY <1>1, <1>4, FinishTypeInv

(* persist_outcome keeps the type invariant.                               *)
LEMMA PersistOutcomeTypeInv ==
  ASSUME TypeInv, NEW t \in Task, PersistOutcome(t)
  PROVE  TypeInv'
  <1>1. loc[t].id \in Id /\ loc[t].outcome \in {"paused", "completed"}
    BY LocalTypes DEF PersistOutcome, PointOK, HasId
  <1>2. KeysKept /\ StoreTypes' /\ Return(t)
    BY <1>1 DEF PersistOutcome, Reply, RowStates, TypeInv, TypeOK,
                StoreTypes, KeysKept
  <1>3. QED
    BY <1>2, ReturnTypeInv

(* The two takes end alike. *)
LEMMA TakenTypeInv ==
  ASSUME TypeInv, NEW t \in Task, NEW row \in RowStates, Taken(t, row),
         loc[t].id \in Id, rows' = [rows EXCEPT ![loc[t].id] = "absent"],
         UNCHANGED <<idem, rules, late, minted, crashes, runs, answers>>
  PROVE  TypeInv'
  <1>1. takes' \in [Id -> Nat]
    BY IncrementType DEF Taken, Consume, TypeInv, TypeOK
  <1>2. /\ promised' \in [Id -> {"none", "paused", "completed"}]
        /\ known' \subseteq Id /\ declined' \subseteq Id
    BY DEF Taken, Consume, TypeInv, TypeOK
  <1>3. KeysKept /\ StoreTypes'
    BY <1>1, <1>2 DEF TypeInv, TypeOK, StoreTypes, KeysKept, RowStates
  <1> DEFINE l == [loc[t] EXCEPT !.auto = TRUE, !.row = "absent"]
             point == IF loc[t].choice = "none" THEN "resolve" ELSE "remember"
  <1>4. CASE Goto(t, point, l)
    <2>1. l \in Locals /\ l.id = loc[t].id
      BY LocalTypes, ZenonT(60) DEF Locals, RowStates
    <2>2. Goto(t, point, l) /\ point \in PCs /\ point \in {"resolve", "remember"}
      BY <1>4 DEF PCs
    <2> HIDE DEF l, point
    <2>3. PointOK(point, l, idem')
      BY <2>1, <2>2 DEF PointOK, HasKey, HasId
    <2>4. QED
      BY <1>3, <2>1, <2>2, <2>3, GotoTypeInv
  <1>5. CASE Return(t)
    BY <1>3, <1>5, ReturnTypeInv
  <1>6. QED
    BY <1>4, <1>5 DEF Taken

(* The take of MemoryCatalog keeps the type invariant.                     *)
LEMMA TakeAtomicTypeInv ==
  ASSUME TypeInv, NEW t \in Task, TakeAtomic(t)
  PROVE  TypeInv'
  <1>1. loc[t].id \in Id
    BY LocalTypes DEF TakeAtomic, PointOK, HasId
  <1>2. rows[loc[t].id] \in RowStates
    BY <1>1 DEF TypeInv, TypeOK
  <1>3. QED
    BY <1>1, <1>2, TakenTypeInv DEF TakeAtomic

(* The DELETE of the SQLite take keeps the type invariant.                 *)
LEMMA TakeDeleteTypeInv ==
  ASSUME TypeInv, NEW t \in Task, TakeDelete(t)
  PROVE  TypeInv'
  <1>1. loc[t].id \in Id
    BY LocalTypes DEF TakeDelete, PointOK, HasId
  <1>2. loc[t].row \in RowStates
    BY LocalTypes DEF Locals
  <1>3. QED
    BY <1>1, <1>2, TakenTypeInv DEF TakeDelete

-----------------------------------------------------------------------------
(* Steps that gather witnesses, and steps that move no task *)

(* Recording a policy change for the calls in flight keeps `seen' typed.   *)
LEMMA WitnessType ==
  ASSUME TypeInv, Witness
  PROVE  seen' \in [Task -> SUBSET Facts]
  <1>1. FactsOf(policy', session') \in SUBSET Facts
    BY DEF FactsOf, Facts
  <1>2. QED
    BY <1>1 DEF Witness, TypeInv, TypeOK

(* A step that leaves tasks, permits and keys alone keeps LocalsOK.        *)
LEMMA StillTypeInv ==
  ASSUME TypeInv, UNCHANGED <<pc, loc, permits>>, KeysKept, StoreTypes',
         seen' \in [Task -> SUBSET Facts]
  PROVE  TypeInv'
  <1>1. TypeOK'
    BY DEF TypeInv, TypeOK, StoreTypes
  <1>2. LocalsOK'
    BY DEF TypeInv, TypeOK, LocalsOK, PointOK, KeysKept, HasKey
  <1>3. QED
    BY <1>1, <1>2 DEF TypeInv

(* apply_persist keeps the type invariant.                                 *)
LEMMA RememberTypeInv ==
  ASSUME TypeInv, NEW t \in Task, Remember(t) \/ RememberPolicy(t)
  PROVE  TypeInv'
  <1> DEFINE point == pc'[t]
  <1>1. pc' = [pc EXCEPT ![t] = point] /\ point \in {"rememberPolicy", "resolve"}
    BY DEF Remember, RememberPolicy, TypeInv, TypeOK
  <1>2. loc[t].id \in Id /\ loc[t] \in Locals
    BY LocalTypes DEF Remember, RememberPolicy, PointOK, HasId
  <1>3. KeysKept /\ StoreTypes'
    BY DEF Remember, RememberPolicy, TypeInv, TypeOK, StoreTypes, KeysKept, Actions
  <1>4. permits' \in Nat /\ seen' \in [Task -> SUBSET Facts] /\ point \in PCs
    BY <1>1, WitnessType DEF Remember, RememberPolicy, TypeInv, TypeOK, PCs
  <1> HIDE DEF point
  <1>5. Moved(t, point, loc[t])
    BY <1>1 DEF Remember, RememberPolicy, Moved, TypeInv, TypeOK
  <1>6. PointOK(point, loc[t], idem')
    BY <1>1, <1>2 DEF PointOK, HasKey, HasId
  <1>7. QED
    BY <1>2, <1>3, <1>4, <1>5, <1>6, MoveTypeInv

(* Leaving a handler by `?' keeps the type invariant.                      *)
LEMMA FailTypeInv ==
  ASSUME TypeInv, NEW t \in Task, Fail(t)
  PROVE  TypeInv'
  <1>1. KeysKept /\ StoreTypes' /\ Return(t)
    BY DEF Fail, TypeInv, TypeOK, StoreTypes, KeysKept
  <1>2. QED
    BY <1>1, ReturnTypeInv

(* The store operation a dropped call leaves behind is well typed.         *)
LEMMA LateOpType ==
  ASSUME TypeInv, NEW t \in Task
  PROVE  LateOp(t) \subseteq LateOps
  <1>1. CASE pc[t] = "claim"
    <2>1. loc[t].key \in Key /\ loc[t].id \in Id
      BY <1>1, LocalTypes DEF PointOK, HasKey, HasId
    <2>2. QED
      BY <1>1, <2>1 DEF LateOp, LateOps
  <1>2. CASE pc[t] \in {"markRunning", "persist"}
    <2>1. /\ loc[t].id \in Id
          /\ pc[t] = "persist" => loc[t].outcome \in {"paused", "completed"}
      BY <1>2, LocalTypes DEF PointOK, HasId
    <2>2. QED
      BY <1>2, <2>1 DEF LateOp, LateOps, RowStates
  <1>3. CASE pc[t] \in {"take", "delete"}
    <2>1. loc[t].id \in Id
      BY <1>3, LocalTypes DEF PointOK, HasId
    <2>2. QED
      BY <1>3, <2>1 DEF LateOp, LateOps
  <1>4. CASE pc[t] \notin {"claim", "markRunning", "persist", "take", "delete"}
    BY <1>4 DEF LateOp
  <1>5. QED
    BY <1>1, <1>2, <1>3, <1>4

(* Dropping a call at an await keeps the type invariant.                   *)
LEMMA DeadlineTypeInv ==
  ASSUME TypeInv, NEW t \in Task, Deadline(t)
  PROVE  TypeInv'
  <1>1. late' \subseteq LateOps
    BY LateOpType DEF Deadline, TypeInv, TypeOK
  <1>2. KeysKept /\ StoreTypes' /\ Return(t)
    BY <1>1 DEF Deadline, TypeInv, TypeOK, StoreTypes, KeysKept
  <1>3. QED
    BY <1>2, ReturnTypeInv

(* A store operation of a dropped call keeps the type invariant.           *)
LEMMA LateOpRunsTypeInv ==
  ASSUME TypeInv, NEW w \in late, LateOpRuns(w)
  PROVE  TypeInv'
  <1>1. w \in LateOps
    BY DEF TypeInv, TypeOK
  <1>2. CASE w.op = "claim" /\ PutIdempotency(w.key, w.id) /\ UNCHANGED <<rows, promised>>
    <2>1. w.key \in Key /\ w.id \in Id
      BY <1>1, <1>2 DEF LateOps
    <2>2. KeysKept /\ idem' \in [Key -> Id \cup {NoId}]
      BY <1>2, <2>1, ValuesAssumption DEF PutIdempotency, KeysKept, TypeInv, TypeOK
    <2>3. StoreTypes'
      BY <1>2, <2>2 DEF LateOpRuns, TypeInv, TypeOK, StoreTypes
    <2>4. QED
      BY <2>2, <2>3, StillTypeInv DEF LateOpRuns, TypeInv, TypeOK
  <1>3. CASE w.op = "put" /\ rows' = [rows EXCEPT ![w.id] = w.row]
             /\ UNCHANGED <<idem, promised>>
    <2>1. w.row \in RowStates
      BY <1>1, <1>3 DEF LateOps
    <2>2. KeysKept /\ StoreTypes'
      BY <1>3, <2>1 DEF LateOpRuns, TypeInv, TypeOK, StoreTypes, KeysKept
    <2>3. QED
      BY <2>2, StillTypeInv DEF LateOpRuns, TypeInv, TypeOK
  <1>4. CASE /\ rows' = [rows EXCEPT ![w.id] = "absent"]
             /\ promised' = [promised EXCEPT ![w.id] = "none"]
             /\ UNCHANGED idem
    <2>1. KeysKept /\ StoreTypes'
      BY <1>4 DEF LateOpRuns, TypeInv, TypeOK, StoreTypes, KeysKept, RowStates
    <2>2. QED
      BY <2>1, StillTypeInv DEF LateOpRuns, TypeInv, TypeOK
  <1>5. QED
    BY <1>2, <1>3, <1>4 DEF LateOpRuns

(* A restart keeps the type invariant.                                     *)
LEMMA CrashTypeInv ==
  ASSUME TypeInv, Crash
  PROVE  TypeInv'
  <1>1. TypeOK'
    BY NoLocalsType, BoundsAssumption DEF Crash, TypeInv, TypeOK, PCs
  <1>2. LocalsOK'
    BY DEF Crash, LocalsOK, PointOK, HasKey, HasId
  <1>3. QED
    BY <1>1, <1>2 DEF TypeInv

(* Policy edits keep the type invariant.                                   *)
LEMMA SetPolicyTypeInv ==
  ASSUME TypeInv, NEW a \in Policies, SetPolicy(a)
  PROVE  TypeInv'
  <1>1. KeysKept /\ StoreTypes'
    BY ValuesAssumption DEF SetPolicy, TypeInv, TypeOK, StoreTypes, KeysKept, Actions
  <1>2. seen' \in [Task -> SUBSET Facts]
    BY WitnessType DEF SetPolicy
  <1>3. QED
    BY <1>1, <1>2, StillTypeInv DEF SetPolicy

(* Every step of a handler keeps the type invariant.                       *)
LEMMA StepTypeInv ==
  ASSUME TypeInv, NEW t \in Task, Step(t)
  PROVE  TypeInv'
  BY ReplayTypeInv, JoinTypeInv, MintTypeInv, ClaimTypeInv, ReadWinnerTypeInv,
     MarkRunningTypeInv, GateTypeInv, ReadSessionTypeInv, DispatchTypeInv,
     PauseTypeInv, InvokeTypeInv, AuthPauseTypeInv, ToolAnswersTypeInv,
     PersistOutcomeTypeInv, TakeAtomicTypeInv, TakeSelectTypeInv,
     TakeDeleteTypeInv, RememberTypeInv, ResolveTypeInv, FailTypeInv,
     DeadlineTypeInv
  DEF Step

(* Every step of the runtime keeps the type invariant.                     *)
LEMMA NextTypeInv == TypeInv /\ [Next]_vars => TypeInv'
  <1> SUFFICES ASSUME TypeInv, [Next]_vars PROVE TypeInv'
    OBVIOUS
  <1>1. ASSUME NEW t \in Task, NEW k \in Key \cup {NoKey}, NEW yes \in BOOLEAN,
               StartExecute(t, k, yes)
        PROVE  TypeInv'
    BY <1>1, StartExecuteTypeInv
  <1>2. ASSUME NEW t \in Task, NEW i \in Id, NEW a \in {"accept", "decline"},
               NEW c \in Choices, StartResume(t, i, a, c)
        PROVE  TypeInv'
    BY <1>2, StartResumeTypeInv
  <1>3. CASE \E t \in Task : Step(t)
    BY <1>3, StepTypeInv
  <1>4. CASE \E w \in late : LateOpRuns(w)
    BY <1>4, LateOpRunsTypeInv
  <1>5. CASE \E a \in Policies : SetPolicy(a)
    BY <1>5, SetPolicyTypeInv
  <1>6. CASE Crash
    BY <1>6, CrashTypeInv
  <1>7. CASE UNCHANGED vars
    BY <1>7 DEF vars, TypeInv, TypeOK, LocalsOK, PointOK
  <1>8. QED
    BY <1>1, <1>2, <1>3, <1>4, <1>5, <1>6, <1>7 DEF Next

(* Every reachable state of the execute / resume handlers is well typed,   *)
(* and a task's locals are defined wherever its handler uses them.         *)
THEOREM TypeInvariance == Spec => []TypeInv
  BY InitTypeInv, NextTypeInv, PTL DEF Spec

(* The type invariant of the execution model, for every instance.          *)
THEOREM TypeCorrect == Spec => []TypeOK
  <1>1. TypeInv => TypeOK
    BY DEF TypeInv
  <1>2. QED
    BY <1>1, TypeInvariance, PTL

-----------------------------------------------------------------------------
(* Permits *)

PermitInv == TypeInv /\ PermitAccounting

(* What the steps of a task do to its permit: keep it, or give it back.    *)
KeepsPermit(t) == permits' = permits /\ \E point \in PCs \ {"idle"} :
                                          pc' = [pc EXCEPT ![t] = point]
GivesBack(t) == permits' = permits + 1 /\ pc' = [pc EXCEPT ![t] = "idle"]

(* A handler step either stays in flight with its permit or returns both.  *)
LEMMA StepPermit ==
  ASSUME TypeInv, NEW t \in Task, Step(t)
  PROVE  pc[t] # "idle" /\ (KeepsPermit(t) \/ GivesBack(t))
  <1> USE DEF KeepsPermit, GivesBack, Goto, Return, PCs
  <1>1. CASE Replay(t) \/ Claim(t) \/ ReadWinner(t) \/ MarkRunning(t) \/ Gate(t)
    BY <1>1 DEF Replay, Claim, ReadWinner, MarkRunning, Gate
  <1>2. CASE ReadSession(t) \/ Dispatch(t) \/ Pause(t) \/ Invoke(t) \/ Resolve(t)
    BY <1>2 DEF ReadSession, Dispatch, Pause, Invoke, Resolve
  <1>3. CASE AuthPause(t) \/ ToolAnswers(t) \/ PersistOutcome(t)
    BY <1>3 DEF AuthPause, ToolAnswers, PersistOutcome, Finish
  <1>4. CASE TakeAtomic(t) \/ TakeSelect(t) \/ TakeDelete(t)
    BY <1>4 DEF TakeAtomic, TakeSelect, TakeDelete, Taken
  <1>5. CASE Join(t)
    BY <1>5 DEF Join
  <1>6. CASE Mint(t)
    BY <1>6 DEF Mint
  <1>7. CASE Remember(t) \/ RememberPolicy(t)
    BY <1>7 DEF Remember, RememberPolicy
  <1>8. CASE Fail(t) \/ Deadline(t)
    BY <1>8 DEF Fail, Deadline, FailPoints, AwaitPoints
  <1>9. QED
    BY <1>1, <1>2, <1>3, <1>4, <1>5, <1>6, <1>7, <1>8 DEF Step

(* Finitely many calls are in flight, so counting them makes sense.        *)
LEMMA InFlightFinite == IsFiniteSet(InFlight) /\ Cardinality(InFlight) \in Nat
  <1>1. InFlight \subseteq Task
    BY DEF InFlight
  <1>2. QED
    BY <1>1, ValuesAssumption, FS_Subset, FS_CardinalityType

(* A handler step keeps permits and calls in flight balanced.              *)
LEMMA StepPermitInv ==
  ASSUME PermitInv, NEW t \in Task, Step(t)
  PROVE  PermitAccounting'
  <1>1. pc[t] # "idle" /\ (KeepsPermit(t) \/ GivesBack(t))
    BY StepPermit DEF PermitInv
  <1>2. CASE KeepsPermit(t)
    <2>1. InFlight' = InFlight
      BY <1>1, <1>2 DEF KeepsPermit, InFlight, PermitInv, TypeInv, TypeOK
    <2>2. QED
      BY <1>2, <2>1 DEF KeepsPermit, PermitInv, PermitAccounting
  <1>3. CASE GivesBack(t)
    <2>1. InFlight' = InFlight \ {t} /\ t \in InFlight
      BY <1>1, <1>3 DEF GivesBack, InFlight, PermitInv, TypeInv, TypeOK
    <2>2. Cardinality(InFlight') = Cardinality(InFlight) - 1
      BY <2>1, InFlightFinite, FS_RemoveElement
    <2>3. permits \in Nat /\ permits' = permits + 1
      BY <1>3 DEF GivesBack, PermitInv, TypeInv, TypeOK
    <2>4. QED
      BY <2>2, <2>3, InFlightFinite, BoundsAssumption DEF PermitInv, PermitAccounting
  <1>4. QED
    BY <1>1, <1>2, <1>3

(* Admission moves one permit to one more call in flight.                  *)
LEMMA AdmitPermitInv ==
  ASSUME PermitInv, NEW t \in Task, NEW l, NEW point, point # "idle",
         Admit(t, l, point)
  PROVE  PermitAccounting'
  <1>1. InFlight' = InFlight \cup {t} /\ t \notin InFlight
    BY DEF Admit, InFlight, PermitInv, TypeInv, TypeOK
  <1>2. Cardinality(InFlight') = Cardinality(InFlight) + 1
    BY <1>1, InFlightFinite, FS_AddElement
  <1>3. permits \in Nat /\ permits > 0 /\ permits' = permits - 1
    BY DEF Admit, PermitInv, TypeInv, TypeOK
  <1>4. QED
    BY <1>2, <1>3, InFlightFinite, BoundsAssumption DEF PermitInv, PermitAccounting

(* Every step keeps permits and calls in flight balanced.                  *)
LEMMA NextPermitInv == PermitInv /\ [Next]_vars => PermitAccounting'
  <1> SUFFICES ASSUME PermitInv, [Next]_vars PROVE PermitAccounting'
    OBVIOUS
  <1>1. ASSUME NEW t \in Task, NEW k \in Key \cup {NoKey}, NEW yes \in BOOLEAN,
               StartExecute(t, k, yes)
        PROVE  PermitAccounting'
    <2> DEFINE point == IF k = NoKey THEN "mint" ELSE "replay"
               l == [NoLocals EXCEPT !.kind = "execute", !.key = k, !.yes = yes]
    <2>1. Admit(t, l, point) /\ point # "idle"
      BY <1>1 DEF StartExecute
    <2> HIDE DEF point, l
    <2>2. QED
      BY <2>1, AdmitPermitInv
  <1>2. ASSUME NEW t \in Task, NEW i \in Id, NEW a \in {"accept", "decline"},
               NEW c \in Choices, StartResume(t, i, a, c)
        PROVE  PermitAccounting'
    BY <1>2, AdmitPermitInv DEF StartResume
  <1>3. CASE \E t \in Task : Step(t)
    BY <1>3, StepPermitInv
  <1>4. CASE Crash
    <2>1. InFlight' = {} /\ permits' = MaxInFlight
      BY <1>4 DEF Crash, InFlight
    <2>2. QED
      BY <2>1, FS_EmptySet, BoundsAssumption DEF PermitAccounting
  <1>5. CASE \/ \E w \in late : LateOpRuns(w)
             \/ \E a \in Policies : SetPolicy(a)
             \/ UNCHANGED vars
    <2>1. UNCHANGED <<pc, permits>>
      BY <1>5 DEF LateOpRuns, SetPolicy, vars
    <2>2. QED
      BY <2>1 DEF PermitInv, PermitAccounting, InFlight
  <1>6. QED
    BY <1>1, <1>2, <1>3, <1>4, <1>5 DEF Next

(* Permits are neither lost nor invented, for any number of callers and    *)
(* any max_in_flight, on every way out of the execute / resume handlers.   *)
THEOREM PermitsAccounted == Spec => []PermitAccounting
  <1>1. Init => PermitAccounting
    <2> SUFFICES ASSUME Init PROVE PermitAccounting
      OBVIOUS
    <2>1. InFlight = {} /\ permits = MaxInFlight
      BY DEF Init, InFlight
    <2>2. QED
      BY <2>1, FS_EmptySet, BoundsAssumption DEF PermitAccounting
  <1>2. TypeInv /\ PermitAccounting /\ [Next]_vars => PermitAccounting'
    BY NextPermitInv DEF PermitInv
  <1>3. QED
    BY <1>1, <1>2, TypeInvariance, PTL DEF Spec

-----------------------------------------------------------------------------
(* The gate *)

TakePoints   == {"take", "delete", "remember", "rememberPolicy", "resolve"}
ResumePoints == TakePoints \cup {"dispatch", "pause", "lookup", "invoking", "persist"}

(* What a task knows at a point of its handler: an execute that reached    *)
(* the tool has a witness of its approval, a resume past the take holds an *)
(* accepted pause.                                                         *)
Cleared(point, l, facts, tks) ==
    /\ l.kind \in {"execute", "resume"}
    /\ point \in {"lookup", "invoking"} => "open" \in facts
    /\ l.kind = "resume" =>
         /\ point \in ResumePoints
         /\ point \notin {"take", "delete"} => tks[l.id] > 0 /\ l.action = "accept"
    /\ l.kind = "execute" =>
         /\ point \notin TakePoints
         /\ point = "dispatch" /\ l.auto => l.yes \/ "session" \in facts
         /\ point \in {"lookup", "invoking"} =>
              l.yes \/ facts \cap {"approve", "session"} # {}

(* The current policy and session approval are among the facts seen by     *)
(* every task in flight, and each task is cleared for where it is.         *)
TaskCleared(t) ==
    pc[t] # "idle" => /\ FactsOf(policy, session) \subseteq seen[t]
                      /\ Cleared(pc[t], loc[t], seen[t], takes)

GateInv == \A t \in Task : TaskCleared(t)

TakesGrow == \A i \in Id : takes'[i] \in Nat /\ takes'[i] >= takes[i]

(* More facts and more takes never undo a clearance.                       *)
LEMMA ClearedGrows ==
  ASSUME TypeInv, NEW s \in Task, NEW facts, seen[s] \subseteq facts, TakesGrow,
         pc[s] # "idle", Cleared(pc[s], loc[s], seen[s], takes)
  PROVE  Cleared(pc[s], loc[s], facts, takes')
  <1>1. CASE loc[s].kind = "resume"
    <2>1. loc[s].id \in Id
      BY <1>1, LocalTypes DEF Cleared, ResumePoints, TakePoints, PointOK, HasId
    <2>2. takes[loc[s].id] \in Nat /\ takes'[loc[s].id] \in Nat
          /\ takes'[loc[s].id] >= takes[loc[s].id]
      BY <2>1 DEF TakesGrow, TypeInv, TypeOK
    <2>3. takes[loc[s].id] > 0 => takes'[loc[s].id] > 0
      BY <2>2
    <2>4. QED
      BY <1>1, <2>3 DEF Cleared
  <1>2. CASE loc[s].kind = "execute"
    BY <1>2 DEF Cleared
  <1>3. QED
    BY <1>1, <1>2 DEF Cleared

(* A step of one task leaves the clearance of the others alone.            *)
LEMMA OthersCleared ==
  ASSUME TypeInv, GateInv, NEW t \in Task, NEW s \in Task, s # t, TakesGrow,
         UNCHANGED <<policy, session>>,
         pc'[s] = pc[s], loc'[s] = loc[s], seen'[s] = seen[s]
  PROVE  TaskCleared(s)'
  <1>1. CASE pc[s] = "idle"
    BY <1>1 DEF TaskCleared
  <1>2. CASE pc[s] # "idle"
    <2>1. Cleared(pc[s], loc[s], seen[s], takes')
      BY <1>2, ClearedGrows DEF GateInv, TaskCleared
    <2>2. FactsOf(policy, session) \subseteq seen[s]
      BY <1>2 DEF GateInv, TaskCleared
    <2>3. QED
      BY <2>1, <2>2 DEF TaskCleared
  <1>3. QED
    BY <1>1, <1>2

(* Going on to a point the task is cleared for keeps every clearance.      *)
LEMMA GotoGateInv ==
  ASSUME TypeInv, GateInv, NEW t \in Task, pc[t] # "idle", NEW point, NEW l,
         Goto(t, point, l), UNCHANGED <<policy, session>>, TakesGrow,
         Cleared(point, l, seen[t], takes')
  PROVE  GateInv'
  <1>1. /\ pc' = [pc EXCEPT ![t] = point] /\ loc' = [loc EXCEPT ![t] = l]
        /\ seen' = seen /\ pc \in [Task -> PCs] /\ loc \in [Task -> Locals]
    BY DEF Goto, TypeInv, TypeOK
  <1>2. TaskCleared(t)'
    BY <1>1 DEF GateInv, TaskCleared
  <1>3. ASSUME NEW s \in Task, s # t PROVE TaskCleared(s)'
    BY <1>1, <1>3, OthersCleared
  <1>4. QED
    BY <1>2, <1>3 DEF GateInv

(* A returning call needs no clearance.                                    *)
LEMMA ReturnGateInv ==
  ASSUME TypeInv, GateInv, NEW t \in Task, Return(t),
         UNCHANGED <<policy, session>>, TakesGrow
  PROVE  GateInv'
  <1>1. /\ pc' = [pc EXCEPT ![t] = "idle"] /\ loc' = [loc EXCEPT ![t] = NoLocals]
        /\ seen' = [seen EXCEPT ![t] = {}] /\ pc \in [Task -> PCs]
        /\ loc \in [Task -> Locals] /\ seen \in [Task -> SUBSET Facts]
    BY DEF Return, TypeInv, TypeOK
  <1>2. TaskCleared(t)'
    BY <1>1 DEF TaskCleared
  <1>3. ASSUME NEW s \in Task, s # t PROVE TaskCleared(s)'
    BY <1>1, <1>3, OthersCleared
  <1>4. QED
    BY <1>2, <1>3 DEF GateInv

(* A new call is cleared for its entry point.                              *)
LEMMA AdmitGateInv ==
  ASSUME TypeInv, GateInv, NEW t \in Task, NEW point, NEW l, Admit(t, l, point),
         UNCHANGED <<policy, session, takes>>,
         Cleared(point, l, FactsOf(policy, session), takes)
  PROVE  GateInv'
  <1>1. /\ pc' = [pc EXCEPT ![t] = point] /\ loc' = [loc EXCEPT ![t] = l]
        /\ seen' = [seen EXCEPT ![t] = FactsOf(policy, session)]
        /\ pc \in [Task -> PCs] /\ loc \in [Task -> Locals]
        /\ seen \in [Task -> SUBSET Facts]
    BY DEF Admit, TypeInv, TypeOK
  <1>2. TaskCleared(t)'
    BY <1>1 DEF TaskCleared
  <1>3. TakesGrow
    BY DEF TakesGrow, TypeInv, TypeOK
  <1>4. ASSUME NEW s \in Task, s # t PROVE TaskCleared(s)'
    BY <1>1, <1>3, <1>4, OthersCleared
  <1>5. QED
    BY <1>2, <1>4 DEF GateInv

(* Steps that only widen what the tasks in flight have witnessed.          *)
LEMMA WitnessGateInv ==
  ASSUME TypeInv, GateInv, Witness, UNCHANGED <<loc, takes>>,
         \A s \in Task : pc[s] # "idle" =>
             \A facts : Cleared(pc[s], loc[s], facts, takes)
                          => Cleared(pc'[s], loc[s], facts, takes),
         \A s \in Task : pc[s] = "idle" => pc'[s] = "idle"
  PROVE  GateInv'
  <1> SUFFICES ASSUME NEW s \in Task, pc'[s] # "idle" PROVE TaskCleared(s)'
    BY DEF GateInv, TaskCleared
  <1>1. pc[s] # "idle"
    OBVIOUS
  <1>2. seen'[s] = seen[s] \cup FactsOf(policy', session')
    BY <1>1 DEF Witness
  <1>3. TakesGrow
    BY DEF TakesGrow, TypeInv, TypeOK
  <1>4. Cleared(pc[s], loc[s], seen'[s], takes')
    BY <1>1, <1>2, <1>3, ClearedGrows DEF GateInv, TaskCleared
  <1>5. Cleared(pc'[s], loc'[s], seen'[s], takes')
    BY <1>1, <1>4
  <1>6. QED
    BY <1>2, <1>5 DEF TaskCleared

(* What GateInv says of one task, with the facts of the current state.     *)
LEMMA NowCleared ==
  ASSUME TypeInv, GateInv, NEW t \in Task, pc[t] # "idle"
  PROVE  /\ Cleared(pc[t], loc[t], seen[t], takes)
         /\ FactsOf(policy, session) \subseteq seen[t]
         /\ takes \in [Id -> Nat] /\ loc[t] \in Locals
  BY LocalTypes DEF GateInv, TaskCleared, TypeInv, TypeOK

(* The part of execute before dispatch, and its polls.                     *)
LEMMA EarlyGateInv ==
  ASSUME TypeInv, GateInv, NEW t \in Task,
         Replay(t) \/ Join(t) \/ Mint(t) \/ Claim(t) \/ ReadWinner(t)
         \/ MarkRunning(t) \/ Gate(t) \/ Pause(t)
  PROVE  GateInv'
  <1>1. pc[t] \in {"replay", "join", "mint", "claim", "winner", "markRunning",
                   "gate", "pause"}
    BY DEF Replay, Join, Mint, Claim, ReadWinner, MarkRunning, Gate, Pause
  <1>2. UNCHANGED <<policy, session>> /\ TakesGrow
    BY DEF Replay, Join, Mint, Claim, ReadWinner, MarkRunning, Gate, Pause,
           TakesGrow, TypeInv, TypeOK
  <1>3. /\ Cleared(pc[t], loc[t], seen[t], takes)
        /\ loc[t] \in Locals
    BY <1>1, NowCleared
  <1>4. UNCHANGED takes
    BY DEF Replay, Join, Mint, Claim, ReadWinner, MarkRunning, Gate, Pause
  <1>5. CASE Return(t)
    BY <1>2, <1>5, ReturnGateInv
  <1>6. ASSUME NEW point \in {"join", "mint", "claim", "winner", "markRunning",
                              "gate", "session"},
               NEW l, l.kind = loc[t].kind, Goto(t, point, l),
               pc[t] # "pause"
        PROVE  GateInv'
    <2>1. l.kind = "execute"
      BY <1>1, <1>3, <1>6 DEF Cleared, ResumePoints, TakePoints
    <2>2. Cleared(point, l, seen[t], takes')
      BY <1>6, <2>1 DEF Cleared, TakePoints
    <2>3. QED
      BY <1>1, <1>2, <1>6, <2>2, GotoGateInv
  <1>7. CASE Replay(t) \/ Claim(t) \/ ReadWinner(t) \/ MarkRunning(t) \/ Gate(t)
    BY <1>3, <1>5, <1>6, <1>7
    DEF Replay, Claim, ReadWinner, MarkRunning, Gate, Locals
  <1>8. CASE Join(t)
    BY <1>3, <1>5, <1>6, <1>8 DEF Join, Locals
  <1>9. CASE Mint(t)
    BY <1>3, <1>6, <1>9 DEF Mint, Locals
  <1>10. CASE Pause(t)
    <2> DEFINE l == [loc[t] EXCEPT !.outcome = "paused"]
    <2>1. l.kind = loc[t].kind /\ l.id = loc[t].id /\ l.action = loc[t].action
      BY <1>3 DEF Locals
    <2>2. Goto(t, "persist", l) /\ pc[t] = "pause"
      BY <1>10 DEF Pause
    <2> HIDE DEF l
    <2>3. Cleared("persist", l, seen[t], takes')
      BY <1>3, <1>4, <2>1, <2>2 DEF Cleared, ResumePoints, TakePoints
    <2>4. QED
      BY <1>1, <1>2, <2>2, <2>3, GotoGateInv
  <1>11. QED
    BY <1>7, <1>8, <1>9, <1>10

(* auto is set from the caller's word or from a session approval just read. *)
LEMMA ReadSessionGateInv ==
  ASSUME TypeInv, GateInv, NEW t \in Task, ReadSession(t)
  PROVE  GateInv'
  <1> DEFINE l == [loc[t] EXCEPT !.auto = loc[t].yes \/ session]
  <1>1. /\ pc[t] = "session" /\ Goto(t, "dispatch", l)
        /\ UNCHANGED <<policy, session, takes>>
    BY DEF ReadSession
  <1>2. /\ Cleared(pc[t], loc[t], seen[t], takes)
        /\ FactsOf(policy, session) \subseteq seen[t] /\ loc[t] \in Locals
    BY <1>1, NowCleared
  <1>3. loc[t].kind = "execute"
    BY <1>1, <1>2 DEF Cleared, ResumePoints, TakePoints
  <1>4. l.kind = "execute" /\ l.yes = loc[t].yes /\ l.auto = (loc[t].yes \/ session)
    BY <1>2, <1>3 DEF Locals
  <1>5. session => "session" \in seen[t]
    BY <1>2 DEF FactsOf
  <1> HIDE DEF l
  <1>6. Cleared("dispatch", l, seen[t], takes')
    BY <1>4, <1>5 DEF Cleared, TakePoints
  <1>7. TakesGrow
    BY <1>1 DEF TakesGrow, TypeInv, TypeOK
  <1>8. QED
    BY <1>1, <1>6, <1>7, GotoGateInv

(* The step that decides: dispatch's gate on the policy of this moment.    *)
LEMMA DispatchGateInv ==
  ASSUME TypeInv, GateInv, NEW t \in Task, Dispatch(t)
  PROVE  GateInv'
  <1>1. pc[t] = "dispatch" /\ UNCHANGED <<policy, session, takes>>
    BY DEF Dispatch
  <1>2. /\ Cleared(pc[t], loc[t], seen[t], takes)
        /\ FactsOf(policy, session) \subseteq seen[t] /\ loc[t] \in Locals
    BY <1>1, NowCleared
  <1>3. TakesGrow
    BY <1>1 DEF TakesGrow, TypeInv, TypeOK
  <1>4. CASE Return(t)
    BY <1>1, <1>3, <1>4, ReturnGateInv
  <1>5. CASE Goto(t, "pause", loc[t])
    <2>1. Cleared("pause", loc[t], seen[t], takes')
      BY <1>1, <1>2 DEF Cleared, ResumePoints, TakePoints
    <2>2. QED
      BY <1>1, <1>3, <1>5, <2>1, GotoGateInv
  <1>6. CASE policy # "block" /\ ~(policy = "require" /\ ~loc[t].auto)
             /\ Goto(t, "lookup", loc[t])
    <2>1. "open" \in seen[t]
      BY <1>2, <1>6 DEF FactsOf
    <2>2. policy \in Actions
      BY DEF TypeInv, TypeOK
    <2>3. policy = "approve" => "approve" \in seen[t]
      BY <1>2 DEF FactsOf
    <2>4. loc[t].auto \/ "approve" \in seen[t]
      BY <1>6, <2>2, <2>3 DEF Actions
    <2>5. Cleared("lookup", loc[t], seen[t], takes')
      BY <1>1, <1>2, <2>1, <2>4 DEF Cleared, ResumePoints, TakePoints
    <2>6. QED
      BY <1>1, <1>3, <1>6, <2>5, GotoGateInv
  <1>7. QED
    BY <1>4, <1>5, <1>6 DEF Dispatch

(* The upstream call goes out with the clearance dispatch gave.            *)
LEMMA InvokeGateInv ==
  ASSUME TypeInv, GateInv, NEW t \in Task, Invoke(t)
  PROVE  GateInv'
  <1>1. /\ pc[t] = "lookup" /\ UNCHANGED <<policy, session, takes>>
        /\ Goto(t, "invoking", loc[t])
    BY DEF Invoke
  <1>2. Cleared("invoking", loc[t], seen[t], takes')
    BY <1>1, NowCleared DEF Cleared, ResumePoints, TakePoints
  <1>3. TakesGrow
    BY <1>1 DEF TakesGrow, TypeInv, TypeOK
  <1>4. QED
    BY <1>1, <1>2, <1>3, GotoGateInv

(* An outcome of dispatch keeps every clearance.                           *)
LEMMA FinishGateInv ==
  ASSUME TypeInv, GateInv, NEW t \in Task, AuthPause(t) \/ ToolAnswers(t)
  PROVE  GateInv'
  <1>1. PICK out : Finish(t, out)
    BY DEF AuthPause, ToolAnswers
  <1>2. pc[t] \in {"lookup", "invoking"} /\ UNCHANGED <<policy, session, takes>>
    BY DEF AuthPause, ToolAnswers
  <1>3. Cleared(pc[t], loc[t], seen[t], takes) /\ loc[t] \in Locals
    BY <1>2, NowCleared
  <1>4. TakesGrow
    BY <1>2 DEF TakesGrow, TypeInv, TypeOK
  <1> DEFINE l == [loc[t] EXCEPT !.outcome = out]
  <1>5. CASE Return(t)
    BY <1>2, <1>4, <1>5, ReturnGateInv
  <1>6. CASE loc[t].kind = "execute" /\ Goto(t, "persist", l)
    <2>1. l.kind = "execute" /\ Goto(t, "persist", l)
      BY <1>3, <1>6 DEF Locals
    <2> HIDE DEF l
    <2>2. Cleared("persist", l, seen[t], takes')
      BY <2>1 DEF Cleared, TakePoints
    <2>3. QED
      BY <1>2, <1>4, <2>1, <2>2, GotoGateInv
  <1>7. QED
    BY <1>1, <1>5, <1>6 DEF Finish

(* A resume that goes on past its take holds the accepted pause.           *)
LEMMA TakeGateInv ==
  ASSUME TypeInv, GateInv, NEW t \in Task, TakeAtomic(t) \/ TakeDelete(t)
  PROVE  GateInv'
  <1>1. pc[t] \in {"take", "delete"} /\ UNCHANGED <<policy, session>>
    BY DEF TakeAtomic, TakeDelete
  <1>2. PICK row : Taken(t, row)
    BY DEF TakeAtomic, TakeDelete
  <1>3. loc[t].id \in Id /\ takes \in [Id -> Nat] /\ loc[t] \in Locals
        /\ Cleared(pc[t], loc[t], seen[t], takes)
    BY <1>1, LocalTypes, NowCleared DEF PointOK, HasId
  <1>4. takes' = IF row = "paused" THEN [takes EXCEPT ![loc[t].id] = @ + 1] ELSE takes
    BY <1>2 DEF Taken, Consume
  <1>5. TakesGrow
    BY <1>3, <1>4 DEF TakesGrow
  <1>6. CASE Return(t)
    BY <1>1, <1>5, <1>6, ReturnGateInv
  <1> DEFINE l == [loc[t] EXCEPT !.auto = TRUE, !.row = "absent"]
             point == IF loc[t].choice = "none" THEN "resolve" ELSE "remember"
  <1>7. CASE row = "paused" /\ loc[t].action = "accept" /\ Goto(t, point, l)
    <2>1. l.kind = loc[t].kind /\ l.id = loc[t].id /\ l.action = "accept"
      BY <1>3, <1>7 DEF Locals
    <2>2. takes'[loc[t].id] > 0
      BY <1>3, <1>4, <1>7
    <2>3. Goto(t, point, l) /\ point \in {"resolve", "remember"}
      BY <1>7
    <2>4. loc[t].kind = "resume"
      BY <1>1, <1>3 DEF Cleared, TakePoints
    <2> HIDE DEF l, point
    <2>5. Cleared(point, l, seen[t], takes')
      BY <2>1, <2>2, <2>3, <2>4 DEF Cleared, ResumePoints, TakePoints
    <2>6. QED
      BY <1>1, <1>5, <2>3, <2>5, GotoGateInv
  <1>8. QED
    BY <1>2, <1>6, <1>7 DEF Taken

(* The SELECT of the SQLite take clears nothing by itself.                 *)
LEMMA TakeSelectGateInv ==
  ASSUME TypeInv, GateInv, NEW t \in Task, TakeSelect(t)
  PROVE  GateInv'
  <1> DEFINE l == [loc[t] EXCEPT !.row = rows[loc[t].id]]
  <1>1. /\ pc[t] = "take" /\ UNCHANGED <<policy, session, takes>>
        /\ Goto(t, "delete", l)
    BY DEF TakeSelect
  <1>2. Cleared(pc[t], loc[t], seen[t], takes) /\ loc[t] \in Locals
    BY <1>1, NowCleared
  <1>3. l.kind = loc[t].kind
    BY <1>2 DEF Locals
  <1>4. TakesGrow
    BY <1>1 DEF TakesGrow, TypeInv, TypeOK
  <1> HIDE DEF l
  <1>5. Cleared("delete", l, seen[t], takes')
    BY <1>1, <1>2, <1>3 DEF Cleared, ResumePoints, TakePoints
  <1>6. QED
    BY <1>1, <1>4, <1>5, GotoGateInv

(* apply_persist of an accepted pause keeps every clearance.               *)
LEMMA RememberGateInv ==
  ASSUME TypeInv, GateInv, NEW t \in Task, Remember(t) \/ RememberPolicy(t)
  PROVE  GateInv'
  <1>1. /\ pc[t] \in {"remember", "rememberPolicy"}
        /\ pc'[t] \in {"rememberPolicy", "resolve"}
        /\ \A s \in Task : s # t => pc'[s] = pc[s]
    BY DEF Remember, RememberPolicy, TypeInv, TypeOK
  <1>2. Witness /\ UNCHANGED <<loc, takes>>
    BY DEF Remember, RememberPolicy
  <1>3. \A facts : Cleared(pc[t], loc[t], facts, takes)
                     => Cleared(pc'[t], loc[t], facts, takes)
    BY <1>1 DEF Cleared, ResumePoints, TakePoints
  <1>4. QED
    BY <1>1, <1>2, <1>3, WitnessGateInv

(* Every step of a handler keeps every clearance.                          *)
LEMMA StepGateInv ==
  ASSUME TypeInv, GateInv, NEW t \in Task, Step(t)
  PROVE  GateInv'
  <1>1. CASE Resolve(t)
    <2>1. /\ pc[t] = "resolve" /\ UNCHANGED <<policy, session, takes>>
          /\ Goto(t, "dispatch", loc[t])
      BY <1>1 DEF Resolve
    <2>2. Cleared("dispatch", loc[t], seen[t], takes')
      BY <2>1, NowCleared DEF Cleared, ResumePoints, TakePoints
    <2>3. TakesGrow
      BY <2>1 DEF TakesGrow, TypeInv, TypeOK
    <2>4. QED
      BY <2>1, <2>2, <2>3, GotoGateInv
  <1>2. CASE PersistOutcome(t) \/ Fail(t) \/ Deadline(t)
    <2>1. Return(t) /\ UNCHANGED <<policy, session, takes>>
      BY <1>2 DEF PersistOutcome, Fail, Deadline
    <2>2. TakesGrow
      BY <2>1 DEF TakesGrow, TypeInv, TypeOK
    <2>3. QED
      BY <2>1, <2>2, ReturnGateInv
  <1>3. QED
    BY <1>1, <1>2, EarlyGateInv, ReadSessionGateInv, DispatchGateInv,
       InvokeGateInv, FinishGateInv, TakeGateInv, TakeSelectGateInv,
       RememberGateInv DEF Step

(* Every step of the runtime keeps every clearance.                        *)
LEMMA NextGateInv == TypeInv /\ GateInv /\ [Next]_vars => GateInv'
  <1> SUFFICES ASSUME TypeInv, GateInv, [Next]_vars PROVE GateInv'
    OBVIOUS
  <1>1. ASSUME NEW t \in Task, NEW k \in Key \cup {NoKey}, NEW yes \in BOOLEAN,
               StartExecute(t, k, yes)
        PROVE  GateInv'
    <2> DEFINE point == IF k = NoKey THEN "mint" ELSE "replay"
               l == [NoLocals EXCEPT !.kind = "execute", !.key = k, !.yes = yes]
    <2>1. /\ Admit(t, l, point) /\ point \in {"mint", "replay"}
          /\ UNCHANGED <<policy, session, takes>>
      BY <1>1 DEF StartExecute
    <2>2. l.kind = "execute"
      BY NoLocalsType DEF Locals
    <2> HIDE DEF point, l
    <2>3. Cleared(point, l, FactsOf(policy, session), takes)
      BY <2>1, <2>2 DEF Cleared, TakePoints
    <2>4. QED
      BY <2>1, <2>3, AdmitGateInv
  <1>2. ASSUME NEW t \in Task, NEW i \in Id, NEW a \in {"accept", "decline"},
               NEW c \in Choices, StartResume(t, i, a, c)
        PROVE  GateInv'
    <2> DEFINE l == [NoLocals EXCEPT !.kind = "resume", !.id = i,
                                     !.action = a, !.choice = c]
    <2>1. Admit(t, l, "take") /\ UNCHANGED <<policy, session, takes>>
      BY <1>2 DEF StartResume
    <2>2. l.kind = "resume"
      BY NoLocalsType DEF Locals
    <2> HIDE DEF l
    <2>3. Cleared("take", l, FactsOf(policy, session), takes)
      BY <2>2 DEF Cleared, ResumePoints, TakePoints
    <2>4. QED
      BY <2>1, <2>3, AdmitGateInv
  <1>3. CASE \E t \in Task : Step(t)
    BY <1>3, StepGateInv
  <1>4. CASE \E a \in Policies : SetPolicy(a)
    BY <1>4, WitnessGateInv DEF SetPolicy
  <1>5. CASE Crash
    BY <1>5 DEF Crash, GateInv, TaskCleared
  <1>6. CASE \/ \E w \in late : LateOpRuns(w)
             \/ UNCHANGED vars
    <2>1. UNCHANGED <<pc, loc, seen, takes, policy, session>>
      BY <1>6 DEF LateOpRuns, vars
    <2>2. QED
      BY <2>1 DEF GateInv, TaskCleared, FactsOf
  <1>7. QED
    BY <1>1, <1>2, <1>3, <1>4, <1>5, <1>6 DEF Next

(* The inductive invariant behind the next two theorems: every task is     *)
(* cleared for the point of its handler it has reached.                    *)
THEOREM GateInvariance == Spec => []GateInv
  <1>1. Init => GateInv
    BY DEF Init, GateInv, TaskCleared
  <1>2. QED
    BY <1>1, NextGateInv, TypeInvariance, PTL DEF Spec

(* No tool call goes out under a Block that stood since the call was       *)
(* admitted, whatever auto_approve, session approvals, accepted pauses and *)
(* policy edits happen around it.                                          *)
THEOREM BlockHolds == Spec => []NoRunUnderStandingBlock
  <1>1. GateInv => NoRunUnderStandingBlock
    BY DEF GateInv, TaskCleared, Cleared, NoRunUnderStandingBlock
  <1>2. QED
    BY <1>1, GateInvariance, PTL

(* Every tool call has an approval behind it: auto_approve, a policy or    *)
(* session approval seen since admission, or an accepted pause.            *)
THEOREM ApprovalHolds == Spec => []RunNeedsApproval
  <1>1. GateInv => RunNeedsApproval
    BY DEF GateInv, TaskCleared, Cleared, RunNeedsApproval
  <1>2. QED
    BY <1>1, GateInvariance, PTL

=============================================================================
