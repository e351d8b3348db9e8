---------------------------- MODULE OutcomesProofs ----------------------------
(***************************************************************************)
(* Proofs about Execution: who owns an execution id and a key, what a      *)
(* stored reply is worth, and how often a pause is decided.                *)
(***************************************************************************)
EXTENDS ExecutionProofs

USE DEF table, rules, history

-----------------------------------------------------------------------------
(* Ids have one owner *)

Owns(t) == loc[t].kind = "execute" /\ loc[t].id \in Id

(* Where a resume may be; past its take it carries an approval. *)
ResumePlaces == {"take", "delete", "remember", "rememberPolicy", "resolve",
                 "dispatch", "lookup", "invoking"}

(* What a handler of each kind is, and which ids it can know of. *)
RoleOK(point, l, ids) ==
    /\ point = "idle" <=> l.kind = "none"
    /\ point = "idle" => l.id = NoId
    /\ l.id \in Id => l.id \in ids
    /\ point = "join" => l.target \in ids
    /\ l.kind = "execute" => point \notin TakePoints
    /\ l.kind = "resume" => /\ point \in ResumePlaces
                            /\ point \notin {"take", "delete"} => l.auto

RolesOK == \A t \in Task : RoleOK(pc[t], loc[t], minted)

(* No two handlers run under one id, *)
IdsApart == \A s, t \in Task : s # t /\ Owns(s) /\ Owns(t) => loc[s].id # loc[t].id

(* nor does one beside a write that a dropped handler left behind. *)
Puts == {w \in late : w.op = "put"}
PutsApart ==
    /\ \A w \in Puts, t \in Task : Owns(t) => loc[t].id # w.id
    /\ \A v, w \in Puts : v.id = w.id => v = w

(* Whatever names an id names a minted one. *)
NamesMinted ==
    /\ known \subseteq minted
    /\ \A w \in late : w.id \in minted
    /\ \A k \in Key : idem[k] \in Id => idem[k] \in minted

OwnInv == RolesOK /\ IdsApart /\ PutsApart /\ NamesMinted

(* What OwnInv says of one task.                                           *)
LEMMA RoleOf ==
  ASSUME TypeInv, OwnInv, NEW t \in Task
  PROVE  /\ RoleOK(pc[t], loc[t], minted) /\ loc[t] \in Locals
         /\ PointOK(pc[t], loc[t], idem) /\ pc[t] \in PCs
  BY LocalTypes DEF OwnInv, RolesOK

(* A step of one task, whose id nobody else uses afterwards.               *)
LEMMA MoveOwnInv ==
  ASSUME TypeInv, OwnInv, NEW t \in Task, NEW point, NEW l, Moved(t, point, l),
         RoleOK(point, l, minted'), minted \subseteq minted', late' = late, NamesMinted',
         l.kind = "execute" /\ l.id \in Id =>
             /\ \A s \in Task \ {t} : Owns(s) => loc[s].id # l.id
             /\ \A w \in Puts : l.id # w.id
  PROVE  OwnInv'
  <1>1. /\ pc'[t] = point /\ loc'[t] = l
        /\ \A s \in Task \ {t} : pc'[s] = pc[s] /\ loc'[s] = loc[s]
    BY DEF Moved, TypeInv, TypeOK
  <1>2. RolesOK'
    BY <1>1 DEF OwnInv, RolesOK, RoleOK
  <1>3. IdsApart'
    BY <1>1 DEF OwnInv, IdsApart, Owns
  <1>4. PutsApart'
    BY <1>1 DEF OwnInv, PutsApart, Puts, Owns
  <1>5. QED
    BY <1>2, <1>3, <1>4 DEF OwnInv

(* Going on under the same id.                                             *)
LEMMA GoOnOwnInv ==
  ASSUME TypeInv, OwnInv, NEW t \in Task, NEW point, NEW l, Moved(t, point, l),
         l.kind = loc[t].kind, l.id = loc[t].id, RoleOK(point, l, minted),
         minted' = minted, late' = late, NamesMinted'
  PROVE  OwnInv'
  <1>1. l.kind = "execute" /\ l.id \in Id =>
             /\ \A s \in Task \ {t} : Owns(s) => loc[s].id # l.id
             /\ \A w \in Puts : l.id # w.id
    BY DEF OwnInv, IdsApart, PutsApart, Owns
  <1>2. QED
    BY <1>1, MoveOwnInv

(* What a dropped handler leaves behind bears its id.                      *)
LEMMA LateOpOwned ==
  ASSUME TypeInv, OwnInv, NEW t \in Task
  PROVE  /\ \A w \in LateOp(t) : loc[t].id \in Id /\ w.id = loc[t].id
         /\ \A w \in LateOp(t) : w.op = "put" =>
              /\ Owns(t) /\ pc[t] \in {"markRunning", "persist"}
              /\ w.row = (IF pc[t] = "persist" THEN loc[t].outcome ELSE "running")
         /\ \A v, w \in LateOp(t) : v = w
  <1>1. CASE pc[t] \in {"markRunning", "persist"}
    <2>1. Owns(t)
      BY <1>1, RoleOf DEF RoleOK, PointOK, HasId, ResumePlaces, Locals, Owns
    <2>2. QED
      BY <1>1, <2>1 DEF LateOp, Owns
  <1>2. CASE pc[t] \in {"claim", "take", "delete"}
    <2>1. loc[t].id \in Id
      BY <1>2, RoleOf DEF PointOK, HasId
    <2>2. QED
      BY <1>2, <2>1 DEF LateOp
  <1>3. CASE pc[t] \notin {"claim", "markRunning", "persist", "take", "delete"}
    BY <1>3 DEF LateOp
  <1>4. QED
    BY <1>1, <1>2, <1>3

(* Returning, with or without a store operation left behind.               *)
LEMMA LeaveOwnInv ==
  ASSUME TypeInv, OwnInv, NEW t \in Task, Return(t), minted' = minted,
         late' = late \/ late' = late \cup LateOp(t),
         known' \subseteq minted, idem' = idem
  PROVE  OwnInv'
  <1>1. /\ pc'[t] = "idle" /\ loc'[t] = NoLocals
        /\ \A s \in Task \ {t} : pc'[s] = pc[s] /\ loc'[s] = loc[s]
    BY DEF Return, TypeInv, TypeOK
  <1>2. NoLocals.id \notin Id /\ NoLocals.kind = "none"
    BY NoLocalsType, ValuesAssumption DEF NoLocals
  <1>3. RolesOK'
    BY <1>1, <1>2, NoLocalsType DEF OwnInv, RolesOK, RoleOK
  <1>4. IdsApart'
    BY <1>1, <1>2 DEF OwnInv, IdsApart, Owns
  <1>5. PutsApart'
    <2>1. ASSUME NEW w \in Puts', NEW s \in Task, Owns(s)' PROVE loc'[s].id # w.id
      BY <1>1, <1>2, <2>1, LateOpOwned DEF OwnInv, PutsApart, IdsApart, Puts, Owns
    <2>2. ASSUME NEW v \in Puts', NEW w \in Puts', v.id = w.id PROVE v = w
      BY <2>2, LateOpOwned DEF OwnInv, PutsApart, Puts
    <2>3. QED
      BY <2>1, <2>2 DEF PutsApart
  <1>6. NamesMinted'
    BY RoleOf, LateOpOwned DEF OwnInv, NamesMinted, RoleOK
  <1>7. QED
    BY <1>3, <1>4, <1>5, <1>6 DEF OwnInv

(* A handler at a point that resume never reaches belongs to execute.      *)
LEMMA ExecuteAt ==
  ASSUME TypeInv, OwnInv, NEW t \in Task, pc[t] \notin ResumePlaces, pc[t] # "idle"
  PROVE  loc[t].kind = "execute"
  BY RoleOf DEF RoleOK, Locals

(* The steps of execute from the replay to the first gate.                 *)
LEMMA EarlyOwnInv ==
  ASSUME TypeInv, OwnInv, NEW t \in Task,
         Replay(t) \/ Join(t) \/ Claim(t) \/ ReadWinner(t) \/ MarkRunning(t) \/ Gate(t)
         \/ ReadSession(t) \/ Pause(t)
  PROVE  OwnInv'
  <1>1. pc[t] \in {"replay", "join", "claim", "winner", "markRunning", "gate", "session",
                   "pause"}
    BY DEF Replay, Join, Claim, ReadWinner, MarkRunning, Gate, ReadSession, Pause
  <1>2. loc[t].kind = "execute"
    BY <1>1, ExecuteAt DEF ResumePlaces
  <1>3. /\ RoleOK(pc[t], loc[t], minted) /\ loc[t] \in Locals
        /\ PointOK(pc[t], loc[t], idem)
    BY RoleOf
  <1>4. UNCHANGED <<minted, late>>
    BY DEF Replay, Join, Claim, ReadWinner, MarkRunning, Gate, ReadSession, Pause
  <1>5. ASSUME NEW point \in {"mint", "winner", "markRunning", "gate", "session",
                              "dispatch", "join", "persist"},
               NEW l, Goto(t, point, l), l.kind = loc[t].kind, l.id = loc[t].id,
               point = "join" => l.target \in minted, NamesMinted'
        PROVE  OwnInv'
    <2>1. RoleOK(point, l, minted)
      BY <1>1, <1>2, <1>3, <1>5 DEF RoleOK, TakePoints
    <2>2. QED
      BY <1>4, <1>5, <2>1, GoOnOwnInv DEF Goto, Moved
  <1>6. CASE Replay(t)
    <2>1. UNCHANGED <<known, idem>> /\ pc[t] = "replay"
      BY <1>6 DEF Replay
    <2>2. NamesMinted'
      BY <1>4, <2>1 DEF OwnInv, NamesMinted
    <2> DEFINE first == idem[loc[t].key]
    <2>3. first \in Id \cup {NoId} /\ (first # NoId => first \in minted)
      BY <1>3, <2>1 DEF PointOK, HasKey, TypeInv, TypeOK, OwnInv, NamesMinted
    <2>4. CASE first = NoId
      BY <1>5, <1>6, <2>2, <2>4 DEF Replay
    <2>5. CASE first # NoId
      <3> DEFINE l == [loc[t] EXCEPT !.target = first, !.polls = 0]
      <3>1. l.kind = loc[t].kind /\ l.id = loc[t].id /\ l.target = first
        BY <1>3 DEF Locals
      <3>2. Goto(t, "join", l)
        BY <1>6, <2>5 DEF Replay
      <3> HIDE DEF l, first
      <3>3. QED
        BY <1>5, <2>2, <2>3, <2>5, <3>1, <3>2
    <2>6. QED
      BY <2>4, <2>5
  <1>7. CASE Join(t)
    <2>1. UNCHANGED idem /\ pc[t] = "join" /\ loc[t].target \in minted
      BY <1>3, <1>7 DEF Join, RoleOK
    <2>2. CASE Reply(loc[t].target, rows[loc[t].target]) /\ Return(t)
      <3>1. known' \subseteq minted
        BY <2>1, <2>2 DEF Reply, OwnInv, NamesMinted
      <3>2. QED
        BY <1>4, <2>1, <2>2, <3>1, LeaveOwnInv
    <2>3. CASE rows[loc[t].target] \in {"absent", "running"}
      <3>1. NamesMinted'
        <4>1. UNCHANGED known
          BY <1>7, <2>3 DEF Join
        <4>2. QED
          BY <1>4, <2>1, <4>1 DEF OwnInv, NamesMinted
      <3> DEFINE l(n, up) == [loc[t] EXCEPT !.polls = n, !.gaveUp = up]
      <3>2. ASSUME NEW n
            PROVE  [loc[t] EXCEPT !.polls = n] = l(n, loc[t].gaveUp)
        BY <1>3 DEF Locals
      <3>3. ASSUME NEW n, NEW up
            PROVE  /\ l(n, up).kind = loc[t].kind /\ l(n, up).id = loc[t].id
                   /\ l(n, up).target = loc[t].target
        BY <1>3 DEF Locals
      <3> DEFINE m == loc[t].polls + 1
      <3>4. \/ Goto(t, "join", [loc[t] EXCEPT !.polls = m])
            \/ Goto(t, "mint", [loc[t] EXCEPT !.polls = m])
            \/ Goto(t, "gate", l(m, TRUE))
        BY <1>7, <2>3 DEF Join
      <3> HIDE DEF m
      <3>5. PICK up : \/ Goto(t, "join", l(m, up)) \/ Goto(t, "mint", l(m, up))
                      \/ Goto(t, "gate", l(m, up))
        BY <3>2, <3>4, Zenon
      <3> HIDE DEF l
      <3>6. l(m, up).kind = loc[t].kind /\ l(m, up).id = loc[t].id
            /\ l(m, up).target \in minted
        BY <2>1, <3>3
      <3>7. QED
        BY <1>5, <3>1, <3>5, <3>6
    <2>4. QED
      BY <1>7, <2>2, <2>3 DEF Join
  <1>8. CASE Claim(t)
    <2>1. UNCHANGED known /\ pc[t] = "claim" /\ Goto(t, "winner", loc[t])
          /\ PutIdempotency(loc[t].key, loc[t].id)
      BY <1>8 DEF Claim
    <2>2. loc[t].id \in minted
      BY <1>3, <2>1 DEF PointOK, HasId, RoleOK
    <2>3. NamesMinted'
      BY <1>4, <2>1, <2>2 DEF OwnInv, NamesMinted, PutIdempotency, TypeInv, TypeOK
    <2>4. QED
      BY <1>5, <2>1, <2>3
  <1>9. CASE ReadWinner(t)
    <2>1. UNCHANGED <<known, idem>> /\ pc[t] = "winner"
      BY <1>9 DEF ReadWinner
    <2>2. NamesMinted'
      BY <1>4, <2>1 DEF OwnInv, NamesMinted
    <2> DEFINE winner == idem[loc[t].key]
    <2>3. winner \in minted
      BY <1>3, <2>1 DEF PointOK, HasKey, OwnInv, NamesMinted
    <2>4. CASE Goto(t, "markRunning", loc[t])
      BY <1>5, <2>2, <2>4
    <2> DEFINE l == [loc[t] EXCEPT !.target = winner, !.polls = 0]
    <2>5. CASE Goto(t, "join", l)
      <3>1. l.kind = loc[t].kind /\ l.id = loc[t].id /\ l.target = winner
        BY <1>3 DEF Locals
      <3> HIDE DEF l, winner
      <3>2. QED
        BY <1>5, <2>2, <2>3, <2>5, <3>1
    <2>6. QED
      BY <1>9, <2>4, <2>5 DEF ReadWinner
  <1>10. CASE MarkRunning(t) \/ Gate(t) \/ ReadSession(t) \/ Pause(t)
    <2>1. UNCHANGED <<known, idem>>
      BY <1>10 DEF MarkRunning, Gate, ReadSession, Pause
    <2>2. NamesMinted' /\ known' \subseteq minted
      BY <1>4, <2>1 DEF OwnInv, NamesMinted
    <2>3. CASE Return(t)
      BY <1>4, <2>1, <2>2, <2>3, LeaveOwnInv
    <2>4. ASSUME NEW a PROVE /\ [loc[t] EXCEPT !.auto = a].kind = loc[t].kind
                             /\ [loc[t] EXCEPT !.auto = a].id = loc[t].id
                             /\ [loc[t] EXCEPT !.outcome = a].kind = loc[t].kind
                             /\ [loc[t] EXCEPT !.outcome = a].id = loc[t].id
      BY <1>3 DEF Locals
    <2>5. QED
      BY <1>5, <1>10, <2>2, <2>3, <2>4 DEF MarkRunning, Gate, ReadSession, Pause
  <1>11. QED
    BY <1>6, <1>7, <1>8, <1>9, <1>10

(* A new id is nobody's.                                                   *)
LEMMA MintOwnInv ==
  ASSUME TypeInv, OwnInv, NEW t \in Task, Mint(t)
  PROVE  OwnInv'
  <1>1. pc[t] = "mint" /\ loc[t].kind = "execute"
    BY ExecuteAt DEF Mint, ResumePlaces
  <1>2. PICK i \in Id \ minted :
          /\ minted' = minted \cup {i}
          /\ Goto(t, IF loc[t].key = NoKey THEN "gate" ELSE "claim", [loc[t] EXCEPT !.id = i])
    BY DEF Mint
  <1> DEFINE l == [loc[t] EXCEPT !.id = i]
             point == IF loc[t].key = NoKey THEN "gate" ELSE "claim"
  <1>3. l.kind = "execute" /\ l.id = i
    BY <1>1, RoleOf DEF Locals
  <1>4. Moved(t, point, l) /\ point \in {"gate", "claim"}
    BY <1>2 DEF Goto, Moved
  <1>5. UNCHANGED <<late, known, idem>>
    BY DEF Mint
  <1> HIDE DEF l, point
  <1>6. RoleOK(point, l, minted')
    BY <1>2, <1>3, <1>4 DEF RoleOK, TakePoints
  <1>7. NamesMinted'
    BY <1>2, <1>5 DEF OwnInv, NamesMinted
  <1>8. /\ \A s \in Task \ {t} : Owns(s) => loc[s].id # i
        /\ \A w \in Puts : i # w.id
    BY <1>2, RoleOf DEF OwnInv, NamesMinted, Puts, Owns, RoleOK
  <1>9. QED
    BY <1>2, <1>3, <1>4, <1>5, <1>6, <1>7, <1>8, MoveOwnInv

(* Dispatch and what follows it, in an execute or in a resume.             *)
LEMMA DispatchOwnInv ==
  ASSUME TypeInv, OwnInv, NEW t \in Task,
         Dispatch(t) \/ Invoke(t) \/ AuthPause(t) \/ ToolAnswers(t) \/ Resolve(t)
  PROVE  OwnInv'
  <1>1. /\ pc[t] \in {"dispatch", "lookup", "invoking", "resolve"}
        /\ UNCHANGED <<minted, late, idem>>
    BY DEF Dispatch, Invoke, AuthPause, ToolAnswers, Resolve
  <1>2. RoleOK(pc[t], loc[t], minted) /\ loc[t] \in Locals /\ loc[t].id \in minted
    BY <1>1, RoleOf DEF PointOK, HasId, RoleOK
  <1>3. known' \subseteq minted
    BY <1>2 DEF Dispatch, Invoke, AuthPause, ToolAnswers, Resolve, Finish, OwnInv, NamesMinted
  <1>4. NamesMinted'
    BY <1>1, <1>3 DEF OwnInv, NamesMinted
  <1>5. CASE Return(t)
    BY <1>1, <1>3, <1>5, LeaveOwnInv
  <1>6. ASSUME NEW point \in {"dispatch", "lookup", "invoking"}, Goto(t, point, loc[t])
        PROVE  OwnInv'
    <2>1. RoleOK(point, loc[t], minted)
      BY <1>1, <1>2 DEF RoleOK, TakePoints, ResumePlaces
    <2>2. QED
      BY <1>1, <1>4, <1>6, <2>1, GoOnOwnInv DEF Goto, Moved
  <1>7. CASE Goto(t, "pause", loc[t]) /\ ~loc[t].auto /\ pc[t] = "dispatch"
    <2>1. RoleOK("pause", loc[t], minted)
      BY <1>2, <1>7 DEF RoleOK, TakePoints, ResumePlaces
    <2>2. QED
      BY <1>1, <1>4, <1>7, <2>1, GoOnOwnInv DEF Goto, Moved
  <1>8. ASSUME NEW out, Goto(t, "persist", [loc[t] EXCEPT !.outcome = out]),
               loc[t].kind = "execute"
        PROVE  OwnInv'
    <2> DEFINE l == [loc[t] EXCEPT !.outcome = out]
    <2>1. l.kind = "execute" /\ l.id = loc[t].id
      BY <1>2, <1>8 DEF Locals
    <2>2. Moved(t, "persist", l)
      BY <1>8 DEF Goto, Moved
    <2> HIDE DEF l
    <2>3. RoleOK("persist", l, minted)
      BY <1>2, <2>1 DEF RoleOK, TakePoints
    <2>4. QED
      BY <1>1, <1>4, <1>8, <2>1, <2>2, <2>3, GoOnOwnInv
  <1>9. CASE Dispatch(t)
    BY <1>5, <1>6, <1>7, <1>9 DEF Dispatch
  <1>10. CASE Invoke(t) \/ Resolve(t)
    BY <1>6, <1>10 DEF Invoke, Resolve
  <1>11. CASE AuthPause(t) \/ ToolAnswers(t)
    <2>1. PICK out : Finish(t, out)
      BY <1>11 DEF AuthPause, ToolAnswers
    <2>2. QED
      BY <1>5, <1>8, <2>1 DEF Finish
  <1>12. QED
    BY <1>9, <1>10, <1>11

(* The take of a resume, and what it remembers.                            *)
LEMMA ResumeOwnInv ==
  ASSUME TypeInv, OwnInv, NEW t \in Task,
         TakeAtomic(t) \/ TakeSelect(t) \/ TakeDelete(t) \/ Remember(t) \/ RememberPolicy(t)
  PROVE  OwnInv'
  <1>1. /\ pc[t] \in {"take", "delete", "remember", "rememberPolicy"}
        /\ UNCHANGED <<minted, late, idem, known>>
    BY DEF TakeAtomic, TakeSelect, TakeDelete, Remember, RememberPolicy, Taken
  <1>2. RoleOK(pc[t], loc[t], minted) /\ loc[t] \in Locals
    BY RoleOf
  <1>3. known' \subseteq minted /\ NamesMinted'
    BY <1>1 DEF OwnInv, NamesMinted
  <1>4. CASE Return(t)
    BY <1>1, <1>3, <1>4, LeaveOwnInv
  <1>5. CASE TakeSelect(t)
    <2> DEFINE l == [loc[t] EXCEPT !.row = rows[loc[t].id]]
    <2>1. Moved(t, "delete", l) /\ pc[t] = "take"
      BY <1>5 DEF TakeSelect, Goto, Moved
    <2>2. l.kind = loc[t].kind /\ l.id = loc[t].id
      BY <1>2 DEF Locals
    <2> HIDE DEF l
    <2>3. RoleOK("delete", l, minted)
      BY <1>2, <2>1, <2>2 DEF RoleOK, TakePoints, ResumePlaces
    <2>4. QED
      BY <1>1, <1>3, <2>1, <2>2, <2>3, GoOnOwnInv
  <1>6. CASE TakeAtomic(t) \/ TakeDelete(t)
    <2> DEFINE l == [loc[t] EXCEPT !.auto = TRUE, !.row = "absent"]
               point == IF loc[t].choice = "none" THEN "resolve" ELSE "remember"
    <2>1. pc[t] \in {"take", "delete"} /\ (Return(t) \/ Goto(t, point, l))
      BY <1>6 DEF TakeAtomic, TakeDelete, Taken
    <2>2. l.kind = loc[t].kind /\ l.id = loc[t].id /\ l.auto
          /\ point \in {"resolve", "remember"}
      BY <1>2 DEF Locals
    <2> HIDE DEF l, point
    <2>3. RoleOK(point, l, minted)
      BY <1>2, <2>1, <2>2 DEF RoleOK, TakePoints, ResumePlaces
    <2>4. QED
      BY <1>1, <1>3, <1>4, <2>1, <2>2, <2>3, GoOnOwnInv DEF Goto, Moved
  <1>7. CASE Remember(t) \/ RememberPolicy(t)
    <2>1. PICK point \in {"rememberPolicy", "resolve"} : pc' = [pc EXCEPT ![t] = point]
      BY <1>7 DEF Remember, RememberPolicy
    <2>2. /\ pc[t] \in {"remember", "rememberPolicy"}
          /\ loc' = [loc EXCEPT ![t] = loc[t]]
      BY <1>7 DEF Remember, RememberPolicy, TypeInv, TypeOK
    <2>3. RoleOK(point, loc[t], minted)
      BY <1>2, <2>2 DEF RoleOK, TakePoints, ResumePlaces
    <2>4. QED
      BY <1>1, <1>3, <2>1, <2>2, <2>3, GoOnOwnInv DEF Moved
  <1>8. QED
    BY <1>5, <1>6, <1>7

(* Replies, failures and deadlines give an id up.                          *)
LEMMA EndOwnInv ==
  ASSUME TypeInv, OwnInv, NEW t \in Task, PersistOutcome(t) \/ Fail(t) \/ Deadline(t)
  PROVE  OwnInv'
  <1>1. Return(t) /\ UNCHANGED <<minted, idem>>
    BY DEF PersistOutcome, Fail, Deadline
  <1>2. late' = late \/ late' = late \cup LateOp(t)
    BY DEF PersistOutcome, Fail, Deadline
  <1>3. pc[t] = "persist" => loc[t].id \in minted
    BY RoleOf DEF PointOK, HasId, RoleOK
  <1>4. known' \subseteq minted
    BY <1>3 DEF PersistOutcome, Fail, Deadline, Reply, OwnInv, NamesMinted
  <1>5. QED
    BY <1>1, <1>2, <1>4, LeaveOwnInv

(* Every step keeps every id with its one owner.                           *)
LEMMA NextOwnInv == TypeInv /\ OwnInv /\ [Next]_vars => OwnInv'
  <1> SUFFICES ASSUME TypeInv, OwnInv, [Next]_vars PROVE OwnInv'
    OBVIOUS
  <1>1. ASSUME NEW t \in Task, NEW k \in Key \cup {NoKey}, NEW yes \in BOOLEAN,
               StartExecute(t, k, yes)
        PROVE  OwnInv'
    <2> DEFINE point == IF k = NoKey THEN "mint" ELSE "replay"
               l == [NoLocals EXCEPT !.kind = "execute", !.key = k, !.yes = yes]
    <2>1. /\ Moved(t, point, l) /\ point \in {"mint", "replay"}
          /\ UNCHANGED <<minted, late, known, idem>>
      BY <1>1 DEF StartExecute, Admit, Moved
    <2>2. l.kind = "execute" /\ l.id = NoId
      BY NoLocalsType DEF Locals
    <2> HIDE DEF point, l
    <2>3. RoleOK(point, l, minted)
      BY <2>1, <2>2, ValuesAssumption DEF RoleOK, TakePoints
    <2>4. NamesMinted'
      BY <2>1 DEF OwnInv, NamesMinted
    <2>5. QED
      BY <2>1, <2>2, <2>3, <2>4, MoveOwnInv, ValuesAssumption
  <1>2. ASSUME NEW t \in Task, NEW i \in Id, NEW a \in {"accept", "decline"},
               NEW c \in Choices, StartResume(t, i, a, c)
        PROVE  OwnInv'
    <2> DEFINE l == [NoLocals EXCEPT !.kind = "resume", !.id = i,
                                     !.action = a, !.choice = c]
    <2>1. /\ Moved(t, "take", l) /\ i \in minted
          /\ UNCHANGED <<minted, late, known, idem>>
      BY <1>2 DEF StartResume, Admit, Moved, OwnInv, NamesMinted
    <2>2. l.kind = "resume" /\ l.id = i
      BY NoLocalsType DEF Locals
    <2> HIDE DEF l
    <2>3. RoleOK("take", l, minted)
      BY <2>1, <2>2 DEF RoleOK, ResumePlaces
    <2>4. NamesMinted'
      BY <2>1 DEF OwnInv, NamesMinted
    <2>5. QED
      BY <2>1, <2>2, <2>3, <2>4, MoveOwnInv
  <1>3. CASE \E t \in Task : Step(t)
    BY <1>3, EarlyOwnInv, MintOwnInv, DispatchOwnInv, ResumeOwnInv, EndOwnInv DEF Step
  <1>4. ASSUME NEW w \in late, LateOpRuns(w) PROVE OwnInv'
    <2>1. UNCHANGED <<pc, loc, minted, known>> /\ late' \subseteq late
      BY <1>4 DEF LateOpRuns
    <2>2. \A k \in Key : idem'[k] \in Id => idem'[k] \in minted
      BY <1>4 DEF LateOpRuns, PutIdempotency, OwnInv, NamesMinted, TypeInv, TypeOK
    <2>3. QED
      BY <2>1, <2>2
      DEF OwnInv, RolesOK, IdsApart, PutsApart, Puts, NamesMinted, Owns
  <1>5. CASE Crash
    <2>1. /\ \A t \in Task : pc'[t] = "idle" /\ loc'[t] = NoLocals
          /\ late' = {} /\ UNCHANGED <<minted, known, idem>>
      BY <1>5 DEF Crash
    <2>2. NoLocals.kind = "none" /\ NoLocals.id = NoId
      BY DEF NoLocals
    <2>3. QED
      BY <2>1, <2>2, ValuesAssumption
      DEF OwnInv, RolesOK, RoleOK, IdsApart, PutsApart, Puts, NamesMinted, Owns
  <1>6. CASE (\E a \in Policies : SetPolicy(a)) \/ UNCHANGED vars
    <2>1. UNCHANGED <<pc, loc, late, minted, known, idem>>
      BY <1>6 DEF SetPolicy, vars
    <2>2. QED
      BY <2>1 DEF OwnInv, RolesOK, IdsApart, PutsApart, Puts, NamesMinted, Owns
  <1>7. QED
    BY <1>1, <1>2, <1>3, <1>4, <1>5, <1>6 DEF Next

(* Ids have one owner in every reachable state: mint never hands an id out *)
(* twice, and a handler's id is its own until it returns.                  *)
THEOREM IdsHaveOneOwner == Spec => []OwnInv
  <1>1. Init => OwnInv
    BY NoLocalsType, ValuesAssumption
    DEF Init, OwnInv, RolesOK, RoleOK, IdsApart, PutsApart, Puts, NamesMinted, Owns, NoLocals
  <1>2. QED
    BY <1>1, NextOwnInv, TypeInvariance, PTL DEF Spec

-----------------------------------------------------------------------------
(* Keys have one owner *)

(* A handler with a key that is past the claim won it, or gave up waiting. *)
KeyOK(point, l, keys) ==
    l.kind = "execute" /\ point \in PastClaim /\ l.key # NoKey /\ ~l.gaveUp
      => keys[l.key] = l.id

KeyInv == \A t \in Task : KeyOK(pc[t], loc[t], idem)

(* put_idempotency keeps its first writer, so the winners stay winners     *)
(* while one task moves.                                                   *)
LEMMA MoveKeyInv ==
  ASSUME TypeInv, KeyInv, NEW t \in Task, NEW point, NEW l, Moved(t, point, l),
         KeyOK(point, l, idem'), KeysKept
  PROVE  KeyInv'
  <1> SUFFICES ASSUME NEW s \in Task PROVE KeyOK(pc'[s], loc'[s], idem')
    BY DEF KeyInv
  <1>1. CASE s = t
    BY <1>1 DEF Moved, TypeInv, TypeOK
  <1>2. CASE s # t
    <2>1. pc'[s] = pc[s] /\ loc'[s] = loc[s] /\ loc[s] \in Locals
          /\ PointOK(pc[s], loc[s], idem)
      BY <1>2, LocalTypes DEF Moved, TypeInv, TypeOK
    <2>2. pc[s] \in PastClaim => loc[s].id \in Id
      BY <2>1 DEF PointOK, HasId, PastClaim
    <2>3. loc[s].key \in Key \cup {NoKey}
      BY <2>1 DEF Locals
    <2>4. QED
      BY <2>1, <2>2, <2>3 DEF KeyInv, KeyOK, KeysKept
  <1>3. QED
    BY <1>1, <1>2

(* Going on past the claim under the same key and id.                      *)
LEMMA GoOnKeyInv ==
  ASSUME TypeInv, KeyInv, NEW t \in Task, NEW point, NEW l, Moved(t, point, l),
         UNCHANGED idem,
         \/ point \notin PastClaim \/ l.kind # "execute"
         \/ /\ pc[t] \in PastClaim
            /\ l.kind = loc[t].kind /\ l.key = loc[t].key
            /\ l.id = loc[t].id /\ l.gaveUp = loc[t].gaveUp
  PROVE  KeyInv'
  <1>1. KeyOK(point, l, idem')
    BY DEF KeyInv, KeyOK
  <1>2. KeysKept
    BY DEF KeysKept
  <1>3. QED
    BY <1>1, <1>2, MoveKeyInv

(* A call that returns claims nothing.                                     *)
LEMMA ReturnKeyInv ==
  ASSUME TypeInv, KeyInv, NEW t \in Task, Return(t), UNCHANGED idem
  PROVE  KeyInv'
  BY GoOnKeyInv DEF Return, Moved, PastClaim

(* The ways past the claim: without a key, as the key's first writer, or   *)
(* after waiting for it in vain.                                           *)
LEMMA EarlyKeyInv ==
  ASSUME TypeInv, OwnInv, KeyInv, NEW t \in Task,
         Replay(t) \/ Join(t) \/ Mint(t) \/ Claim(t) \/ ReadWinner(t)
  PROVE  KeyInv'
  <1>1. loc[t] \in Locals /\ PointOK(pc[t], loc[t], idem)
    BY RoleOf
  <1>2. CASE Replay(t)
    <2>1. UNCHANGED idem
      BY <1>2 DEF Replay
    <2>2. PICK point, l : point \in {"mint", "join"} /\ Moved(t, point, l)
      BY <1>2 DEF Replay, Goto, Moved
    <2>3. QED
      BY <2>1, <2>2, GoOnKeyInv DEF PastClaim
  <1>3. CASE Join(t)
    <2>1. UNCHANGED idem
      BY <1>3 DEF Join
    <2> DEFINE n == loc[t].polls + 1
               l == [loc[t] EXCEPT !.polls = n, !.gaveUp = TRUE]
    <2>2. CASE Return(t)
      BY <2>1, <2>2, ReturnKeyInv
    <2>3. CASE Goto(t, "gate", l)
      <3>1. l.gaveUp
        BY <1>1 DEF Locals
      <3>2. Moved(t, "gate", l) /\ KeysKept
        BY <2>1, <2>3 DEF Goto, Moved, KeysKept
      <3> HIDE DEF l
      <3>3. KeyOK("gate", l, idem')
        BY <3>1 DEF KeyOK
      <3>4. QED
        BY <3>2, <3>3, MoveKeyInv
    <2>4. ASSUME NEW point \in {"join", "mint"},
                 Goto(t, point, [loc[t] EXCEPT !.polls = n])
          PROVE  KeyInv'
      BY <2>1, <2>4, GoOnKeyInv DEF Goto, Moved, PastClaim
    <2>5. QED
      BY <1>3, <2>2, <2>3, <2>4 DEF Join
  <1>4. CASE Mint(t)
    <2>1. PICK i \in Id :
            Goto(t, IF loc[t].key = NoKey THEN "gate" ELSE "claim", [loc[t] EXCEPT !.id = i])
      BY <1>4 DEF Mint
    <2> DEFINE l == [loc[t] EXCEPT !.id = i]
               point == IF loc[t].key = NoKey THEN "gate" ELSE "claim"
    <2>2. l.key = loc[t].key
      BY <1>1 DEF Locals
    <2>3. Moved(t, point, l) /\ ((point = "gate" /\ l.key = NoKey) \/ point = "claim")
      BY <2>1, <2>2 DEF Goto, Moved
    <2>4. KeysKept
      BY <1>4 DEF Mint, KeysKept
    <2> HIDE DEF l, point
    <2>5. KeyOK(point, l, idem')
      BY <2>3 DEF KeyOK, PastClaim
    <2>6. QED
      BY <2>3, <2>4, <2>5, MoveKeyInv
  <1>5. CASE Claim(t)
    <2>1. Moved(t, "winner", loc[t]) /\ loc[t].key \in Key /\ loc[t].id \in Id
      BY <1>1, <1>5 DEF Claim, Goto, Moved, PointOK, HasKey, HasId
    <2>2. KeysKept
      BY <1>5, <2>1, ValuesAssumption
      DEF Claim, PutIdempotency, TypeInv, TypeOK, KeysKept
    <2>3. KeyOK("winner", loc[t], idem')
      BY DEF KeyOK, PastClaim
    <2>4. QED
      BY <2>1, <2>2, <2>3, MoveKeyInv
  <1>6. CASE ReadWinner(t)
    <2>1. UNCHANGED idem
      BY <1>6 DEF ReadWinner
    <2>2. CASE idem[loc[t].key] = loc[t].id /\ Goto(t, "markRunning", loc[t])
      <3>1. KeyOK("markRunning", loc[t], idem') /\ KeysKept
        BY <2>1, <2>2 DEF KeyOK, KeysKept
      <3>2. QED
        BY <2>2, <3>1, MoveKeyInv DEF Goto, Moved
    <2>3. CASE Goto(t, "join", [loc[t] EXCEPT !.target = idem[loc[t].key], !.polls = 0])
      BY <2>1, <2>3, GoOnKeyInv DEF Goto, Moved, PastClaim
    <2>4. QED
      BY <1>6, <2>2, <2>3 DEF ReadWinner
  <1>7. QED
    BY <1>2, <1>3, <1>4, <1>5, <1>6

(* Past the claim, and in resume, nobody's key changes hands.              *)
LEMMA LateKeyInv ==
  ASSUME TypeInv, OwnInv, KeyInv, NEW t \in Task,
         \/ MarkRunning(t) \/ Gate(t) \/ ReadSession(t) \/ Dispatch(t) \/ Pause(t)
         \/ Invoke(t) \/ AuthPause(t) \/ ToolAnswers(t) \/ PersistOutcome(t)
         \/ TakeAtomic(t) \/ TakeSelect(t) \/ TakeDelete(t)
         \/ Remember(t) \/ RememberPolicy(t) \/ Resolve(t) \/ Fail(t) \/ Deadline(t)
  PROVE  KeyInv'
  <1>1. UNCHANGED idem
    BY DEF MarkRunning, Gate, ReadSession, Dispatch, Pause, Invoke, AuthPause, ToolAnswers,
           PersistOutcome, TakeAtomic, TakeSelect, TakeDelete, Taken, Remember,
           RememberPolicy, Resolve, Fail, Deadline
  <1>2. loc[t] \in Locals /\ RoleOK(pc[t], loc[t], minted)
    BY RoleOf
  <1>3. CASE Return(t)
    BY <1>1, <1>3, ReturnKeyInv
  <1>4. CASE pc[t] \in PastClaim
    <2> DEFINE Kept(l) == /\ l.kind = loc[t].kind /\ l.key = loc[t].key
                          /\ l.id = loc[t].id /\ l.gaveUp = loc[t].gaveUp
    <2>1. ASSUME NEW x
          PROVE  Kept([loc[t] EXCEPT !.auto = x]) /\ Kept([loc[t] EXCEPT !.outcome = x])
      BY <1>2 DEF Locals
    <2>2. ASSUME NEW point, NEW l, Goto(t, point, l), Kept(l) PROVE KeyInv'
      BY <1>1, <1>4, <2>2, GoOnKeyInv DEF Goto, Moved
    <2> HIDE DEF Kept
    <2>3. Kept(loc[t])
      BY DEF Kept
    <2>4. CASE AuthPause(t) \/ ToolAnswers(t)
      <3>1. PICK out : Finish(t, out)
        BY <2>4 DEF AuthPause, ToolAnswers
      <3>2. QED
        BY <1>3, <2>1, <2>2, <3>1 DEF Finish
    <2>5. CASE MarkRunning(t) \/ Gate(t) \/ ReadSession(t) \/ Dispatch(t) \/ Pause(t)
               \/ Invoke(t) \/ PersistOutcome(t) \/ Fail(t) \/ Deadline(t)
      BY <1>3, <2>1, <2>2, <2>3, <2>5
      DEF MarkRunning, Gate, ReadSession, Dispatch, Pause, Invoke, PersistOutcome, Fail,
          Deadline
    <2>6. QED
      BY <1>4, <2>4, <2>5
      DEF PastClaim, TakeAtomic, TakeSelect, TakeDelete, Remember, RememberPolicy, Resolve
  <1>5. CASE TakeAtomic(t) \/ TakeSelect(t) \/ TakeDelete(t) \/ Resolve(t)
             \/ Remember(t) \/ RememberPolicy(t)
    <2>1. pc[t] \in TakePoints
      BY <1>5 DEF TakePoints, TakeAtomic, TakeSelect, TakeDelete, Resolve, Remember,
                  RememberPolicy
    <2>2. loc[t].kind # "execute"
      BY <1>2, <2>1 DEF RoleOK
    <2>3. ASSUME NEW x, NEW y
          PROVE  /\ [loc[t] EXCEPT !.row = x].kind # "execute"
                 /\ [loc[t] EXCEPT !.auto = x, !.row = y].kind # "execute"
      BY <1>2, <2>2 DEF Locals
    <2>4. ASSUME NEW point, NEW l, Goto(t, point, l), l.kind # "execute" PROVE KeyInv'
      BY <1>1, <2>4, GoOnKeyInv DEF Goto, Moved
    <2>5. CASE Remember(t) \/ RememberPolicy(t)
      <3>1. PICK point : pc' = [pc EXCEPT ![t] = point]
        BY <2>5 DEF Remember, RememberPolicy
      <3>2. loc' = [loc EXCEPT ![t] = loc[t]]
        BY <2>5 DEF Remember, RememberPolicy, TypeInv, TypeOK
      <3>3. QED
        BY <1>1, <2>2, <3>1, <3>2, GoOnKeyInv DEF Moved
    <2>6. CASE TakeSelect(t) \/ Resolve(t)
      BY <2>2, <2>3, <2>4, <2>6 DEF TakeSelect, Resolve
    <2>7. CASE TakeAtomic(t) \/ TakeDelete(t)
      <3>1. PICK row : Taken(t, row)
        BY <2>7 DEF TakeAtomic, TakeDelete
      <3>2. QED
        BY <1>3, <2>3, <2>4, <3>1 DEF Taken
    <2>8. QED
      BY <1>5, <2>5, <2>6, <2>7
  <1>6. CASE PersistOutcome(t) \/ Fail(t) \/ Deadline(t)
    BY <1>3, <1>6 DEF PersistOutcome, Fail, Deadline
  <1>7. CASE MarkRunning(t) \/ Gate(t) \/ ReadSession(t) \/ Dispatch(t) \/ Pause(t)
             \/ Invoke(t) \/ AuthPause(t) \/ ToolAnswers(t)
    BY <1>4, <1>7 DEF MarkRunning, Gate, ReadSession, Dispatch, Pause, Invoke, AuthPause,
                      ToolAnswers, PastClaim
  <1>8. QED
    BY <1>5, <1>6, <1>7

(* Every step keeps the winners of their keys.                             *)
LEMMA NextKeyInv == TypeInv /\ OwnInv /\ KeyInv /\ [Next]_vars => KeyInv'
  <1> SUFFICES ASSUME TypeInv, OwnInv, KeyInv, [Next]_vars PROVE KeyInv'
    OBVIOUS
  <1>1. ASSUME NEW t \in Task, NEW k \in Key \cup {NoKey}, NEW yes \in BOOLEAN,
               StartExecute(t, k, yes)
        PROVE  KeyInv'
    <2> DEFINE point == IF k = NoKey THEN "mint" ELSE "replay"
               l == [NoLocals EXCEPT !.kind = "execute", !.key = k, !.yes = yes]
    <2>1. UNCHANGED idem /\ Moved(t, point, l) /\ point \in {"mint", "replay"}
      BY <1>1 DEF StartExecute, Admit, Moved
    <2> HIDE DEF point, l
    <2>2. QED
      BY <2>1, GoOnKeyInv DEF PastClaim
  <1>2. ASSUME NEW t \in Task, NEW i \in Id, NEW a \in {"accept", "decline"},
               NEW c \in Choices, StartResume(t, i, a, c)
        PROVE  KeyInv'
    BY <1>2, GoOnKeyInv DEF StartResume, Admit, Moved, PastClaim
  <1>3. CASE \E t \in Task : Step(t)
    BY <1>3, EarlyKeyInv, LateKeyInv DEF Step
  <1>4. ASSUME NEW w \in late, LateOpRuns(w) PROVE KeyInv'
    <2>1. UNCHANGED <<pc, loc>>
      BY <1>4 DEF LateOpRuns
    <2>2. \A k \in Key : idem[k] \in Id => idem'[k] = idem[k]
      BY <1>4, ValuesAssumption DEF LateOpRuns, PutIdempotency, TypeInv, TypeOK
    <2>3. ASSUME NEW s \in Task PROVE KeyOK(pc[s], loc[s], idem')
      <3>1. loc[s] \in Locals /\ PointOK(pc[s], loc[s], idem)
        BY LocalTypes
      <3>2. pc[s] \in PastClaim => loc[s].id \in Id
        BY <3>1 DEF PointOK, HasId, PastClaim
      <3>3. loc[s].key \in Key \cup {NoKey}
        BY <3>1 DEF Locals
      <3>4. QED
        BY <2>2, <3>2, <3>3 DEF KeyInv, KeyOK
    <2>4. QED
      BY <2>1, <2>3 DEF KeyInv
  <1>5. CASE Crash
    BY <1>5 DEF Crash, KeyInv, KeyOK, PastClaim
  <1>6. CASE (\E a \in Policies : SetPolicy(a)) \/ UNCHANGED vars
    BY <1>6 DEF SetPolicy, vars, KeyInv
  <1>7. QED
    BY <1>1, <1>2, <1>3, <1>4, <1>5, <1>6 DEF Next

(* Two executes with one key are past the claim together only if one gave  *)
(* up waiting for the other: the key is bound to one id, and that id has   *)
(* one owner.                                                              *)
THEOREM KeysHaveOneOwner == Spec => []OneOwnerPerKey
  <1>1. Init => KeyInv
    BY DEF Init, KeyInv, KeyOK, PastClaim
  <1>2. TypeInv /\ OwnInv /\ KeyInv => OneOwnerPerKey
    <2> SUFFICES ASSUME TypeInv, OwnInv, KeyInv, NEW s \in Task, NEW t \in Task,
                        Executing(s), Executing(t), s # t, loc[s].key = loc[t].key,
                        loc[s].key # NoKey, ~loc[s].gaveUp, ~loc[t].gaveUp
                 PROVE  FALSE
      BY LocalTypes DEF OneOwnerPerKey
    <2>1. loc[s].id = loc[t].id
      BY DEF KeyInv, KeyOK, Executing
    <2>2. Owns(s) /\ Owns(t)
      BY LocalTypes DEF Owns, Executing, PointOK, HasId, PastClaim
    <2>3. QED
      BY <2>1, <2>2 DEF OwnInv, IdsApart
  <1>3. QED
    BY <1>1, <1>2, NextKeyInv, TypeInvariance, IdsHaveOneOwner, PTL DEF Spec

-----------------------------------------------------------------------------
(* Replies *)

(* Nothing was stored under an id but that it is running, nor told of it. *)
Quiet(i) ==
    rows[i] \in {"absent", "running"} /\ promised[i] = "none" /\ i \notin known
(* Its pause may have been stored, told and taken. *)
Halted(i) ==
    rows[i] \in {"absent", "running", "paused"} /\ promised[i] \in {"none", "paused"}

Awaits(i, outcome) == IF outcome = "paused" THEN Halted(i) ELSE Quiet(i)

OwnerOK(t) ==
    Owns(t) => IF pc[t] = "persist" THEN Awaits(loc[t].id, loc[t].outcome)
                                    ELSE Quiet(loc[t].id)

(* Only what was told can be resumed. *)
ResumesTold == \A t \in Task : loc[t].kind = "resume" => loc[t].id \in known

ReplyInv ==
    /\ RepliesAreDurable /\ ResumesTold
    /\ \A t \in Task : OwnerOK(t)
    /\ \A w \in Puts : Awaits(w.id, w.row)
    /\ \A i \in Id \ minted : Quiet(i)

(* What holds of an id that others may own goes on holding. *)
Calm(i) == (Quiet(i) => Quiet(i)') /\ (Halted(i) => Halted(i)')

(* A step of one task that disturbs at most the id it owns.                *)
LEMMA MoveReplyInv ==
  ASSUME TypeInv, OwnInv, ReplyInv, NEW t \in Task, NEW point, NEW l, Moved(t, point, l),
         minted \subseteq minted',
         \/ late' = late
         \/ late' = late \cup LateOp(t) /\ UNCHANGED <<rows, promised, known>>,
         \A i \in Id : Calm(i) \/ (Owns(t) /\ i = loc[t].id),
         RepliesAreDurable', known \subseteq known',
         l.kind = "resume" => l.id \in known',
         l.kind = "execute" /\ l.id \in Id =>
             IF point = "persist" THEN Awaits(l.id, l.outcome)' ELSE Quiet(l.id)'
  PROVE  ReplyInv'
  <1>1. ASSUME NEW s \in Task PROVE OwnerOK(s)'
    <2>1. CASE s = t
      BY <2>1 DEF OwnerOK, Owns, Moved, TypeInv, TypeOK
    <2>2. CASE s # t
      <3>1. UNCHANGED <<pc[s], loc[s]>>
        BY <2>2 DEF Moved, TypeInv, TypeOK
      <3>2. Owns(s) => loc[s].id \in Id /\ Calm(loc[s].id)
        BY <2>2 DEF OwnInv, IdsApart, Owns
      <3>3. OwnerOK(s)
        BY DEF ReplyInv
      <3>4. QED
        BY <3>1, <3>2, <3>3 DEF OwnerOK, Owns, Awaits, Calm
    <2>3. QED
      BY <2>1, <2>2
  <1>2. ASSUME NEW w \in Puts' PROVE Awaits(w.id, w.row)'
    <2>1. CASE w \in Puts
      <3>1. w.id \in Id /\ (Owns(t) => loc[t].id # w.id)
        BY <2>1 DEF OwnInv, PutsApart, Puts, TypeInv, TypeOK, LateOps
      <3>2. Calm(w.id) /\ Awaits(w.id, w.row)
        BY <2>1, <3>1 DEF ReplyInv
      <3>3. QED
        BY <3>2 DEF Awaits, Calm
    <2>2. CASE w \notin Puts
      <3>1. w \in LateOp(t) /\ w.op = "put" /\ UNCHANGED <<rows, promised, known>>
        BY <2>2 DEF Puts
      <3>2. /\ Owns(t) /\ pc[t] \in {"markRunning", "persist"} /\ w.id = loc[t].id
            /\ w.row = (IF pc[t] = "persist" THEN loc[t].outcome ELSE "running")
        BY <3>1, LateOpOwned
      <3>3. Awaits(w.id, w.row)
        BY <3>2 DEF ReplyInv, OwnerOK, Awaits
      <3>4. QED
        BY <3>1, <3>3 DEF Awaits, Quiet, Halted
    <2>3. QED
      BY <2>1, <2>2
  <1>3. ASSUME NEW i \in Id \ minted' PROVE Quiet(i)'
    <2>1. Quiet(i) /\ ~(Owns(t) /\ i = loc[t].id)
      BY RoleOf DEF ReplyInv, RoleOK, Owns
    <2>2. QED
      BY <2>1 DEF Calm
  <1>4. ResumesTold'
    BY DEF ReplyInv, ResumesTold, Moved, TypeInv, TypeOK
  <1>5. QED
    BY <1>1, <1>2, <1>3, <1>4 DEF ReplyInv

(* Steps that leave rows and replies alone.                                *)
LEMMA StillReplyInv ==
  ASSUME TypeInv, OwnInv, ReplyInv, NEW t \in Task, NEW point, NEW l, Moved(t, point, l),
         minted \subseteq minted', late' = late \/ late' = late \cup LateOp(t),
         UNCHANGED <<rows, promised, known, takes>>,
         l.kind = "resume" => l.id \in known,
         l.kind = "execute" /\ l.id \in Id =>
             IF point = "persist" THEN Awaits(l.id, l.outcome) ELSE Quiet(l.id)
  PROVE  ReplyInv'
  <1>1. \A i \in Id : Calm(i)
    BY DEF Calm, Quiet, Halted
  <1>2. RepliesAreDurable'
    BY DEF ReplyInv, RepliesAreDurable
  <1>3. l.kind = "execute" /\ l.id \in Id =>
            IF point = "persist" THEN Awaits(l.id, l.outcome)' ELSE Quiet(l.id)'
    BY DEF Awaits, Quiet, Halted
  <1>4. QED
    BY <1>1, <1>2, <1>3, MoveReplyInv

(* Going on without touching a row.                                        *)
LEMMA GoOnReplyInv ==
  ASSUME TypeInv, OwnInv, ReplyInv, NEW t \in Task, NEW point, NEW l, Goto(t, point, l),
         UNCHANGED <<minted, late, rows, promised, known, takes>>,
         l.kind = loc[t].kind, l.id = loc[t].id, pc[t] # "persist",
         point # "persist" \/ l.outcome # "paused"
  PROVE  ReplyInv'
  <1>1. Moved(t, point, l)
    BY DEF Goto, Moved
  <1>2. l.kind = "execute" /\ l.id \in Id => Quiet(l.id)
    BY DEF ReplyInv, OwnerOK, Owns
  <1>3. l.kind = "resume" => l.id \in known
    BY DEF ReplyInv, ResumesTold
  <1>4. QED
    BY <1>1, <1>2, <1>3, StillReplyInv DEF Awaits

(* Returning without touching a row.                                       *)
LEMMA ReturnReplyInv ==
  ASSUME TypeInv, OwnInv, ReplyInv, NEW t \in Task, Return(t), UNCHANGED minted,
         late' = late \/ late' = late \cup LateOp(t),
         UNCHANGED <<rows, promised, known, takes>>
  PROVE  ReplyInv'
  <1>1. Moved(t, "idle", NoLocals) /\ NoLocals.id \notin Id /\ NoLocals.kind = "none"
    BY NoLocalsType, ValuesAssumption DEF Return, Moved, NoLocals
  <1>2. QED
    BY <1>1, StillReplyInv

(* The steps of execute that write no row.                                 *)
LEMMA NoWriteReplyInv ==
  ASSUME TypeInv, OwnInv, GateInv, ReplyInv, NEW t \in Task,
         \/ Replay(t) \/ Mint(t) \/ Claim(t) \/ ReadWinner(t) \/ Gate(t) \/ ReadSession(t)
         \/ Dispatch(t) \/ Invoke(t) \/ AuthPause(t) \/ ToolAnswers(t) \/ TakeSelect(t)
         \/ Remember(t) \/ RememberPolicy(t) \/ Resolve(t) \/ Fail(t) \/ Deadline(t)
  PROVE  ReplyInv'
  <1>1. RoleOK(pc[t], loc[t], minted) /\ loc[t] \in Locals /\ PointOK(pc[t], loc[t], idem)
    BY RoleOf
  <1>2. CASE Mint(t)
    <2>1. PICK i \in Id \ minted, point \in {"gate", "claim"} :
            minted' = minted \cup {i} /\ Goto(t, point, [loc[t] EXCEPT !.id = i])
      BY <1>2 DEF Mint
    <2> DEFINE l == [loc[t] EXCEPT !.id = i]
    <2>2. l.id = i /\ l.kind # "resume" /\ Moved(t, point, l) /\ UNCHANGED <<late, rows, promised, known, takes>>
      BY <1>1, <1>2, <2>1 DEF Locals, Goto, Moved, Mint, RoleOK, ResumePlaces
    <2>3. Quiet(i)
      BY <2>1 DEF ReplyInv
    <2> HIDE DEF l
    <2>4. QED
      BY <2>1, <2>2, <2>3, StillReplyInv
  <1>3. CASE Replay(t) \/ Claim(t) \/ ReadWinner(t) \/ Gate(t) \/ ReadSession(t)
             \/ Dispatch(t) \/ Invoke(t) \/ TakeSelect(t) \/ Resolve(t)
    <2>1. UNCHANGED <<minted, late, rows, promised, known, takes>> /\ pc[t] # "persist"
      BY <1>3 DEF Replay, Claim, ReadWinner, Gate, ReadSession, Dispatch, Invoke,
                  TakeSelect, Resolve
    <2>2. CASE Return(t)
      BY <2>1, <2>2, ReturnReplyInv
    <2>3. ASSUME NEW x, NEW y
          PROVE  /\ [loc[t] EXCEPT !.target = x, !.polls = y].kind = loc[t].kind
                 /\ [loc[t] EXCEPT !.target = x, !.polls = y].id = loc[t].id
                 /\ [loc[t] EXCEPT !.auto = x].kind = loc[t].kind
                 /\ [loc[t] EXCEPT !.auto = x].id = loc[t].id
                 /\ [loc[t] EXCEPT !.row = x].kind = loc[t].kind
                 /\ [loc[t] EXCEPT !.row = x].id = loc[t].id
      BY <1>1 DEF Locals
    <2>4. ASSUME NEW point \in {"mint", "join", "winner", "markRunning", "session",
                                "dispatch", "pause", "lookup", "invoking", "delete"},
                 NEW l, Goto(t, point, l), l.kind = loc[t].kind, l.id = loc[t].id
          PROVE  ReplyInv'
      BY <2>1, <2>4, GoOnReplyInv
    <2>5. CASE Replay(t) \/ ReadWinner(t)
      BY <2>3, <2>4, <2>5 DEF Replay, ReadWinner
    <2>6. CASE Claim(t) \/ Gate(t) \/ ReadSession(t)
      BY <2>2, <2>3, <2>4, <2>6 DEF Claim, Gate, ReadSession
    <2>7. CASE Dispatch(t) \/ Invoke(t) \/ TakeSelect(t) \/ Resolve(t)
      BY <2>2, <2>3, <2>4, <2>7 DEF Dispatch, Invoke, TakeSelect, Resolve
    <2>8. QED
      BY <1>3, <2>5, <2>6, <2>7
  <1>4. CASE (AuthPause(t) \/ ToolAnswers(t)) /\ loc[t].kind = "execute"
    <2>1. PICK outcome, l : /\ l = [loc[t] EXCEPT !.outcome = outcome]
                            /\ Goto(t, "persist", l) /\ outcome \in {"paused", "completed"}
                            /\ UNCHANGED <<minted, late, rows, promised, known, takes>>
      BY <1>4 DEF AuthPause, ToolAnswers, Finish
    <2>2. l.kind = loc[t].kind /\ l.id = loc[t].id /\ l.outcome = outcome
      BY <1>1, <2>1 DEF Locals
    <2>3. pc[t] # "persist"
      BY <1>4 DEF AuthPause, ToolAnswers
    <2>4. l.id \in Id => Quiet(l.id)
      BY <1>4, <2>2, <2>3 DEF ReplyInv, OwnerOK, Owns
    <2>5. l.id \in Id => Awaits(l.id, l.outcome)
      BY <2>4 DEF Awaits, Quiet, Halted
    <2>6. QED
      BY <1>4, <2>1, <2>2, <2>5, StillReplyInv DEF Goto, Moved
  <1>5. CASE (AuthPause(t) \/ ToolAnswers(t)) /\ loc[t].kind # "execute"
    <2>1. PICK i : /\ i = loc[t].id /\ i \in Id /\ i \in known /\ takes[i] > 0
      <3>1. pc[t] \in {"lookup", "invoking"}
        BY <1>5 DEF AuthPause, ToolAnswers
      <3>2. loc[t].kind = "resume"
        BY <1>1, <1>5, <3>1 DEF RoleOK, Locals
      <3>3. QED
        BY <1>1, <3>1, <3>2 DEF GateInv, TaskCleared, Cleared, ReplyInv, ResumesTold,
                                PointOK, HasId, ResumePoints
    <2>2. /\ Return(t) /\ UNCHANGED <<minted, late, rows, takes>> /\ known' = known
          /\ \/ UNCHANGED promised
             \/ OauthTool /\ promised' = [promised EXCEPT ![i] = "paused"]
      BY <1>5, <2>1 DEF AuthPause, ToolAnswers, Finish
    <2>3. \A j \in Id : Calm(j)
      BY <2>1, <2>2 DEF Calm, Quiet, Halted, TypeInv, TypeOK
    <2>4. RepliesAreDurable'
      BY <2>1, <2>2 DEF ReplyInv, RepliesAreDurable, TypeInv, TypeOK
    <2>5. PICK l : Moved(t, "idle", l) /\ l = NoLocals
      BY <2>2 DEF Return, Moved
    <2>6. l.id \notin Id /\ l.kind = "none"
      BY <2>5, NoLocalsType, ValuesAssumption DEF NoLocals
    <2>7. QED
      BY <2>2, <2>3, <2>4, <2>5, <2>6, MoveReplyInv
  <1>6. CASE Remember(t) \/ RememberPolicy(t)
    <2>1. PICK point \in {"rememberPolicy", "resolve"} : pc' = [pc EXCEPT ![t] = point]
      BY <1>6 DEF Remember, RememberPolicy
    <2>2. /\ loc' = [loc EXCEPT ![t] = loc[t]] /\ UNCHANGED <<minted, late, rows, promised, known, takes>>
          /\ pc[t] # "persist"
      BY <1>6 DEF Remember, RememberPolicy, TypeInv, TypeOK
    <2>3. /\ loc[t].kind = "execute" /\ loc[t].id \in Id => Quiet(loc[t].id)
          /\ loc[t].kind = "resume" => loc[t].id \in known
      BY <2>2 DEF ReplyInv, OwnerOK, Owns, ResumesTold
    <2>4. QED
      BY <2>1, <2>2, <2>3, StillReplyInv DEF Moved
  <1>7. CASE Fail(t) \/ Deadline(t)
    <2>1. /\ Return(t) /\ UNCHANGED <<minted, rows, promised, known, takes>>
          /\ late' = late \/ late' = late \cup LateOp(t)
      BY <1>7 DEF Fail, Deadline
    <2>2. QED
      BY <2>1, ReturnReplyInv
  <1>8. QED
    BY <1>2, <1>3, <1>4, <1>5, <1>6, <1>7

(* The steps of execute that write a row or tell an outcome.               *)
LEMMA WriteReplyInv ==
  ASSUME TypeInv, OwnInv, ReplyInv, NEW t \in Task,
         Join(t) \/ MarkRunning(t) \/ Pause(t) \/ PersistOutcome(t)
  PROVE  ReplyInv'
  <1>1. RoleOK(pc[t], loc[t], minted) /\ loc[t] \in Locals /\ PointOK(pc[t], loc[t], idem)
        /\ loc[t].kind = "execute"
    <2>1. pc[t] \in {"join", "markRunning", "pause", "persist"}
      BY DEF Join, MarkRunning, Pause, PersistOutcome
    <2>2. QED
      BY <2>1, RoleOf, ExecuteAt DEF ResumePlaces
  <1>2. NoLocals.id \notin Id /\ NoLocals.kind = "none"
    BY NoLocalsType, ValuesAssumption DEF NoLocals
  <1>3. CASE Join(t)
    <2>1. loc[t].target \in Id /\ pc[t] = "join" /\ UNCHANGED <<minted, late, rows, takes>>
      BY <1>1, <1>3 DEF Join, PointOK
    <2>2. CASE /\ rows[loc[t].target] \in {"paused", "completed"}
               /\ Reply(loc[t].target, rows[loc[t].target]) /\ Return(t)
      <3>1. Moved(t, "idle", NoLocals)
            /\ promised' = [promised EXCEPT ![loc[t].target] = rows[loc[t].target]]
            /\ known' = known \cup {loc[t].target}
        BY <2>2 DEF Return, Moved, Reply
      <3>2. \A i \in Id : Calm(i)
        BY <2>1, <2>2, <3>1 DEF Calm, Quiet, Halted, TypeInv, TypeOK
      <3>3. RepliesAreDurable'
        BY <2>1, <3>1 DEF ReplyInv, RepliesAreDurable, TypeInv, TypeOK
      <3>4. QED
        BY <1>2, <2>1, <3>1, <3>2, <3>3, MoveReplyInv
    <2>3. CASE rows[loc[t].target] \in {"absent", "running"}
      <3> DEFINE m == loc[t].polls + 1
                 l == [loc[t] EXCEPT !.polls = m]
                 u == [loc[t] EXCEPT !.polls = m, !.gaveUp = TRUE]
      <3>1. /\ l.kind = loc[t].kind /\ l.id = loc[t].id
            /\ u.kind = loc[t].kind /\ u.id = loc[t].id
        BY <1>1 DEF Locals
      <3>2. UNCHANGED <<promised, known>> /\ (Goto(t, "join", l) \/ Goto(t, "mint", l) \/ Goto(t, "gate", u))
        BY <1>3, <2>3 DEF Join
      <3> HIDE DEF l, u
      <3>3. QED
        BY <2>1, <3>1, <3>2, GoOnReplyInv
    <2>4. QED
      BY <1>3, <2>2, <2>3 DEF Join
  <1>4. ASSUME NEW row, rows' = [rows EXCEPT ![loc[t].id] = row], loc[t].id \in Id
        PROVE  \A i \in Id : (i # loc[t].id /\ promised'[i] = promised[i]
                               /\ (i \in known' => i \in known)) => Calm(i)
    BY <1>4 DEF Calm, Quiet, Halted, TypeInv, TypeOK
  <1>5. CASE MarkRunning(t) \/ Pause(t)
    <2> DEFINE paused == [loc[t] EXCEPT !.outcome = "paused"]
    <2>1. PICK row, point, l :
            /\ rows' = [rows EXCEPT ![loc[t].id] = row] /\ Moved(t, point, l)
            /\ \/ row = "running" /\ point = "gate" /\ l = loc[t]
               \/ row = "paused" /\ point = "persist" /\ l = paused
      BY <1>5 DEF MarkRunning, Pause, Goto, Moved
    <2>2. /\ UNCHANGED <<minted, late, promised, known, takes>> /\ loc[t].id \in Id
          /\ pc[t] # "persist"
      BY <1>1, <1>5 DEF MarkRunning, Pause, PointOK, HasId
    <2>3. l.kind = "execute" /\ l.id = loc[t].id /\ (point = "persist" => l.outcome = "paused")
      BY <1>1, <2>1 DEF Locals
    <2> HIDE DEF paused
    <2>4. Quiet(loc[t].id)
      BY <1>1, <2>2 DEF ReplyInv, OwnerOK, Owns
    <2>5. IF point = "persist" THEN Awaits(l.id, l.outcome)' ELSE Quiet(l.id)'
      BY <2>1, <2>2, <2>4, <2>3 DEF Awaits, Quiet, Halted, TypeInv, TypeOK
    <2>6. RepliesAreDurable'
      BY <2>1, <2>2, <2>4 DEF ReplyInv, RepliesAreDurable, Quiet, TypeInv, TypeOK
    <2>7. \A i \in Id : Calm(i) \/ (Owns(t) /\ i = loc[t].id)
      BY <1>1, <1>4, <2>1, <2>2 DEF Owns
    <2>8. QED
      BY <2>1, <2>2, <2>5, <2>6, <2>7, <2>3, MoveReplyInv
  <1>6. CASE PersistOutcome(t)
    <2>1. /\ rows' = [rows EXCEPT ![loc[t].id] = loc[t].outcome] /\ loc[t].id \in Id
          /\ promised' = [promised EXCEPT ![loc[t].id] = loc[t].outcome]
          /\ UNCHANGED <<minted, late, takes>> /\ Moved(t, "idle", NoLocals)
          /\ known' = known \cup {loc[t].id}
      BY <1>1, <1>6 DEF PersistOutcome, Reply, Return, Moved, PointOK, HasId
    <2>2. \A i \in Id : Calm(i) \/ (Owns(t) /\ i = loc[t].id)
      BY <1>1, <1>4, <2>1 DEF Owns, TypeInv, TypeOK
    <2>3. RepliesAreDurable'
      BY <2>1 DEF ReplyInv, RepliesAreDurable, TypeInv, TypeOK
    <2>4. QED
      BY <1>2, <2>1, <2>2, <2>3, MoveReplyInv
  <1>7. QED
    BY <1>3, <1>5, <1>6

(* A resume that takes a row takes back what was promised of it.           *)
LEMMA TakeReplyInv ==
  ASSUME TypeInv, OwnInv, ReplyInv, NEW t \in Task, TakeAtomic(t) \/ TakeDelete(t)
  PROVE  ReplyInv'
  <1>1. RoleOK(pc[t], loc[t], minted) /\ loc[t] \in Locals /\ loc[t].id \in Id
        /\ loc[t].kind = "resume"
    BY RoleOf DEF TakeAtomic, TakeDelete, PointOK, HasId, RoleOK, TakePoints, Locals
  <1>2. /\ rows' = [rows EXCEPT ![loc[t].id] = "absent"]
        /\ promised' = [promised EXCEPT ![loc[t].id] = "none"]
        /\ UNCHANGED <<minted, late, known>> /\ loc[t].id \in known
    BY <1>1 DEF TakeAtomic, TakeDelete, Taken, Consume, ReplyInv, ResumesTold
  <1>3. \A i \in Id : Calm(i)
    BY <1>1, <1>2 DEF Calm, Quiet, Halted, TypeInv, TypeOK
  <1>4. RepliesAreDurable'
    <2>1. TakesGrow
      BY DEF TakeAtomic, TakeDelete, Taken, Consume, TakesGrow, TypeInv, TypeOK
    <2>2. QED
      BY <1>1, <1>2, <2>1 DEF ReplyInv, RepliesAreDurable, TakesGrow, TypeInv, TypeOK
  <1> DEFINE l == [loc[t] EXCEPT !.auto = TRUE, !.row = "absent"]
  <1>5. l.kind = "resume" /\ l.id = loc[t].id
    BY <1>1 DEF Locals
  <1>6. NoLocals.id \notin Id /\ NoLocals.kind = "none"
    BY NoLocalsType, ValuesAssumption DEF NoLocals
  <1>7. Moved(t, "idle", NoLocals) \/ Moved(t, "resolve", l) \/ Moved(t, "remember", l)
    BY DEF TakeAtomic, TakeDelete, Taken, Return, Goto, Moved
  <1> HIDE DEF l
  <1>8. QED
    BY <1>2, <1>3, <1>4, <1>5, <1>6, <1>7, MoveReplyInv

(* A store operation left behind writes what its id may still become.      *)
LEMMA LateReplyInv ==
  ASSUME TypeInv, OwnInv, ReplyInv, NEW w \in late, LateOpRuns(w)
  PROVE  ReplyInv'
  <1>1. UNCHANGED <<pc, loc, minted, known, takes>> /\ late' = late \ {w} /\ w \in LateOps
    BY DEF LateOpRuns, TypeInv, TypeOK
  <1>2. w.id \in Id
    BY <1>1 DEF LateOps
  <1>3. \A i \in Id : Calm(i) \/ (i = w.id /\ w \in Puts)
    BY <1>1, <1>2 DEF LateOpRuns, Puts, Calm, Quiet, Halted, TypeInv, TypeOK
  <1>4. RepliesAreDurable'
    <2>1. CASE w.op = "put" /\ rows' = [rows EXCEPT ![w.id] = w.row] /\ UNCHANGED promised
      <3>1. Awaits(w.id, w.row)
        BY <2>1 DEF ReplyInv, Puts
      <3>2. QED
        BY <1>1, <1>2, <2>1, <3>1
        DEF ReplyInv, RepliesAreDurable, Awaits, Quiet, Halted, TypeInv, TypeOK
    <2>2. CASE UNCHANGED <<rows, promised>>
      BY <1>1, <2>2 DEF ReplyInv, RepliesAreDurable
    <2>3. CASE /\ rows' = [rows EXCEPT ![w.id] = "absent"]
               /\ promised' = [promised EXCEPT ![w.id] = "none"]
      BY <1>1, <1>2, <2>3 DEF ReplyInv, RepliesAreDurable, TypeInv, TypeOK
    <2>4. QED
      BY <2>1, <2>2, <2>3 DEF LateOpRuns
  <1>5. ASSUME NEW s \in Task PROVE OwnerOK(s)'
    <2>1. Owns(s) => loc[s].id \in Id /\ Calm(loc[s].id)
      BY <1>3 DEF OwnInv, PutsApart, Owns
    <2>2. OwnerOK(s)
      BY DEF ReplyInv
    <2>3. QED
      BY <1>1, <2>1, <2>2 DEF OwnerOK, Owns, Awaits, Calm
  <1>6. ASSUME NEW v \in Puts' PROVE Awaits(v.id, v.row)'
    <2>1. v \in Puts /\ v # w /\ v.id \in Id
      BY <1>1 DEF Puts, TypeInv, TypeOK, LateOps
    <2>2. Calm(v.id) /\ Awaits(v.id, v.row)
      BY <1>3, <2>1 DEF OwnInv, PutsApart, ReplyInv
    <2>3. QED
      BY <2>2 DEF Awaits, Calm
  <1>7. ASSUME NEW i \in Id \ minted' PROVE Quiet(i)'
    <2>1. Quiet(i) /\ i # w.id
      BY <1>1 DEF ReplyInv, OwnInv, NamesMinted
    <2>2. QED
      BY <1>3, <2>1 DEF Calm
  <1>8. QED
    BY <1>1, <1>4, <1>5, <1>6, <1>7 DEF ReplyInv, ResumesTold

(* Every step keeps every reply true.                                      *)
LEMMA NextReplyInv ==
  ASSUME TypeInv, OwnInv, GateInv, ReplyInv, [Next]_vars
  PROVE  ReplyInv'
  <1>1. ASSUME NEW t \in Task, NEW k \in Key \cup {NoKey}, NEW yes \in BOOLEAN,
               StartExecute(t, k, yes)
        PROVE  ReplyInv'
    <2> DEFINE l == [NoLocals EXCEPT !.kind = "execute", !.key = k, !.yes = yes]
    <2>1. /\ \E point : Moved(t, point, l)
          /\ UNCHANGED <<minted, late, rows, promised, known, takes>>
      BY <1>1 DEF StartExecute, Admit, Moved
    <2>2. l.id \notin Id /\ l.kind = "execute"
      BY NoLocalsType, ValuesAssumption DEF Locals
    <2> HIDE DEF l
    <2>3. QED
      BY <2>1, <2>2, StillReplyInv
  <1>2. ASSUME NEW t \in Task, NEW i \in Id, NEW a \in {"accept", "decline"},
               NEW c \in Choices, StartResume(t, i, a, c)
        PROVE  ReplyInv'
    <2> DEFINE l == [NoLocals EXCEPT !.kind = "resume", !.id = i,
                                     !.action = a, !.choice = c]
    <2>1. Moved(t, "take", l) /\ i \in known /\ UNCHANGED <<minted, late, rows, promised, known, takes>>
      BY <1>2 DEF StartResume, Admit, Moved
    <2>2. l.kind = "resume" /\ l.id = i
      BY NoLocalsType DEF Locals
    <2> HIDE DEF l
    <2>3. QED
      BY <2>1, <2>2, StillReplyInv
  <1>3. CASE \E t \in Task : Step(t)
    BY <1>3, NoWriteReplyInv, WriteReplyInv, TakeReplyInv DEF Step
  <1>4. CASE \E w \in late : LateOpRuns(w)
    BY <1>4, LateReplyInv
  <1>5. CASE Crash
    <2>1. /\ \A t \in Task : pc'[t] = "idle" /\ loc'[t] = NoLocals
          /\ late' = {} /\ UNCHANGED <<minted, rows, promised, known, takes>>
      BY <1>5 DEF Crash
    <2>2. NoLocals.kind = "none"
      BY DEF NoLocals
    <2>3. QED
      BY <2>1, <2>2 DEF ReplyInv, ResumesTold, RepliesAreDurable, OwnerOK, Owns, Puts, Quiet
  <1>6. CASE (\E a \in Policies : SetPolicy(a)) \/ UNCHANGED vars
    <2>1. UNCHANGED <<pc, loc, late, minted, rows, promised, known, takes>>
      BY <1>6 DEF SetPolicy, vars
    <2>2. QED
      BY <2>1
      DEF ReplyInv, ResumesTold, RepliesAreDurable, OwnerOK, Owns, Puts, Awaits, Quiet,
          Halted
  <1>7. QED
    BY <1>1, <1>2, <1>3, <1>4, <1>5, <1>6 DEF Next

(* What a call told its caller stays in the store until a resume takes it, *)
(* across dropped calls, late store operations, joined keys, restarts and  *)
(* both stores' takes; the OAuth pause of a resume is the only reply that  *)
(* may have no row.                                                        *)
THEOREM RepliesStand == Spec => []RepliesAreDurable
  <1>1. Init => ReplyInv
    BY NoLocalsType, ValuesAssumption
    DEF Init, ReplyInv, ResumesTold, RepliesAreDurable, OwnerOK, Owns, Puts, Quiet,
        NoLocals
  <1>2. TypeInv /\ OwnInv /\ GateInv /\ ReplyInv /\ [Next]_vars => ReplyInv'
    BY NextReplyInv
  <1>3. ReplyInv => RepliesAreDurable
    BY DEF ReplyInv
  <1>4. QED
    BY <1>1, <1>2, <1>3, TypeInvariance, GateInvariance,
       IdsHaveOneOwner, PTL DEF Spec

-----------------------------------------------------------------------------
(* Decisions *)

(* Calls with the key bound to an id may be told of its pause too early. *)
Shared(i) == i \in Id /\ \E k \in Key : idem[k] = i

(* Nobody was told of the id, so nobody decided on it. *)
Undecided(i) == i \notin known /\ takes[i] = 0

IdDecided(i) ==
    /\ takes[i] <= 1
    /\ i \notin known => takes[i] = 0
    /\ rows[i] = "paused" => takes[i] = 0 /\ runs[i] = 0
    /\ i \in declined => takes[i] = 1 /\ runs[i] = 0
    /\ i \notin minted => rows[i] # "paused" /\ runs[i] = 0

(* Where an execute has not called the tool yet. *)
RunsNothing == {"replay", "join", "mint", "claim", "winner", "markRunning", "gate",
                "session", "dispatch", "pause", "lookup"}

(* What an execute that owns its id and a resume may still find of their   *)
(* execution.                                                              *)
OwnerUndecided(point, l) ==
    l.kind = "execute" /\ l.id \in Id /\ ~Shared(l.id) =>
        /\ Undecided(l.id)
        /\ (point \in RunsNothing \/ l.outcome = "paused") => runs[l.id] = 0
        /\ point # "persist" => rows[l.id] # "paused"

ResumeDecided(point, l) ==
    l.kind = "resume" =>
        /\ l.id \in known
        /\ point # "take" /\ ~Shared(l.id) => takes[l.id] = 1 /\ l.id \notin declined

TaskDecided(point, l) ==
    /\ point # "delete"
    /\ point = "join" => Shared(l.target)
    /\ point # "persist" => l.outcome = "none"
    /\ OwnerUndecided(point, l) /\ ResumeDecided(point, l)

LateUndecided(w) ==
    ~Shared(w.id) => Undecided(w.id) /\ (w.row = "paused" => runs[w.id] = 0)

DecisionInv ==
    /\ \A i \in Id : Shared(i) \/ IdDecided(i)
    /\ \A t \in Task : TaskDecided(pc[t], loc[t])
    /\ \A w \in Puts : LateUndecided(w)

(* Nothing happened to an id, *)
Still(i) ==
    /\ i \in known' <=> i \in known
    /\ takes'[i] = takes[i] /\ runs'[i] = runs[i]
    /\ rows'[i] = "paused" => rows[i] = "paused"
    /\ i \in declined' <=> i \in declined

(* or nothing that changes a decision about it. *)
Upheld(i) ==
    i \in known /\ i \in known'
    /\ (takes[i] = 1 => takes'[i] = 1 /\ (i \in declined' => i \in declined))

(* An id that is bound to a key stays bound, and an unminted one is not.   *)
LEMMA SharedKept ==
  ASSUME TypeInv, OwnInv
  PROVE  /\ KeysKept => \A i : Shared(i) => Shared(i)'
         /\ UNCHANGED idem => KeysKept /\ \A i : Shared(i)' = Shared(i)
         /\ \A i \in Id \ minted : ~Shared(i)
  BY DEF KeysKept, Shared, OwnInv, NamesMinted

(* A step of one task that touches its own execution only.                 *)
LEMMA MoveDecisionInv ==
  ASSUME TypeInv, OwnInv, DecisionInv, NEW t \in Task, NEW point, NEW l,
         Moved(t, point, l), minted \subseteq minted', known \subseteq known', KeysKept,
         \/ late' = late
         \/ late' = late \cup LateOp(t) /\ UNCHANGED <<known, takes, runs>>,
         \A i \in Id : Shared(i) \/ Still(i) \/ (/\ i = loc[t].id /\ IdDecided(i)'
                                                 /\ Owns(t) \/ Upheld(i)),
         TaskDecided(point, l)'
  PROVE  DecisionInv'
  <1>0. \A i : Shared(i) => Shared(i)'
    BY SharedKept
  <1>1. ASSUME NEW i \in Id PROVE Shared(i)' \/ IdDecided(i)'
    BY <1>0 DEF DecisionInv, IdDecided, Still
  <1>2. ASSUME NEW s \in Task PROVE TaskDecided(pc[s], loc[s])'
    <2>1. CASE s = t
      BY <2>1 DEF Moved, TypeInv, TypeOK, TaskDecided, OwnerUndecided, ResumeDecided
    <2>2. CASE s # t
      <3>1. /\ pc'[s] = pc[s] /\ loc'[s] = loc[s] /\ TaskDecided(pc[s], loc[s])
            /\ loc[s].id \in Id \cup {NoId}
        BY <2>2, LocalTypes DEF Moved, TypeInv, TypeOK, DecisionInv, Locals
      <3>2. Owns(s) /\ ~Shared(loc[s].id) => Still(loc[s].id)
        BY <2>2, <3>1 DEF OwnInv, IdsApart, Owns, Upheld, TaskDecided, OwnerUndecided,
                          Undecided
      <3>3. OwnerUndecided(pc[s], loc[s])'
        BY <1>0, <3>1, <3>2 DEF TaskDecided, OwnerUndecided, Undecided, Owns, Still
      <3>4. ResumeDecided(pc[s], loc[s])'
        <4>1. CASE loc[s].kind = "resume"
          <5>1. loc[s].id \in Id /\ loc[s].id \in known
            BY <3>1, <4>1 DEF TaskDecided, ResumeDecided, TypeInv, TypeOK
          <5>2. Shared(loc[s].id) \/ Still(loc[s].id) \/ Upheld(loc[s].id)
            BY <5>1 DEF Owns, DecisionInv, TaskDecided, OwnerUndecided, Undecided
          <5>3. QED
            BY <1>0, <3>1, <5>1, <5>2 DEF TaskDecided, ResumeDecided, Still, Upheld
        <4>2. QED
          BY <3>1, <4>1 DEF ResumeDecided
      <3>5. QED
        BY <1>0, <3>1, <3>3, <3>4 DEF TaskDecided
    <2>3. QED
      BY <2>1, <2>2
  <1>3. ASSUME NEW w \in Puts', ~Shared(w.id)' PROVE LateUndecided(w)'
    <2>1. CASE w \in Puts
      <3>1. /\ LateUndecided(w) /\ w.id \in Id /\ (Owns(t) => loc[t].id # w.id)
            /\ ~Shared(w.id)
        BY <1>0, <1>3, <2>1 DEF DecisionInv, OwnInv, PutsApart, Puts, TypeInv, TypeOK,
                                LateOps
      <3>2. Still(w.id)
        BY <3>1 DEF LateUndecided, Undecided, Upheld
      <3>3. QED
        BY <3>1, <3>2 DEF LateUndecided, Undecided, Still
    <2>2. CASE w \notin Puts
      <3>1. w \in LateOp(t) /\ w.op = "put" /\ UNCHANGED <<known, takes, runs>>
        BY <2>2 DEF Puts
      <3>2. /\ Owns(t) /\ w.id = loc[t].id
            /\ w.row = (IF pc[t] = "persist" THEN loc[t].outcome ELSE "running")
        BY <3>1, LateOpOwned
      <3>3. LateUndecided(w) /\ ~Shared(w.id)
        BY <1>0, <1>3, <3>2 DEF DecisionInv, TaskDecided, OwnerUndecided, LateUndecided,
                                Owns
      <3>4. QED
        BY <3>1, <3>3 DEF LateUndecided, Undecided
    <2>3. QED
      BY <2>1, <2>2
  <1>4. QED
    BY <1>1, <1>2, <1>3 DEF DecisionInv, LateUndecided

(* Steps that decide nothing.                                              *)
LEMMA StillDecisionInv ==
  ASSUME TypeInv, OwnInv, DecisionInv, NEW t \in Task, NEW point, NEW l,
         Moved(t, point, l), minted \subseteq minted',
         late' = late \/ late' = late \cup LateOp(t), KeysKept,
         UNCHANGED <<known, takes, runs, declined>>,
         \A i \in Id : rows'[i] = "paused" => rows[i] = "paused",
         TaskDecided(point, l)
  PROVE  DecisionInv'
  <1>1. \A i \in Id : Still(i)
    BY DEF Still
  <1>2. TaskDecided(point, l)'
    BY SharedKept DEF TaskDecided, OwnerUndecided, ResumeDecided, Undecided
  <1>3. QED
    BY <1>1, <1>2, MoveDecisionInv

(* Going on under the same id with nothing decided.                        *)
LEMMA GoOnDecisionInv ==
  ASSUME TypeInv, OwnInv, DecisionInv, NEW t \in Task, NEW point, NEW l,
         Moved(t, point, l), UNCHANGED <<minted, late, known, takes, runs, declined>>,
         \A i \in Id : rows'[i] = "paused" => rows[i] = "paused", KeysKept,
         pc[t] \notin {"persist", "take"}, point # "delete",
         point = "join" => Shared(l.target),
         l.kind = loc[t].kind, l.id = loc[t].id,
         point # "persist" => l.outcome = "none",
         point \in RunsNothing \/ l.outcome = "paused" =>
             pc[t] \in RunsNothing \/ loc[t].kind # "execute"
  PROVE  DecisionInv'
  <1>1. TaskDecided(point, l)
    BY DEF DecisionInv, TaskDecided, OwnerUndecided, ResumeDecided
  <1>2. QED
    BY <1>1, StillDecisionInv

(* Returning with nothing decided.                                         *)
LEMMA ReturnDecisionInv ==
  ASSUME TypeInv, OwnInv, DecisionInv, NEW t \in Task, Return(t), UNCHANGED minted,
         late' = late \/ late' = late \cup LateOp(t),
         UNCHANGED <<rows, idem, known, takes, runs, declined>>
  PROVE  DecisionInv'
  <1>1. Moved(t, "idle", NoLocals) /\ NoLocals.id \notin Id
    BY NoLocalsType, ValuesAssumption DEF Return, Moved
  <1>2. NoLocals.kind = "none" /\ NoLocals.outcome = "none"
    BY DEF NoLocals
  <1>3. TaskDecided("idle", NoLocals)
    BY <1>2 DEF TaskDecided, OwnerUndecided, ResumeDecided
  <1>4. QED
    BY <1>1, <1>3, SharedKept, StillDecisionInv

(* The steps that look up and claim a key decide nothing; who waits for an *)
(* execution knows it from its key.                                        *)
LEMMA ClaimDecisionInv ==
  ASSUME TypeInv, OwnInv, DecisionInv, NEW t \in Task,
         Replay(t) \/ Join(t) \/ Mint(t) \/ Claim(t) \/ ReadWinner(t) \/ MarkRunning(t)
  PROVE  DecisionInv'
  <1>1. /\ RoleOK(pc[t], loc[t], minted) /\ loc[t] \in Locals
        /\ PointOK(pc[t], loc[t], idem) /\ TaskDecided(pc[t], loc[t])
    BY RoleOf DEF DecisionInv
  <1>2. /\ pc[t] \in {"replay", "join", "mint", "claim", "winner", "markRunning"}
        /\ loc[t].kind = "execute" /\ loc[t].outcome = "none"
        /\ UNCHANGED <<takes, runs, declined, late>>
    <2>1. /\ pc[t] \in {"replay", "join", "mint", "claim", "winner", "markRunning"}
          /\ UNCHANGED <<takes, runs, declined, late>>
      BY DEF Replay, Join, Mint, Claim, ReadWinner, MarkRunning
    <2>2. QED
      BY <1>1, <2>1, ExecuteAt DEF TaskDecided, ResumePlaces
  <1>3. CASE Mint(t)
    <2>1. PICK i \in Id \ minted, point \in {"gate", "claim"} :
            minted' = minted \cup {i} /\ Goto(t, point, [loc[t] EXCEPT !.id = i])
      BY <1>3 DEF Mint
    <2> DEFINE l == [loc[t] EXCEPT !.id = i]
    <2>2. Moved(t, point, l) /\ UNCHANGED <<rows, idem, known>>
      BY <1>3, <2>1 DEF Mint, Goto, Moved
    <2>3. l.id = i /\ l.kind = "execute" /\ l.outcome = "none"
      BY <1>1, <1>2 DEF Locals
    <2>4. Undecided(i) /\ runs[i] = 0 /\ rows[i] # "paused"
      BY <2>1, SharedKept DEF DecisionInv, IdDecided, Undecided, OwnInv, NamesMinted
    <2> HIDE DEF l
    <2>5. TaskDecided(point, l)
      BY <2>1, <2>3, <2>4 DEF TaskDecided, OwnerUndecided, ResumeDecided
    <2>6. QED
      BY <1>2, <2>1, <2>2, <2>5, SharedKept, StillDecisionInv
  <1>4. CASE Join(t) /\ rows[loc[t].target] \in {"paused", "completed"}
    <2>1. /\ Shared(loc[t].target) /\ known' = known \cup {loc[t].target}
          /\ UNCHANGED <<minted, rows, idem>>
      BY <1>1, <1>4 DEF Join, TaskDecided, Reply
    <2>2. PICK l : l = NoLocals /\ Moved(t, "idle", l)
      BY <1>4 DEF Join, Return, Moved
    <2>3. l.kind = "none" /\ l.outcome = "none"
      BY <2>2 DEF NoLocals
    <2>4. TaskDecided("idle", l)'
      BY <2>3 DEF TaskDecided, OwnerUndecided, ResumeDecided
    <2>5. \A i \in Id : Shared(i) \/ Still(i)
      BY <1>2, <2>1 DEF Still
    <2>6. QED
      BY <1>2, <2>1, <2>2, <2>4, <2>5, SharedKept, MoveDecisionInv
  <1>5. CASE /\ Replay(t) \/ Join(t) \/ Claim(t) \/ ReadWinner(t) \/ MarkRunning(t)
             /\ ~(Join(t) /\ rows[loc[t].target] \in {"paused", "completed"})
    <2>1. UNCHANGED <<minted, known>> /\ KeysKept
      BY <1>5, SharedKept, ValuesAssumption
      DEF Replay, Join, Claim, ReadWinner, MarkRunning, PutIdempotency, KeysKept,
          TypeInv, TypeOK
    <2>2. \A i \in Id : rows'[i] = "paused" => rows[i] = "paused"
      BY <1>5 DEF Replay, Join, Claim, ReadWinner, MarkRunning, TypeInv, TypeOK
    <2>3. ASSUME NEW point \in {"mint", "join", "gate", "winner", "markRunning"}, NEW l,
                 Goto(t, point, l), point = "join" => Shared(l.target),
                 l.kind = loc[t].kind, l.id = loc[t].id, l.outcome = loc[t].outcome
          PROVE  DecisionInv'
      BY <1>2, <2>1, <2>2, <2>3, GoOnDecisionInv DEF RunsNothing, Goto, Moved
    <2>4. CASE Claim(t) \/ MarkRunning(t)
      BY <2>3, <2>4 DEF Claim, MarkRunning
    <2>5. CASE Replay(t) \/ ReadWinner(t)
      <3> DEFINE first == idem[loc[t].key]
                 l == [loc[t] EXCEPT !.target = first, !.polls = 0]
      <3>1. loc[t].key \in Key /\ first \in Id \cup {NoId}
        BY <1>1, <2>5 DEF Replay, ReadWinner, PointOK, HasKey, TypeInv, TypeOK
      <3>2. first # NoId => Shared(first)
        BY <3>1 DEF Shared
      <3>3. ReadWinner(t) => first # NoId
        BY <1>1, ValuesAssumption DEF ReadWinner, PointOK
      <3>4. /\ l.kind = loc[t].kind /\ l.id = loc[t].id /\ l.outcome = loc[t].outcome
            /\ l.target = first
        BY <1>1 DEF Locals
      <3>5. \/ Goto(t, "mint", loc[t]) \/ Goto(t, "markRunning", loc[t])
            \/ Goto(t, "join", l) /\ first # NoId
        BY <2>5, <3>3 DEF Replay, ReadWinner
      <3> HIDE DEF first, l
      <3>6. QED
        BY <2>3, <3>2, <3>4, <3>5
    <2>6. CASE Join(t)
      <3> DEFINE m == loc[t].polls + 1
                 l == [loc[t] EXCEPT !.polls = m]
                 u == [loc[t] EXCEPT !.polls = m, !.gaveUp = TRUE]
      <3>1. Shared(loc[t].target)
        BY <1>1, <2>6 DEF Join, TaskDecided
      <3>2. /\ l.kind = loc[t].kind /\ l.id = loc[t].id /\ l.outcome = loc[t].outcome
            /\ u.kind = loc[t].kind /\ u.id = loc[t].id /\ u.outcome = loc[t].outcome
            /\ l.target = loc[t].target
        BY <1>1 DEF Locals
      <3>3. Goto(t, "join", l) \/ Goto(t, "mint", l) \/ Goto(t, "gate", u)
        BY <1>5, <2>6 DEF Join
      <3> HIDE DEF l, u
      <3>4. QED
        BY <2>3, <3>1, <3>2, <3>3
    <2>7. QED
      BY <1>5, <2>4, <2>5, <2>6
  <1>6. QED
    BY <1>3, <1>4, <1>5

(* The other steps that decide nothing, when rows are taken in one         *)
(* operation.                                                              *)
LEMMA QuietDecisionInv ==
  ASSUME TypeInv, OwnInv, DecisionInv, ~SqliteStore, NEW t \in Task,
         \/ Gate(t) \/ ReadSession(t) \/ Dispatch(t) \/ AuthPause(t) \/ ToolAnswers(t)
         \/ TakeSelect(t) \/ TakeDelete(t) \/ Remember(t) \/ RememberPolicy(t) \/ Resolve(t)
         \/ Fail(t) \/ Deadline(t)
  PROVE  DecisionInv'
  <1>1. /\ RoleOK(pc[t], loc[t], minted) /\ loc[t] \in Locals
        /\ PointOK(pc[t], loc[t], idem) /\ TaskDecided(pc[t], loc[t])
    BY RoleOf DEF DecisionInv
  <1>2. UNCHANGED idem => KeysKept
    BY SharedKept
  <1>3. CASE TakeSelect(t) \/ TakeDelete(t)
    BY <1>1, <1>3 DEF TaskDecided, TakeSelect, TakeDelete
  <1>5. CASE Gate(t) \/ ReadSession(t) \/ Dispatch(t) \/ Resolve(t)
    <2>1. /\ UNCHANGED <<minted, late, rows, idem, known, takes, runs, declined>>
          /\ pc[t] \in {"gate", "session", "dispatch", "resolve"}
      BY <1>5 DEF Gate, ReadSession, Dispatch, Resolve
    <2>2. CASE Return(t)
      BY <2>1, <2>2, ReturnDecisionInv
    <2>3. ASSUME NEW point \in {"session", "dispatch", "pause", "lookup"}, NEW l,
                 Goto(t, point, l), l.kind = loc[t].kind, l.id = loc[t].id,
                 l.outcome = loc[t].outcome
          PROVE  DecisionInv'
      <3>1. loc[t].outcome = "none" /\ (pc[t] \in RunsNothing \/ loc[t].kind # "execute")
        BY <1>1, <2>1 DEF TaskDecided, RunsNothing, RoleOK, TakePoints
      <3>2. QED
        BY <2>1, <2>3, <3>1, <1>2, GoOnDecisionInv DEF Goto, Moved
    <2>4. ASSUME NEW x
          PROVE  LET l == [loc[t] EXCEPT !.auto = x]
                 IN  l.kind = loc[t].kind /\ l.id = loc[t].id /\ l.outcome = loc[t].outcome
      BY <1>1 DEF Locals
    <2>5. QED
      BY <1>5, <2>2, <2>3, <2>4 DEF Gate, ReadSession, Dispatch, Resolve
  <1>6. CASE AuthPause(t) \/ ToolAnswers(t)
    <2>1. PICK out : /\ Finish(t, out)
                     /\ \/ pc[t] = "lookup" /\ out = "paused"
                        \/ pc[t] = "invoking" /\ out = "completed"
      BY <1>6 DEF AuthPause, ToolAnswers
    <2>2. UNCHANGED <<minted, late, rows, idem, takes, runs, declined>> /\ pc[t] # "persist"
      BY <1>6 DEF AuthPause, ToolAnswers
    <2>3. CASE loc[t].kind = "execute"
      <3> DEFINE l == [loc[t] EXCEPT !.outcome = out]
      <3>1. Moved(t, "persist", l) /\ UNCHANGED known
        BY <2>1, <2>3 DEF Finish, Goto, Moved
      <3>2. l.kind = loc[t].kind /\ l.id = loc[t].id /\ l.outcome = out
        BY <1>1 DEF Locals
      <3> HIDE DEF l
      <3>3. QED
        BY <2>1, <2>2, <2>3, <3>1, <3>2, <1>2, GoOnDecisionInv DEF RunsNothing
    <2>4. CASE loc[t].kind # "execute"
      <3>1. loc[t].kind = "resume"
        BY <1>1, <2>1, <2>4 DEF RoleOK, Locals
      <3>2. Return(t) /\ known' = known
        BY <1>1, <2>1, <2>4, <3>1 DEF Finish, TaskDecided, ResumeDecided
      <3>3. QED
        BY <2>2, <3>2, ReturnDecisionInv
    <2>5. QED
      BY <2>3, <2>4
  <1>7. CASE Remember(t) \/ RememberPolicy(t)
    <2>1. PICK point \in {"rememberPolicy", "resolve"} : pc' = [pc EXCEPT ![t] = point]
      BY <1>7 DEF Remember, RememberPolicy
    <2>2. /\ loc' = [loc EXCEPT ![t] = loc[t]] /\ pc[t] \in {"remember", "rememberPolicy"}
          /\ UNCHANGED <<minted, late, rows, idem, known, takes, runs, declined>>
      BY <1>7 DEF Remember, RememberPolicy, TypeInv, TypeOK
    <2>3. loc[t].outcome = "none"
      BY <1>1, <2>2 DEF TaskDecided
    <2>4. QED
      BY <2>1, <2>2, <2>3, <1>2, GoOnDecisionInv DEF Moved, RunsNothing
  <1>8. CASE Fail(t) \/ Deadline(t)
    <2>1. /\ Return(t) /\ UNCHANGED <<minted, rows, idem, known, takes, runs, declined>>
          /\ late' = late \/ late' = late \cup LateOp(t)
      BY <1>8 DEF Fail, Deadline
    <2>2. QED
      BY <2>1, ReturnDecisionInv
  <1>9. QED
    BY <1>3, <1>5, <1>6, <1>7, <1>8

(* The steps of an execute that pause, run or reply.                       *)
LEMMA OwnerDecisionInv ==
  ASSUME TypeInv, OwnInv, DecisionInv, NEW t \in Task,
         Pause(t) \/ PersistOutcome(t) \/ (Invoke(t) /\ loc[t].kind = "execute")
  PROVE  DecisionInv'
  <1>1. /\ pc[t] \in {"pause", "persist", "lookup"} /\ loc[t].kind = "execute"
        /\ UNCHANGED <<minted, late, idem, takes, declined>>
    BY ExecuteAt DEF Pause, PersistOutcome, Invoke, ResumePlaces
  <1>2. /\ loc[t] \in Locals /\ loc[t].id \in Id /\ Owns(t)
        /\ TaskDecided(pc[t], loc[t]) /\ loc[t].id \in minted
    BY <1>1, RoleOf DEF DecisionInv, PointOK, HasId, Owns, RoleOK
  <1>3. PICK i \in Id : i = loc[t].id
    BY <1>2
  <1>4. ~Shared(i) =>
        /\ i \notin known /\ takes[i] = 0 /\ i \notin declined
        /\ (pc[t] # "persist" \/ loc[t].outcome = "paused") => runs[i] = 0
        /\ pc[t] # "persist" => rows[i] # "paused" /\ loc[t].outcome = "none"
    BY <1>1, <1>2, <1>3
    DEF TaskDecided, OwnerUndecided, Undecided, RunsNothing, DecisionInv, IdDecided
  <1>5. ASSUME NEW point, NEW l, Moved(t, point, l), \A j \in Id : j # i => Still(j),
               Shared(i) \/ IdDecided(i)', TaskDecided(point, l)', known \subseteq known'
        PROVE  DecisionInv'
    BY <1>1, <1>2, <1>3, <1>5, SharedKept, MoveDecisionInv
  <1>6. CASE Pause(t)
    <2>1. PICK l : /\ l = [loc[t] EXCEPT !.outcome = "paused"] /\ Moved(t, "persist", l)
                   /\ UNCHANGED <<known, runs>> /\ pc[t] = "pause"
                   /\ rows' = [rows EXCEPT ![i] = "paused"]
      BY <1>3, <1>6 DEF Pause, Goto, Moved
    <2>2. l.kind = "execute" /\ l.id = i /\ l.outcome = "paused"
      BY <1>1, <1>2, <1>3, <2>1 DEF Locals
    <2>3. \A j \in Id : j # i => Still(j)
      BY <1>1, <2>1 DEF Still, TypeInv, TypeOK
    <2>4. Shared(i) \/ IdDecided(i)'
      BY <1>1, <1>2, <1>3, <1>4, <2>1 DEF IdDecided, TypeInv, TypeOK
    <2>5. TaskDecided("persist", l)'
      BY <1>1, <1>4, <2>1, <2>2, SharedKept
      DEF TaskDecided, OwnerUndecided, ResumeDecided, Undecided
    <2>6. QED
      BY <1>5, <2>1, <2>3, <2>4, <2>5
  <1>7. CASE Invoke(t)
    <2>1. PICK l : /\ l = loc[t] /\ Moved(t, "invoking", l)
                   /\ UNCHANGED <<known, rows>> /\ pc[t] = "lookup"
                   /\ runs' = [runs EXCEPT ![i] = @ + 1]
      BY <1>3, <1>7 DEF Invoke, Goto, Moved
    <2>2. \A j \in Id : j # i => Still(j)
      BY <1>1, <2>1 DEF Still, TypeInv, TypeOK
    <2>3. Shared(i) \/ IdDecided(i)'
      BY <1>1, <1>2, <1>3, <1>4, <2>1 DEF IdDecided
    <2>4. TaskDecided("invoking", l)'
      BY <1>1, <1>2, <1>3, <1>4, <2>1, SharedKept
      DEF TaskDecided, OwnerUndecided, ResumeDecided, Undecided, RunsNothing
    <2>5. QED
      BY <1>5, <2>1, <2>2, <2>3, <2>4
  <1>8. CASE PersistOutcome(t)
    <2>1. PICK out : out = loc[t].outcome /\ rows' = [rows EXCEPT ![i] = out]
                     /\ known' = known \cup {i} /\ UNCHANGED runs /\ pc[t] = "persist"
                     /\ Moved(t, "idle", NoLocals)
      BY <1>3, <1>8 DEF PersistOutcome, Reply, Return, Moved
    <2>2. \A j \in Id : j # i => Still(j)
      BY <1>1, <2>1 DEF Still, TypeInv, TypeOK
    <2>3. Shared(i) \/ IdDecided(i)'
      BY <1>1, <1>2, <1>3, <1>4, <2>1 DEF IdDecided, TypeInv, TypeOK
    <2>4. NoLocals.kind = "none" /\ NoLocals.outcome = "none"
      BY DEF NoLocals
    <2>5. PICK l : l = NoLocals
      OBVIOUS
    <2>6. TaskDecided("idle", l)'
      BY <2>4, <2>5 DEF TaskDecided, OwnerUndecided, ResumeDecided
    <2>7. QED
      BY <1>5, <2>1, <2>2, <2>3, <2>5, <2>6
  <1>9. QED
    BY <1>6, <1>7, <1>8

(* The steps of a resume that take the row or run the tool.                *)
LEMMA ResumeDecisionInv ==
  ASSUME TypeInv, OwnInv, DecisionInv, NEW t \in Task,
         TakeAtomic(t) \/ (Invoke(t) /\ loc[t].kind # "execute")
  PROVE  DecisionInv'
  <1>1. pc[t] \in {"take", "lookup"} /\ UNCHANGED <<minted, late, idem, known>>
    BY DEF TakeAtomic, Taken, Invoke
  <1>2. /\ loc[t] \in Locals /\ loc[t].kind = "resume"
        /\ TaskDecided(pc[t], loc[t]) /\ loc[t].id \in minted
    BY <1>1, RoleOf DEF DecisionInv, TakeAtomic, PointOK, HasId, RoleOK, TakePoints, Locals
  <1>3. PICK i \in Id : i = loc[t].id
    BY <1>1, RoleOf DEF PointOK, HasId
  <1>4. /\ i \in known /\ takes[i] \in Nat
        /\ ~Shared(i) => /\ IdDecided(i)
                         /\ pc[t] # "take" => takes[i] = 1 /\ i \notin declined
    BY <1>2, <1>3 DEF TaskDecided, ResumeDecided, DecisionInv, TypeInv, TypeOK
  <1>5. ASSUME NEW point, NEW l, Moved(t, point, l), \A j \in Id : j # i => Still(j),
               Shared(i) \/ (IdDecided(i)' /\ Upheld(i)), TaskDecided(point, l)'
        PROVE  DecisionInv'
    BY <1>1, <1>3, <1>5, SharedKept, MoveDecisionInv
  <1>6. CASE Invoke(t)
    <2>1. PICK l : /\ l = loc[t] /\ Moved(t, "invoking", l) /\ pc[t] = "lookup"
                   /\ UNCHANGED <<rows, takes, declined>>
                   /\ runs' = [runs EXCEPT ![i] = @ + 1]
      BY <1>3, <1>6 DEF Invoke, Goto, Moved
    <2>2. \A j \in Id : j # i => Still(j)
      BY <1>1, <2>1 DEF Still, TypeInv, TypeOK
    <2>3. Shared(i) \/ (IdDecided(i)' /\ Upheld(i))
      BY <1>1, <1>2, <1>3, <1>4, <2>1 DEF IdDecided, Upheld
    <2>4. TaskDecided("invoking", l)'
      BY <1>1, <1>2, <1>3, <1>4, <2>1, SharedKept
      DEF TaskDecided, OwnerUndecided, ResumeDecided
    <2>5. QED
      BY <1>5, <2>1, <2>2, <2>3, <2>4
  <1>7. CASE TakeAtomic(t)
    <2>1. PICK row : /\ row = rows[i] /\ Taken(t, row) /\ UNCHANGED runs /\ pc[t] = "take"
                     /\ rows' = [rows EXCEPT ![i] = "absent"]
      BY <1>3, <1>7 DEF TakeAtomic
    <2>2. takes' = IF row = "paused" THEN [takes EXCEPT ![i] = @ + 1] ELSE takes
      BY <1>3, <2>1 DEF Taken, Consume
    <2>3. declined' = IF row = "paused" /\ loc[t].action # "accept"
                        THEN declined \cup {i} ELSE declined
      BY <1>3, <2>1 DEF Taken
    <2>4. \A j \in Id : j # i => Still(j)
      BY <1>1, <2>1, <2>2, <2>3 DEF Still, TypeInv, TypeOK
    <2>5. ~Shared(i) =>
            /\ rows'[i] # "paused" /\ takes'[i] = (IF row = "paused" THEN 1 ELSE takes[i])
            /\ row = "paused" => takes[i] = 0 /\ runs[i] = 0 /\ i \notin declined
      BY <1>4, <2>1, <2>2 DEF IdDecided, TypeInv, TypeOK
    <2>6. Shared(i) \/ (IdDecided(i)' /\ Upheld(i))
      BY <1>1, <1>2, <1>3, <1>4, <2>1, <2>3, <2>5 DEF IdDecided, Upheld
    <2>7. CASE row = "paused" /\ loc[t].action = "accept"
      <3>1. PICK point, l : /\ point \in {"resolve", "remember"} /\ Moved(t, point, l)
                            /\ l = [loc[t] EXCEPT !.auto = TRUE, !.row = "absent"]
        BY <2>1, <2>7 DEF Taken, Goto, Moved
      <3>2. l.kind = "resume" /\ l.id = i /\ l.outcome = "none"
        BY <1>2, <1>3, <2>1, <3>1 DEF Locals, TaskDecided
      <3>3. TaskDecided(point, l)'
        BY <1>1, <1>4, <2>3, <2>5, <2>7, <3>1, <3>2, SharedKept
        DEF TaskDecided, OwnerUndecided, ResumeDecided
      <3>4. QED
        BY <1>5, <2>4, <2>6, <3>1, <3>3
    <2>8. CASE ~(row = "paused" /\ loc[t].action = "accept")
      <3>1. PICK l : l = NoLocals /\ Moved(t, "idle", l)
        BY <2>1, <2>8 DEF Taken, Return, Moved
      <3>2. l.kind = "none" /\ l.outcome = "none"
        BY <3>1 DEF NoLocals
      <3>3. TaskDecided("idle", l)'
        BY <3>2 DEF TaskDecided, OwnerUndecided, ResumeDecided
      <3>4. QED
        BY <1>5, <2>4, <2>6, <3>1, <3>3
    <2>9. QED
      BY <2>7, <2>8
  <1>8. QED
    BY <1>6, <1>7

(* A store operation left behind decides nothing: it writes the pause of   *)
(* an execution nobody was told of, or removes a row.                      *)
LEMMA LateDecisionInv ==
  ASSUME TypeInv, OwnInv, DecisionInv, NEW w \in late, LateOpRuns(w)
  PROVE  DecisionInv'
  <1>1. /\ UNCHANGED <<pc, loc, minted, known, takes, runs, declined>>
        /\ late' = late \ {w} /\ w \in LateOps
    BY DEF LateOpRuns, TypeInv, TypeOK
  <1>0. \A i : Shared(i) => Shared(i)'
    <2>1. KeysKept
      BY ValuesAssumption DEF LateOpRuns, PutIdempotency, KeysKept, TypeInv, TypeOK
    <2>2. QED
      BY <2>1, SharedKept
  <1>2. w.id \in Id /\ w.id \in minted
    BY <1>1 DEF LateOps, OwnInv, NamesMinted
  <1>3. \A i \in Id : rows'[i] = "paused" =>
            rows[i] = "paused" \/ (i = w.id /\ w \in Puts /\ w.row = "paused")
    BY <1>2 DEF LateOpRuns, Puts, TypeInv, TypeOK
  <1>4. ASSUME NEW i \in Id PROVE Shared(i)' \/ IdDecided(i)'
    BY <1>0, <1>1, <1>2, <1>3 DEF DecisionInv, IdDecided, LateUndecided, Undecided
  <1>5. ASSUME NEW s \in Task PROVE TaskDecided(pc[s], loc[s])'
    <2>1. Owns(s) /\ rows'[loc[s].id] = "paused" => rows[loc[s].id] = "paused"
      BY <1>3 DEF OwnInv, PutsApart, Owns
    <2>2. QED
      BY <1>0, <1>1, <2>1
      DEF DecisionInv, TaskDecided, OwnerUndecided, ResumeDecided, Undecided, Owns
  <1>6. ASSUME NEW v \in Puts' PROVE LateUndecided(v)'
    BY <1>0, <1>1 DEF DecisionInv, Puts, LateUndecided, Undecided
  <1>7. QED
    BY <1>4, <1>5, <1>6 DEF DecisionInv

(* Every step of a runtime over MemoryCatalog keeps it.                    *)
LEMMA NextDecisionInv ==
  ASSUME TypeInv, OwnInv, DecisionInv, ~SqliteStore, [Next]_vars
  PROVE  DecisionInv'
  <1>1. ASSUME NEW t \in Task, NEW k \in Key \cup {NoKey}, NEW yes \in BOOLEAN,
               StartExecute(t, k, yes)
        PROVE  DecisionInv'
    <2> DEFINE l == [NoLocals EXCEPT !.kind = "execute", !.key = k, !.yes = yes]
    <2>1. PICK point \in {"mint", "replay"} :
            /\ Moved(t, point, l)
            /\ UNCHANGED <<minted, late, rows, idem, known, takes, runs, declined>>
      BY <1>1 DEF StartExecute, Admit, Moved
    <2>2. l.id \notin Id /\ l.kind = "execute" /\ l.outcome = "none"
      BY NoLocalsType, ValuesAssumption DEF Locals, NoLocals
    <2> HIDE DEF l
    <2>3. TaskDecided(point, l)
      BY <2>2 DEF TaskDecided, OwnerUndecided, ResumeDecided
    <2>4. QED
      BY <2>1, <2>3, SharedKept, StillDecisionInv
  <1>2. ASSUME NEW t \in Task, NEW i \in Id, NEW a \in {"accept", "decline"},
               NEW c \in Choices, StartResume(t, i, a, c)
        PROVE  DecisionInv'
    <2> DEFINE l == [NoLocals EXCEPT !.kind = "resume", !.id = i,
                                     !.action = a, !.choice = c]
    <2>1. /\ Moved(t, "take", l) /\ i \in known
          /\ UNCHANGED <<minted, late, rows, idem, known, takes, runs, declined>>
      BY <1>2 DEF StartResume, Admit, Moved
    <2>2. l.kind = "resume" /\ l.id = i /\ l.outcome = "none"
      BY NoLocalsType DEF Locals, NoLocals
    <2> HIDE DEF l
    <2>3. TaskDecided("take", l)
      BY <2>1, <2>2 DEF TaskDecided, OwnerUndecided, ResumeDecided
    <2>4. QED
      BY <2>1, <2>3, SharedKept, StillDecisionInv
  <1>3. CASE \E t \in Task : Step(t)
    BY <1>3, ClaimDecisionInv, QuietDecisionInv, OwnerDecisionInv, ResumeDecisionInv DEF Step
  <1>4. CASE \E w \in late : LateOpRuns(w)
    BY <1>4, LateDecisionInv
  <1>5. CASE Crash
    BY <1>5 DEF Crash
  <1>6. CASE (\E a \in Policies : SetPolicy(a)) \/ UNCHANGED vars
    <2>1. UNCHANGED <<pc, loc, late, minted, idem, known, takes, runs, rows, declined>>
      BY <1>6 DEF SetPolicy, vars
    <2>2. QED
      BY <2>1 DEF DecisionInv, IdDecided, TaskDecided, OwnerUndecided, ResumeDecided,
                  Undecided, LateUndecided, Puts, Shared
  <1>7. QED
    BY <1>1, <1>2, <1>3, <1>4, <1>5, <1>6 DEF Next

(* Over MemoryCatalog, whose take removes the row in one operation, one    *)
(* pause is handed to one resume and a declined execution never runs, for  *)
(* every execution that no idempotency key is bound to (a call joined on a *)
(* key may be told of a pause that its execute has yet to write again).    *)
THEOREM PausesDecidedOnce ==
  ASSUME ~SqliteStore
  PROVE  Spec => []PausesAreDecidedOnce
  <1>1. Init => DecisionInv
    BY NoLocalsType, ValuesAssumption
    DEF Init, DecisionInv, IdDecided, TaskDecided, OwnerUndecided, ResumeDecided, Puts,
        NoLocals
  <1>2. TypeInv /\ OwnInv /\ DecisionInv /\ [Next]_vars => DecisionInv'
    BY NextDecisionInv
  <1>3. TypeInv /\ DecisionInv => PausesAreDecidedOnce
    BY DEF DecisionInv, IdDecided, PausesAreDecidedOnce, Shared, TypeInv, TypeOK
  <1>4. QED
    BY <1>1, <1>2, <1>3, TypeInvariance, IdsHaveOneOwner, PTL DEF Spec

=============================================================================
