------------------------------ MODULE HostProofs ------------------------------
(***************************************************************************)
(* Theorems about the host and the command line: answers and retries over  *)
(* every surface, documents and votes, the file of profiles, device login, *)
(* policies and teams, the sessions of the MCP endpoint and its frames on  *)
(* stdin, and the daemon with the commands that look for it.               *)
(***************************************************************************)
EXTENDS Surfaces, Documents, Profiles, Orgs, DeviceLogin, Policies, McpSessions, McpStdio,
        Daemon, FiniteSetTheorems, SequenceTheorems, WellFoundedInduction, TLAPS

-----------------------------------------------------------------------------
(* Surfaces *)

(* A tool that asks is remembered only by an answer that let it run.       *)
AnswersInv ==
    /\ ask \in Ask
    /\ remembered => allowed
    /\ AnswersAreHeard

(* An engine option stands for a yes only where the surface may say it.    *)
LEMMA AutoIsYes ==
  ASSUME ask \in Ask, Options.auto
  PROVE  ask.yes \/ ask.front = "endpoint"
  BY DEF Options, ExecuteBody, ExecutionBody, EndpointOptions, AgentOptions, InvokeOptions,
         Ask, Front, Http

(* No surface lets an answer that declines or cancels through.             *)
LEMMA OnlyYesIsAccepted ==
  ASSUME NEW route \in Route, NEW word \in Word, CallResume(route, word) = "accept"
  PROVE  Meant(route, word) # "no"
  BY DEF CallResume, ParseResume, Meant, Word, Route

(* What is said to a pause is what happens, on every surface: no tool runs *)
(* on an answer that declines, and one that asks runs without a question   *)
(* only for an operator's yes or a remembered answer.                      *)
THEOREM AnswersDecide == SurfacesSpec => []AnswersAreHeard
  <1>1. SurfacesInit => AnswersInv
    BY DEF SurfacesInit, AnswersInv, AnswersAreHeard, Ask, Front, Http
  <1>2. ASSUME AnswersInv, [SurfacesNext]_surfaceVars PROVE AnswersInv'
    <2> USE DEF AnswersInv, AnswersAreHeard
    <2>1. CASE MakeCall
      BY <1>2, <2>1 DEF MakeCall
    <2>2. CASE RepeatCall \/ ReplayCall \/ RefuseCall \/ BlockCall \/ PauseCall
      BY <1>2, <2>2 DEF RepeatCall, ReplayCall, RefuseCall, BlockCall, PauseCall
    <2>3. CASE RunCall
      <3>1. PICK done \in BOOLEAN :
               /\ ~Waits
               /\ unasked' = (unasked \/ (done /\ ask.asks /\ ~ask.yes /\ ask.front # "endpoint"))
        BY <2>3 DEF RunCall
      <3>2. UNCHANGED <<ask, remembered, allowed, ranOn>>
        BY <2>3 DEF RunCall
      <3>3. ask.asks /\ ~ask.yes /\ ask.front # "endpoint" => remembered
        BY <1>2, <3>1, AutoIsYes DEF Waits
      <3>4. QED
        BY <1>2, <3>1, <3>2, <3>3
    <2>4. CASE AnswerPause
      <3>1. PICK e \in Exec, route \in Route, word \in Word, persist, done \in BOOLEAN :
               AnswerPause!(e, route, word, persist, done)
        BY <2>4, Zenon DEF AnswerPause
      <3>2. UNCHANGED <<ask, unasked>>
        BY <2>4 DEF AnswerPause
      <3>3. CallResume(route, word) = "accept" => Meant(route, word) # "no"
        BY OnlyYesIsAccepted
      <3>4. /\ done => rows[e] = "paused" /\ CallResume(route, word) = "accept"
            /\ remembered' <=> (remembered \/ (/\ rows[e] = "paused" /\ persist
                                               /\ CallResume(route, word) = "accept"))
            /\ allowed' <=> (allowed \/ (/\ rows[e] = "paused" /\ persist
                                         /\ Meant(route, word) # "no"))
        BY <3>1
      <3>5. ranOn' = ranOn \/ (done /\ ranOn' = ranOn \cup {Meant(route, word)})
        BY <3>1
      <3>6. "no" \notin ranOn'
        BY <1>2, <3>3, <3>4, <3>5
      <3>7. (remembered' => allowed') /\ (allowed => allowed')
        BY <1>2, <3>3, <3>4
      <3>8. QED
        BY <1>2, <3>2, <3>6, <3>7
    <2>5. CASE UNCHANGED surfaceVars
      BY <1>2, <2>5 DEF surfaceVars
    <2>6. QED
      BY <1>2, <2>1, <2>2, <2>3, <2>4, <2>5 DEF SurfacesNext
  <1>3. AnswersInv => AnswersAreHeard
    BY DEF AnswersInv
  <1>4. QED
    BY <1>1, <1>2, <1>3, PTL DEF SurfacesSpec

(* An execution of the present call that may still run its tool, on an     *)
(* answer.                                                                 *)
Open(e) == e \in mine /\ rows[e] = "paused"
Untouched == runs = 0 /\ \A e \in Exec : ~Open(e)

(* As long as no repetition was unsafe, the tool ran or waits to be asked  *)
(* about in one execution at most; and where the client may repeat the     *)
(* call, nothing of it ran, or its key keeps the outcome.                  *)
RetriesInv ==
    /\ ask \in Ask
    /\ runs \in Nat
    /\ unsafe \in BOOLEAN
    /\ ~unsafe =>
         /\ runs <= 1
         /\ runs = 1 => \A e \in Exec : ~Open(e)
         /\ \A e, d \in Exec : Open(e) /\ Open(d) => e = d
         /\ callStage = "sent" => Untouched \/ KeyIsKept
         /\ callStage = "told" /\ reply.code \in SafeCodes => Untouched \/ KeyIsKept

(* An error after the tool has started is told by a code that does not say *)
(* that nothing ran, over every surface.                                   *)
LEMMA LateErrorsAreNotSafe ==
  ASSUME ask \in Ask, NEW err \in {"timeout", "cancelled", "failed"},
         NEW r \in Failures(err)
  PROVE  r.code \notin SafeCodes
  <1>1. PICK e : /\ e \in {"timeout", "cancelled", "failed", "code"}
                 /\ r.code = IF ask.front \in Http THEN Status(e) ELSE JsonRpcCode(e)
    BY DEF Failures, RunCode
  <1>2. Status(e) \in {504, 408, 502, 400} /\ JsonRpcCode(e) \in {-32001, -32002, -32003}
    BY <1>1 DEF Status, JsonRpcCode
  <1>3. QED
    BY <1>1, <1>2 DEF SafeCodes

(* The replies that are no errors are not safe to repeat on either.        *)
LEMMA RepliesAreNotSafe ==
  /\ Completed.code \notin SafeCodes
  /\ Paused.code \notin SafeCodes
  /\ Nothing.code \notin SafeCodes
  BY DEF Completed, Paused, Nothing, SafeCodes

(* A call whose key keeps its outcome is answered from the row.            *)
LEMMA KeptIsReplayed ==
  ASSUME KeyIsKept
  PROVE  Replays
  BY DEF KeyIsKept, Replays

(* An execution that starts is new to the call.                            *)
LEMMA NewIsFresh ==
  ASSUME RetriesInv, ~unsafe, NEW e \in Exec, NewId(e)
  PROVE  Untouched /\ callStage = "sent" /\ ~Open(e)
  BY KeptIsReplayed DEF RetriesInv, NewId, Open

(* The rows of the executions, and the one that the key was claimed for.   *)
RowsOK ==
    /\ rows \in [Exec -> {"unused", "absent", "running", "paused", "completed"}]
    /\ keyRow \in Exec \cup {0}

(* Every step stores states that a row may have, for ids that are handed   *)
(* out.                                                                    *)
LEMMA RowsAreTyped == SurfacesSpec => []RowsOK
  <1>1. SurfacesInit => RowsOK
    BY DEF SurfacesInit, RowsOK
  <1>2. ASSUME RowsOK, [SurfacesNext]_surfaceVars PROVE RowsOK'
    <2> USE <1>2 DEF RowsOK
    <2>1. CASE MakeCall
      BY <2>1 DEF MakeCall
    <2>2. CASE RepeatCall \/ ReplayCall \/ RefuseCall
      BY <2>2 DEF RepeatCall, ReplayCall, RefuseCall
    <2>3. CASE BlockCall
      BY <2>3 DEF BlockCall, Claim, Unfinished
    <2>4. CASE PauseCall
      BY <2>4 DEF PauseCall, Claim
    <2>5. CASE RunCall
      BY <2>5 DEF RunCall, Claim, Unfinished
    <2>6. CASE AnswerPause
      BY <2>6 DEF AnswerPause
    <2>7. CASE UNCHANGED surfaceVars
      BY <2>7 DEF surfaceVars
    <2>8. QED
      BY <2>1, <2>2, <2>3, <2>4, <2>5, <2>6, <2>7 DEF SurfacesNext
  <1>3. QED
    BY <1>1, <1>2, PTL DEF SurfacesSpec

(* A call that is made again only after an answer that says nothing ran,   *)
(* or with its key while the outcome is stored, runs its tool once.        *)
THEOREM RepeatsRunOnce == SurfacesSpec => []RetriesRunOnce
  <1>1. ASSUME SurfacesInit PROVE RetriesInv
    <2>1. ask \in Ask
      BY <1>1 DEF SurfacesInit, Ask, Front, Http
    <2>2. \A e \in Exec : ~Open(e)
      BY <1>1 DEF SurfacesInit, Open
    <2>3. unsafe \in BOOLEAN /\ callStage = "idle"
      BY <1>1 DEF SurfacesInit
    <2>4. runs \in Nat /\ runs <= 1 /\ runs # 1
      BY <1>1 DEF SurfacesInit
    <2>5. \A e, d \in Exec : Open(e) /\ Open(d) => e = d
      BY <2>2
    <2>6. QED
      BY <2>1, <2>2, <2>3, <2>4, <2>5 DEF RetriesInv
  <1>2. ASSUME RetriesInv, RowsOK, [SurfacesNext]_surfaceVars PROVE RetriesInv'
    <2>1. CASE MakeCall
      <3>1. ask' \in Ask /\ callStage' # "told" /\ mine' = {} /\ runs' = 0
        BY <2>1 DEF MakeCall
      <3>2. \A e \in Exec : ~Open(e)'
        BY <3>1 DEF Open
      <3>3. Untouched'
        BY <3>1, <3>2 DEF Untouched
      <3>4. \A e, d \in Exec : Open(e)' /\ Open(d)' => e = d
        BY <3>2
      <3>5. runs' <= 1 /\ runs' \in Nat
        BY <3>1
      <3>6. unsafe' \in BOOLEAN
        BY <2>1 DEF MakeCall
      <3>7. QED
        BY <3>1, <3>2, <3>3, <3>4, <3>5, <3>6 DEF RetriesInv
    <2>2. CASE RepeatCall
      <3>1. /\ callStage = "told" /\ callStage' = "sent"
            /\ unsafe' <=> (unsafe \/ ~(KeyIsKept \/ reply.code \in SafeCodes))
            /\ unsafe' \in BOOLEAN
            /\ UNCHANGED <<ask, keyRow, rows, mine, runs>>
        BY <1>2, <2>2 DEF RepeatCall, RetriesInv
      <3>2. /\ KeyIsKept' <=> KeyIsKept
            /\ Untouched' <=> Untouched
            /\ \A e : Open(e)' <=> Open(e)
        BY <3>1 DEF KeyIsKept, Untouched, Open, Options, ExecuteBody, ExecutionBody,
                    EndpointOptions, AgentOptions, InvokeOptions
      <3>3. QED
        BY <1>2, <3>1, <3>2 DEF RetriesInv
    <2>3. CASE ReplayCall \/ RefuseCall
      <3>1. /\ callStage = "sent" /\ callStage' = "told"
            /\ UNCHANGED <<ask, keyRow, rows, mine, runs, unsafe>>
        BY <2>3 DEF ReplayCall, RefuseCall, Tell
      <3>2. /\ KeyIsKept' <=> KeyIsKept
            /\ Untouched' <=> Untouched
            /\ \A e : Open(e)' <=> Open(e)
        BY <3>1 DEF KeyIsKept, Untouched, Open, Options, ExecuteBody, ExecutionBody,
                    EndpointOptions, AgentOptions, InvokeOptions
      <3>3. QED
        BY <1>2, <3>1, <3>2 DEF RetriesInv
    <2>4. CASE BlockCall
      <3>1. PICK e \in Exec : NewId(e) /\ rows' = [rows EXCEPT ![e] = Unfinished]
        BY <2>4 DEF BlockCall
      <3>2. /\ callStage' = "told" /\ UNCHANGED <<ask, runs, unsafe>>
            /\ mine' = mine \cup {e} /\ rows[e] = "unused"
        BY <2>4, <3>1 DEF BlockCall, Tell, NewId
      <3>3. \A d \in Exec : Open(d)' => Open(d)
        BY <3>1, <3>2 DEF Open, Unfinished
      <3>4. ~unsafe => Untouched
        BY <1>2, <3>1, NewIsFresh
      <3>5. ~unsafe => Untouched'
        BY <3>2, <3>3, <3>4 DEF Untouched
      <3>6. QED
        BY <1>2, <3>2, <3>3, <3>5 DEF RetriesInv, Untouched
    <2>5. CASE PauseCall
      <3>1. PICK e \in Exec : NewId(e) /\ rows' = [rows EXCEPT ![e] = "paused"]
        BY <2>5 DEF PauseCall
      <3>2. /\ callStage' = "told" /\ UNCHANGED <<ask, runs, unsafe>>
            /\ mine' = mine \cup {e} /\ reply' \in {Paused, Nothing}
        BY <2>5, <3>1 DEF PauseCall, Tell, NewId
      <3>3. \A d \in Exec : Open(d)' => d = e \/ Open(d)
        BY <3>1, <3>2 DEF Open
      <3>4. ~unsafe => Untouched
        BY <1>2, <3>1, NewIsFresh
      <3>5. reply'.code \notin SafeCodes
        BY <3>2, RepliesAreNotSafe
      <3>6. QED
        BY <1>2, <3>2, <3>3, <3>4, <3>5 DEF RetriesInv, Untouched
    <2>6. CASE RunCall
      <3>1. PICK e \in Exec, done \in BOOLEAN,
                 fate \in {"done", "timeout", "cancelled", "failed", "denied", "rejected"} :
               /\ NewId(e)
               /\ fate = "done" => done
               /\ fate \in {"denied", "rejected"} => ~done
               /\ rows' = [rows EXCEPT ![e] = IF fate = "done" THEN "completed" ELSE Unfinished]
               /\ Tell(IF fate = "done" THEN {Completed} ELSE Failures(fate))
               /\ runs' = IF done THEN runs + 1 ELSE runs
        BY <2>6, Zenon DEF RunCall
      <3>2. /\ callStage' = "told" /\ UNCHANGED <<ask, unsafe>>
            /\ mine' = mine \cup {e} /\ rows[e] = "unused"
            /\ reply' \in (IF fate = "done" THEN {Completed} ELSE Failures(fate)) \cup {Nothing}
        BY <2>6, <3>1 DEF RunCall, Tell, NewId
      <3>3. \A d \in Exec : Open(d)' => Open(d)
        BY <3>1, <3>2 DEF Open, Unfinished
      <3>4. ~unsafe => Untouched
        BY <1>2, <3>1, NewIsFresh
      <3>5. done => reply'.code \notin SafeCodes
        BY <1>2, <3>1, <3>2, RepliesAreNotSafe, LateErrorsAreNotSafe DEF RetriesInv
      <3>6. ~unsafe /\ ~done => Untouched'
        BY <3>1, <3>3, <3>4 DEF Untouched
      <3>7. runs' \in Nat /\ (~unsafe => runs' <= 1) /\ (~unsafe => \A d \in Exec : ~Open(d)')
        BY <1>2, <3>1, <3>3, <3>4 DEF RetriesInv, Untouched
      <3>8. QED
        BY <1>2, <3>2, <3>5, <3>6, <3>7 DEF RetriesInv
    <2>7. CASE AnswerPause
      <3>1. PICK e \in Exec, route \in Route, word \in Word, persist, done \in BOOLEAN :
               AnswerPause!(e, route, word, persist, done)
        BY <2>7, Zenon DEF AnswerPause
      <3>2. /\ done => rows[e] = "paused"
            /\ rows' = [rows EXCEPT ![e] = "absent"]
            /\ runs' = IF done /\ e \in mine THEN runs + 1 ELSE runs
            /\ unsafe' <=> (unsafe \/ keyRow = e)
            /\ unsafe' \in BOOLEAN
            /\ UNCHANGED <<ask, callStage, reply, keyRow, mine>>
        BY <1>2, <3>1 DEF RetriesInv
      <3>3. \A d \in Exec : Open(d)' => Open(d) /\ d # e
        BY <1>2, <3>2 DEF Open, RowsOK
      <3>4. ~unsafe' /\ KeyIsKept => KeyIsKept'
        BY <1>2, <3>2 DEF RowsOK, KeyIsKept, Options, ExecuteBody, ExecutionBody, EndpointOptions,
                    AgentOptions, InvokeOptions
      <3>5. runs' # runs => Open(e)
        BY <3>2 DEF Open
      <3>6. Untouched => Untouched'
        BY <3>3, <3>5 DEF Untouched
      <3>7. runs' \in Nat /\ (~unsafe => runs' <= 1 /\ (runs' = 1 => \A d \in Exec : ~Open(d)'))
        <4>1. CASE runs' = runs
          BY <1>2, <3>3, <4>1 DEF RetriesInv
        <4>2. CASE runs' # runs
          BY <1>2, <3>2, <3>3, <3>5, <4>2 DEF RetriesInv
        <4>3. QED
          BY <4>1, <4>2
      <3>8. QED
        BY <1>2, <3>2, <3>3, <3>4, <3>6, <3>7 DEF RetriesInv
    <2>8. CASE UNCHANGED surfaceVars
      <3>1. /\ KeyIsKept' <=> KeyIsKept
            /\ Untouched' <=> Untouched
            /\ \A e : Open(e)' <=> Open(e)
        BY <2>8 DEF surfaceVars, KeyIsKept, Untouched, Open, Options, ExecuteBody, ExecutionBody,
                    EndpointOptions, AgentOptions, InvokeOptions
      <3>2. QED
        BY <1>2, <2>8, <3>1 DEF surfaceVars, RetriesInv
    <2>9. QED
      BY <1>2, <2>1, <2>2, <2>3, <2>4, <2>5, <2>6, <2>7, <2>8 DEF SurfacesNext
  <1>3. RetriesInv => RetriesRunOnce
    BY DEF RetriesInv, RetriesRunOnce
  <1>4. QED
    BY <1>1, <1>2, <1>3, RowsAreTyped, PTL DEF SurfacesSpec

-----------------------------------------------------------------------------
(* Documents *)

Kind(w) == writing[w].kind

(* Two requests in the second half of one edit know of each other, and     *)
(* what they edit is marked; a request that is alone is to write what the  *)
(* first half left, or counted a vote on the row that is still there.      *)
EditsInv ==
    /\ writing = [w \in Writer |-> writing[w]]
    /\ \A w \in Writer : \A u \in Writer \ {w} : Kind(w) = Kind(u) /\ Kind(w) # "idle" => w \in apart
    /\ \A w \in apart \cap Writer : Kind(w) # "idle" => Kind(w) \in spoiled

MirrorInv ==
    store = "sqlite" =>
       /\ \A w \in Writer \ apart : Kind(w) = "mirror" => writing[w].row = document
       /\ Kept("mirror") => mirror = document

VotesInv ==
    /\ \A w \in Writer \ apart : Kind(w) = "vote" =>
          LET e == writing[w].row.winner_id IN
          /\ writing[w].row \in {Counted(votes, e), Counted(NoVotes, e)}
          /\ "vote" \notin spoiled => writing[w].row = Counted(votes, e)
    /\ "vote" \notin spoiled => votes = cast

(* A step in which w goes on to its second half, others in theirs are put  *)
(* on record, and what they edit is marked.                                *)
LEMMA ProceedKeepsEdits ==
  ASSUME EditsInv, NEW w \in Writer, NEW next, NEW more,
         next.kind \in {"mirror", "vote"},
         Kind(w) = "idle", Proceed(w, next),
         spoiled' = spoiled \cup Overlaps(w, next.kind) \cup more
  PROVE  /\ EditsInv'
         /\ \A u \in Writer \ {w} : writing'[u] = writing[u]
         /\ writing'[w] = next
         /\ \A u \in Writer \ {w} : u \notin apart' => u \notin apart /\ Kind(u) # next.kind
  <1>1. next.kind \in {"mirror", "vote"}
    OBVIOUS
  <1>2. /\ writing' = [writing EXCEPT ![w] = next]
        /\ apart' = IF Others(w, next.kind) = {} THEN apart \ {w}
                    ELSE apart \cup {w} \cup Others(w, next.kind)
    BY DEF Proceed
  <1>3. \A u \in Writer \ {w} : writing'[u] = writing[u] /\ Kind(u)' = Kind(u)
    BY <1>2 DEF EditsInv, Kind
  <1>4. writing'[w] = next /\ Kind(w)' = next.kind
    BY <1>2 DEF EditsInv, Kind
  <1>5. \A u \in Writer \ {w} : Kind(u) = next.kind <=> u \in Others(w, next.kind)
    BY DEF Others, Kind
  <1>6. \A u \in Writer \ {w} :
          /\ u \notin apart' => u \notin apart /\ Kind(u) # next.kind
          /\ u \in apart' => u \in apart \/ Kind(u) = next.kind
    BY <1>2, <1>5
  <1>7. w \in apart' <=> \E u \in Writer \ {w} : Kind(u) = next.kind
    BY <1>2, <1>5 DEF Others
  <1>8. (\E u \in Writer \ {w} : Kind(u) = next.kind) => next.kind \in spoiled'
    BY <1>5 DEF Overlaps
  <1>9. spoiled \subseteq spoiled'
    OBVIOUS
  <1>10. writing' = [u \in Writer |-> writing'[u]]
    BY <1>2 DEF EditsInv
  <1>11. \A v \in Writer : \A u \in Writer \ {v} :
           Kind(v)' = Kind(u)' /\ Kind(v)' # "idle" => v \in apart'
    BY <1>3, <1>4, <1>6, <1>7 DEF EditsInv
  <1>12. \A v \in apart' \cap Writer : Kind(v)' # "idle" => Kind(v)' \in spoiled'
    BY <1>3, <1>4, <1>6, <1>7, <1>8, <1>9 DEF EditsInv
  <1>13. QED
    BY <1>3, <1>4, <1>6, <1>10, <1>11, <1>12 DEF EditsInv

(* A step in which w is done: a mark goes only with a lone writer's edit.  *)
LEMMA EndKeepsEdits ==
  ASSUME EditsInv, NEW w \in Writer, End(w), Kind(w) # "idle",
         spoiled \ (IF w \in apart THEN {} ELSE {Kind(w)}) \subseteq spoiled'
  PROVE  /\ EditsInv'
         /\ \A u \in Writer \ {w} : writing'[u] = writing[u]
         /\ Kind(w)' = "idle"
         /\ apart' = apart \ {w}
  <1>1. writing' = [writing EXCEPT ![w] = Resting] /\ apart' = apart \ {w}
    BY DEF End
  <1>2. \A u \in Writer \ {w} : writing'[u] = writing[u] /\ Kind(u)' = Kind(u)
    BY <1>1 DEF EditsInv, Kind
  <1>3. Kind(w)' = "idle"
    BY <1>1 DEF EditsInv, Kind, Resting
  <1>4. writing' = [u \in Writer |-> writing'[u]]
    BY <1>1 DEF EditsInv
  <1>5. \A v \in Writer : \A u \in Writer \ {v} :
          Kind(v)' = Kind(u)' /\ Kind(v)' # "idle" => v \in apart'
    BY <1>1, <1>2, <1>3 DEF EditsInv
  <1>6. \A u \in Writer \ {w} : w \notin apart => Kind(u) # Kind(w)
    BY DEF EditsInv
  <1>7. \A v \in apart' \cap Writer : Kind(v)' # "idle" => Kind(v)' \in spoiled'
    BY <1>1, <1>2, <1>3, <1>6 DEF EditsInv
  <1>8. QED
    BY <1>1, <1>2, <1>3, <1>4, <1>5, <1>7 DEF EditsInv

(* Counting a vote for a new winner starts over, from any row.             *)
LEMMA NewWinnersStartOver ==
  ASSUME NEW row, NEW e, row.winner_id # e \/ row = NoVotes
  PROVE  Counted(row, e) = [winner_id |-> e, count |-> 1]
  BY DEF Counted, NoVotes

(* When its writers are done, a document's own row says what the document  *)
(* says, and an acknowledged vote is counted, unless two of them           *)
(* overlapped, one failed between its halves or the process ended there.   *)
THEOREM EditsStand == DocumentsSpec => []UndisturbedEditsStand
  <1> DEFINE Inv == EditsInv /\ MirrorInv /\ VotesInv
  <1> USE DEF Kind
  <1>1. ASSUME DocumentsInit PROVE Inv
    <2>1. EditsInv
      BY <1>1 DEF DocumentsInit, EditsInv, Resting
    <2>2. MirrorInv /\ VotesInv
      BY <1>1 DEF DocumentsInit, MirrorInv, VotesInv, Resting
    <2>3. QED
      BY <2>1, <2>2
  <1>2. ASSUME Inv, [DocumentsNext]_documentVars PROVE Inv'
    <2>1. ASSUME NEW b \in Body, MemoryPut(b) PROVE Inv'
      <3>1. EditsInv'
        BY <1>2, <2>1 DEF MemoryPut, EditsInv
      <3>2. MirrorInv' /\ VotesInv'
        BY <1>2, <2>1 DEF MemoryPut, MirrorInv, VotesInv, Counted
      <3>3. QED
        BY <3>1, <3>2
    <2>2. CASE MemoryDelete
      <3>1. EditsInv'
        BY <1>2, <2>2 DEF MemoryDelete, EditsInv
      <3>2. MirrorInv' /\ VotesInv'
        BY <1>2, <2>2 DEF MemoryDelete, MirrorInv, VotesInv, Counted
      <3>3. QED
        BY <3>1, <3>2
    <2>3. ASSUME NEW w \in Writer, NEW b \in Body \cup {NoDocument}, store = "sqlite",
                 writing[w] = Resting, document' = b,
                 Proceed(w, [kind |-> "mirror", row |-> b]),
                 spoiled' = spoiled \cup Overlaps(w, "mirror"),
                 UNCHANGED <<store, mirror, votes, cast>>
          PROVE  Inv'
      <3>1. Kind(w) = "idle"
        BY <2>3 DEF Resting
      <3> DEFINE next == [kind |-> "mirror", row |-> b]
      <3>2. next.kind = "mirror" /\ next.row = b
        OBVIOUS
      <3> HIDE DEF next
      <3>3. /\ EditsInv'
            /\ \A u \in Writer \ {w} : writing'[u] = writing[u]
            /\ writing'[w] = next
            /\ \A u \in Writer \ {w} : u \notin apart' => u \notin apart /\ Kind(u) # "mirror"
        <4>1. Proceed(w, next) /\ spoiled' = spoiled \cup Overlaps(w, next.kind) \cup {}
          BY <2>3, <3>2 DEF next
        <4>2. QED
          BY <1>2, <3>1, <3>2, <4>1, ProceedKeepsEdits
      <3>4. MirrorInv'
        BY <2>3, <3>2, <3>3 DEF MirrorInv, Kept
      <3>5. "vote" \notin spoiled' => "vote" \notin spoiled
        BY <2>3
      <3>6. VotesInv'
        BY <1>2, <2>3, <3>2, <3>3, <3>5 DEF VotesInv, Counted, Overlaps
      <3>7. QED
        BY <3>3, <3>4, <3>6
    <2>4. ASSUME NEW w \in Writer, NEW b \in Body, PutKv(w, b) PROVE Inv'
      BY <2>3, <2>4 DEF PutKv
    <2>5. ASSUME NEW w \in Writer, DeleteKv(w) PROVE Inv'
      BY <2>3, <2>5 DEF DeleteKv
    <2>6. ASSUME NEW w \in Writer, writing[w].kind = "mirror", mirror' = writing[w].row,
                 Mirrored(w)
          PROVE  Inv'
      <3>1. /\ End(w) /\ UNCHANGED <<store, document, votes, cast>>
            /\ spoiled' = IF w \in apart THEN spoiled ELSE spoiled \ {"mirror"}
        BY <2>6 DEF Mirrored
      <3>2. /\ EditsInv'
            /\ \A u \in Writer \ {w} : writing'[u] = writing[u]
            /\ Kind(w)' = "idle"
            /\ apart' = apart \ {w}
        BY <1>2, <2>6, <3>1, EndKeepsEdits
      <3>3. "mirror" \notin spoiled' => w \notin apart
        BY <1>2, <2>6, <3>1 DEF EditsInv
      <3>4. MirrorInv'
        BY <1>2, <2>6, <3>1, <3>2, <3>3 DEF MirrorInv, Kept
      <3>5. VotesInv'
        BY <1>2, <3>1, <3>2 DEF VotesInv, Counted
      <3>6. QED
        BY <3>2, <3>4, <3>5
    <2>7. ASSUME NEW w \in Writer, DualWrite(w) \/ DualDelete(w) PROVE Inv'
      BY <2>6, <2>7 DEF DualWrite, DualDelete
    <2>8. ASSUME NEW w \in Writer, DualFails(w) PROVE Inv'
      <3>1. /\ End(w) /\ UNCHANGED <<store, document, mirror, votes, cast>>
            /\ spoiled' = spoiled \cup {"mirror"} /\ Kind(w) = "mirror"
        BY <2>8 DEF DualFails
      <3>2. /\ EditsInv'
            /\ \A u \in Writer \ {w} : writing'[u] = writing[u]
            /\ Kind(w)' = "idle"
            /\ apart' = apart \ {w}
        BY <1>2, <3>1, EndKeepsEdits
      <3>3. MirrorInv'
        BY <1>2, <3>1, <3>2 DEF MirrorInv, Kept
      <3>4. VotesInv'
        BY <1>2, <3>1, <3>2 DEF VotesInv, Counted
      <3>5. QED
        BY <3>2, <3>3, <3>4
    <2>9. ASSUME NEW w \in Writer, ReadVotes(w) PROVE Inv'
      <3>1. PICK e \in Candidate, read \in BOOLEAN : ReadVotes(w)!(e, read)
        BY <2>9, Zenon DEF ReadVotes
      <3>2. Kind(w) = "idle" /\ UNCHANGED <<store, document, mirror, votes, cast>>
        BY <3>1 DEF Resting
      <3>3. PICK seen, lost : /\ seen = IF read THEN votes ELSE NoVotes
                              /\ lost = IF read THEN {} ELSE {"vote"}
        OBVIOUS
      <3> DEFINE next == [kind |-> "vote", row |-> Counted(seen, e)]
      <3>4. /\ Proceed(w, next)
            /\ spoiled' = spoiled \cup Overlaps(w, "vote") \cup lost
        BY <3>1, <3>3
      <3>5. next.kind = "vote" /\ next.row = Counted(seen, e) /\ next.row.winner_id = e
        BY DEF Counted
      <3> HIDE DEF next
      <3>6. /\ EditsInv'
            /\ \A u \in Writer \ {w} : writing'[u] = writing[u]
            /\ writing'[w] = next
            /\ \A u \in Writer \ {w} : u \notin apart' => u \notin apart /\ Kind(u) # "vote"
        BY <1>2, <3>2, <3>4, <3>5, ProceedKeepsEdits
      <3>7. MirrorInv'
        BY <1>2, <3>2, <3>4, <3>5, <3>6 DEF MirrorInv, Kept, Overlaps
      <3>8. seen \in {votes, NoVotes} /\ ("vote" \notin spoiled' => seen = votes)
        BY <3>3, <3>4
      <3>9. VotesInv'
        BY <1>2, <3>2, <3>4, <3>5, <3>6, <3>8 DEF VotesInv, Counted
      <3>10. QED
        BY <3>6, <3>7, <3>9
    <2>10. ASSUME NEW w \in Writer, WriteVotes(w) PROVE Inv'
      <3> DEFINE row == writing[w].row
                 e == row.winner_id
      <3>1. /\ Kind(w) = "vote" /\ votes' = row /\ cast' = Counted(cast, e)
            /\ End(w) /\ UNCHANGED <<store, document, mirror>>
            /\ spoiled' = IF w \notin apart /\ e \notin {votes.winner_id, cast.winner_id}
                            THEN spoiled \ {"vote"} ELSE spoiled
        BY <2>10 DEF WriteVotes
      <3>2. /\ EditsInv'
            /\ \A u \in Writer \ {w} : writing'[u] = writing[u]
            /\ Kind(w)' = "idle"
            /\ apart' = apart \ {w}
        BY <1>2, <3>1, EndKeepsEdits
      <3>3. MirrorInv'
        BY <1>2, <3>1, <3>2 DEF MirrorInv, Kept
      <3>4. "vote" \notin spoiled' => w \notin apart
        BY <1>2, <3>1 DEF EditsInv
      <3>5. "vote" \notin spoiled' => votes' = cast'
        <4>1. CASE "vote" \notin spoiled
          BY <1>2, <3>1, <3>4, <4>1 DEF VotesInv
        <4>2. CASE "vote" \in spoiled /\ "vote" \notin spoiled'
          <5>1. e # votes.winner_id /\ e # cast.winner_id /\ w \notin apart
            BY <3>1, <4>2
          <5>2. row \in {Counted(votes, e), Counted(NoVotes, e)}
            BY <1>2, <3>1, <5>1 DEF VotesInv
          <5>3. QED
            BY <3>1, <5>1, <5>2, NewWinnersStartOver
        <4>3. QED
          BY <4>1, <4>2
      <3>6. \A u \in Writer \ {w} : Kind(u) = "vote" => u \in apart
        BY <1>2, <3>1 DEF EditsInv
      <3>7. VotesInv'
        BY <3>2, <3>5, <3>6 DEF VotesInv
      <3>8. QED
        BY <3>2, <3>3, <3>7
    <2>11. ASSUME NEW w \in Writer, VoteFails(w) PROVE Inv'
      <3>1. /\ End(w) /\ UNCHANGED <<store, document, mirror, votes, cast, spoiled>>
            /\ Kind(w) = "vote"
        BY <2>11 DEF VoteFails
      <3>2. /\ EditsInv'
            /\ \A u \in Writer \ {w} : writing'[u] = writing[u]
            /\ Kind(w)' = "idle"
            /\ apart' = apart \ {w}
        BY <1>2, <3>1, EndKeepsEdits
      <3>3. MirrorInv'
        BY <1>2, <3>1, <3>2 DEF MirrorInv, Kept
      <3>4. VotesInv'
        BY <1>2, <3>1, <3>2 DEF VotesInv, Counted
      <3>5. QED
        BY <3>2, <3>3, <3>4
    <2>12. CASE DocumentsCrash
      <3>1. /\ writing' = [w \in Writer |-> Resting] /\ apart' = {} /\ store' = store
            /\ store = "sqlite" =>
                 /\ spoiled' = IF \E w \in Writer : Kind(w) = "mirror"
                                 THEN spoiled \cup {"mirror"} ELSE spoiled
                 /\ UNCHANGED <<document, mirror, votes, cast>>
            /\ store # "sqlite" => votes' = NoVotes /\ cast' = NoVotes
        BY <2>12 DEF DocumentsCrash
      <3>2. \A w \in Writer : Kind(w)' = "idle"
        BY <3>1 DEF Resting
      <3>3. EditsInv'
        BY <3>1, <3>2 DEF EditsInv
      <3>4. MirrorInv'
        BY <1>2, <3>1, <3>2 DEF MirrorInv, Kept
      <3>5. VotesInv'
        BY <1>2, <3>1, <3>2 DEF VotesInv
      <3>6. QED
        BY <3>3, <3>4, <3>5
    <2>13. CASE UNCHANGED documentVars
      <3>1. EditsInv'
        BY <1>2, <2>13 DEF documentVars, EditsInv
      <3>2. MirrorInv' /\ VotesInv'
        BY <1>2, <2>13 DEF documentVars, MirrorInv, VotesInv, Kept, Counted
      <3>3. QED
        BY <3>1, <3>2
    <2>14. QED
      BY <1>2, <2>1, <2>2, <2>4, <2>5, <2>7, <2>8, <2>9, <2>10, <2>11, <2>12, <2>13
         DEF DocumentsNext
  <1>3. Inv => UndisturbedEditsStand
    BY DEF MirrorInv, VotesInv, UndisturbedEditsStand, Kept
  <1>4. QED
    BY <1>1, <1>2, <1>3, PTL DEF DocumentsSpec

-----------------------------------------------------------------------------
(* The file of profiles *)

(* A store whose default is one of its profiles, and what a file may hold. *)
WholeStores ==
    {s \in ProfileStore : s.default # NoProfile => s.profiles[s.default] # NoProfile}
Contents == {Missing, Empty, Torn} \cup WholeStores

Edits == [op : {"add", "use", "remove", "rotate"},
          stage : {"look up", "load", "open", "write", "permissions", "rename"},
          name : ProfileName, profile : ProfileRecord, default : BOOLEAN,
          store : ProfileStore]
Rewriting(c) == editor[c].stage \in {"open", "write", "permissions", "rename"}

(* What the acknowledged profiles become when a command reports success.   *)
AckedAfter(e) ==
    CASE e.op \in {"add", "rotate"} -> [acked EXCEPT ![e.name] = e.profile]
      [] e.op = "remove" -> [acked EXCEPT ![e.name] = NoProfile]
      [] OTHER -> acked

FilesInv ==
    /\ editor \in [Command -> {Idle} \cup Edits]
    /\ open = [c \in Command |-> open[c]]
    /\ saved \in Contents /\ tmp \in Contents
    /\ \A c \in Command :
          /\ Rewriting(c) => editor[c].store \in WholeStores
          /\ editor[c].stage = "write" => open[c] \in {"tmp", "saved", "gone"}
    /\ ran \in Nat

(* As long as one command saved at a time, the temporary file is its own.  *)
SavingInv ==
    ~crossed =>
       /\ saved \notin Unreadable
       /\ \A c, d \in Command : Saving(c) /\ Saving(d) => c = d
       /\ \A c \in Command :
             /\ editor[c].stage = "write" => open[c] = "tmp" /\ tmp = Empty
             /\ editor[c].stage \in {"permissions", "rename"} => tmp = editor[c].store

(* As long as one command ran at a time, its store is the edit of what was *)
(* acknowledged.                                                           *)
AloneInv ==
    ~together =>
       /\ ~crossed
       /\ Loaded.profiles = acked
       /\ \A c, d \in Command : editor[c] # Idle /\ editor[d] # Idle => c = d
       /\ \A c \in Command : Rewriting(c) => editor[c].store.profiles = AckedAfter(editor[c])

(* A store that is edited has no default that is not one of its profiles.  *)
LEMMA EditsAreWhole ==
  ASSUME NEW s \in WholeStores, NEW e \in Edits,
         e.op = "use" => s.profiles[e.name] # NoProfile
  PROVE  /\ EditStore(s, e) \in WholeStores
         /\ EditStore(s, e).profiles =
              CASE e.op \in {"add", "rotate"} -> [s.profiles EXCEPT ![e.name] = e.profile]
                [] e.op = "remove" -> [s.profiles EXCEPT ![e.name] = NoProfile]
                [] OTHER -> s.profiles
  <1> USE ProfilesAssumption
  <1>1. /\ s \in ProfileStore /\ s.profiles \in [ProfileName -> ProfileRecord \cup {NoProfile}]
        /\ s.default \in ProfileName \cup {NoProfile}
        /\ s.default # NoProfile => s.profiles[s.default] # NoProfile
    BY DEF WholeStores, ProfileStore
  <1>2. e.name \in ProfileName /\ e.profile \in ProfileRecord /\ e.profile # NoProfile
        /\ e.name # NoProfile
    BY DEF Edits
  <1>3. CASE e.op \in {"add", "rotate"}
    <2> DEFINE profiles == [s.profiles EXCEPT ![e.name] = e.profile]
               default == IF e.default \/ s.default = NoProfile THEN e.name ELSE s.default
    <2>1. EditStore(s, e) = [default |-> default, profiles |-> profiles]
      BY <1>3 DEF EditStore, Upsert
    <2>2. profiles \in [ProfileName -> ProfileRecord \cup {NoProfile}]
          /\ profiles[e.name] = e.profile
          /\ \A n \in ProfileName : n # e.name => profiles[n] = s.profiles[n]
      BY <1>1, <1>2
    <2>3. default \in ProfileName /\ (default = e.name \/ default = s.default)
      BY <1>1, <1>2
    <2> HIDE DEF profiles, default
    <2>4. profiles[default] # NoProfile
      BY <1>1, <1>2, <2>2, <2>3
    <2>5. EditStore(s, e).profiles = profiles
      BY <2>1
    <2>6. EditStore(s, e) \in WholeStores
      BY <2>1, <2>2, <2>3, <2>4 DEF WholeStores, ProfileStore
    <2>7. QED
      BY <1>3, <2>5, <2>6 DEF profiles
  <1>4. CASE e.op = "use"
    <2>1. EditStore(s, e) = [s EXCEPT !.default = e.name]
      BY <1>4 DEF EditStore
    <2>2. EditStore(s, e) = [default |-> e.name, profiles |-> s.profiles]
      BY <1>1, <2>1 DEF ProfileStore
    <2>3. EditStore(s, e) \in WholeStores
      BY <1>1, <1>2, <1>4, <2>2 DEF WholeStores, ProfileStore
    <2>4. QED
      BY <1>4, <2>2, <2>3
  <1>5. CASE e.op = "remove"
    <2> DEFINE profiles == [s.profiles EXCEPT ![e.name] = NoProfile]
               default == IF s.default = e.name THEN NoProfile ELSE s.default
    <2>1. EditStore(s, e) = [default |-> default, profiles |-> profiles]
      BY <1>5 DEF EditStore, Remove
    <2>2. profiles \in [ProfileName -> ProfileRecord \cup {NoProfile}]
          /\ \A n \in ProfileName : n # e.name => profiles[n] = s.profiles[n]
      BY <1>1, <1>2
    <2>3. default \in ProfileName \cup {NoProfile}
          /\ (default # NoProfile => default = s.default /\ default # e.name)
      BY <1>1, <1>2
    <2> HIDE DEF profiles, default
    <2>4. default # NoProfile => profiles[default] # NoProfile
      BY <1>1, <2>2, <2>3
    <2>5. EditStore(s, e).profiles = profiles
      BY <2>1
    <2>6. EditStore(s, e) \in WholeStores
      BY <2>1, <2>2, <2>3, <2>4 DEF WholeStores, ProfileStore
    <2>7. QED
      BY <1>5, <2>5, <2>6 DEF profiles
  <1>6. e.op \in {"add", "rotate", "use", "remove"}
    BY DEF Edits
  <1>7. QED
    BY <1>3, <1>4, <1>5, <1>6

(* What a command loads is a whole store, or it ends.                      *)
LEMMA LoadedIsWhole ==
  ASSUME FilesInv, saved \notin Unreadable
  PROVE  Loaded \in WholeStores
  <1>1. NoStore \in WholeStores
    BY ProfilesAssumption DEF NoStore, WholeStores, ProfileStore
  <1>2. QED
    BY <1>1 DEF FilesInv, Loaded, Contents, Unreadable

(* A command that moves on without another store keeps what it is about.   *)
LEMMA MovesKeepEdits ==
  ASSUME FilesInv, NEW c \in Command, editor[c] # Idle,
         NEW stage \in {"look up", "load", "open", "write", "permissions", "rename"},
         Moves(c, stage)
  PROVE  /\ editor' \in [Command -> {Idle} \cup Edits]
         /\ \A d \in Command \ {c} : editor'[d] = editor[d]
         /\ editor'[c].stage = stage /\ editor'[c] \in Edits /\ editor'[c] # Idle
         /\ editor'[c].store = editor[c].store
         /\ editor'[c].op = editor[c].op /\ editor'[c].name = editor[c].name
         /\ editor'[c].profile = editor[c].profile
  <1>1. editor[c] \in Edits
    BY DEF FilesInv
  <1>2. editor' = [editor EXCEPT ![c] = [editor[c] EXCEPT !.stage = stage]]
    BY DEF Moves
  <1> DEFINE e == [editor[c] EXCEPT !.stage = stage]
  <1>3. /\ e \in Edits /\ e.stage = stage /\ e.store = editor[c].store
        /\ e.op = editor[c].op /\ e.name = editor[c].name /\ e.profile = editor[c].profile
    BY <1>1 DEF Edits
  <1>4. e # Idle
    BY <1>3 DEF Idle
  <1> HIDE DEF e
  <1>5. editor' = [editor EXCEPT ![c] = e]
    BY <1>2 DEF e
  <1>6. QED
    BY <1>3, <1>4, <1>5 DEF FilesInv

(* The file is whole unless two commands saved at a time, its default is   *)
(* one of its profiles whoever saved it, and it has what commands that ran *)
(* one after the other have reported.                                      *)
THEOREM ProfilesStand == ProfilesSpec => []ProfilesAreKept
  <1> USE ProfilesAssumption
  <1> DEFINE Inv == FilesInv /\ SavingInv /\ AloneInv
  <1>1. ASSUME ProfilesInit PROVE Inv
    <2>1. /\ saved = Missing /\ tmp = Missing /\ editor = [c \in Command |-> Idle]
          /\ open = [c \in Command |-> "none"] /\ ran = 0
      BY <1>1 DEF ProfilesInit
    <2>2. \A c \in Command : editor[c] = Idle /\ editor[c].stage = "idle"
      BY <2>1 DEF Idle
    <2>3. FilesInv
      BY <2>1, <2>2 DEF FilesInv, Contents, Rewriting
    <2>4. SavingInv
      BY <2>1, <2>2 DEF SavingInv, Saving, Unreadable
    <2>5. ~crossed /\ Loaded.profiles = acked
      BY <1>1, <2>1 DEF ProfilesInit, Loaded, NoStore
    <2>6. AloneInv
      BY <2>2, <2>5 DEF AloneInv, Rewriting
    <2>7. QED
      BY <2>3, <2>4, <2>6
  <1>2. ASSUME Inv, [ProfilesNext]_profileVars PROVE Inv'
    <2> SUFFICES ASSUME Inv, ProfilesNext PROVE Inv'
      <3>1. CASE UNCHANGED profileVars
        <4>1. UNCHANGED <<saved, tmp, editor, open, ran, acked, together, crossed>>
          BY <3>1 DEF profileVars
        <4>2. FilesInv' /\ SavingInv'
          BY <1>2, <4>1 DEF FilesInv, SavingInv, Saving, Rewriting
        <4>3. AloneInv'
          BY <1>2, <4>1 DEF AloneInv, Rewriting, Loaded, AckedAfter
        <4>4. QED
          BY <4>2, <4>3
      <3>2. QED
        BY <1>2, <3>1
    <2>1. ASSUME NEW c \in Command, RunCommand(c) PROVE Inv'
      <3>1. PICK e \in Edits : e.stage \in {"look up", "load"}
                              /\ editor' = [editor EXCEPT ![c] = e]
        <4>1. PICK op \in {"add", "use", "remove", "rotate"}, n \in ProfileName,
                   origin \in Origin, default \in BOOLEAN :
                editor' = [editor EXCEPT ![c] =
                  [op |-> op, stage |-> IF op = "rotate" THEN "look up" ELSE "load", name |-> n,
                   profile |-> [origin |-> origin, token |-> ran], default |-> default,
                   store |-> NoStore]]
          BY <2>1 DEF RunCommand
        <4>2. [origin |-> origin, token |-> ran] \in ProfileRecord
          BY <2>1 DEF FilesInv, ProfileRecord
        <4>3. NoStore \in ProfileStore
          BY DEF NoStore, ProfileStore
        <4> DEFINE e == [op |-> op, stage |-> IF op = "rotate" THEN "look up" ELSE "load",
                         name |-> n, profile |-> [origin |-> origin, token |-> ran],
                         default |-> default, store |-> NoStore]
        <4>4. e \in Edits /\ e.stage \in {"look up", "load"}
          BY <4>2, <4>3 DEF Edits
        <4>5. QED
          BY <4>1, <4>4
      <3>2. /\ editor[c] = Idle /\ ran' = ran + 1 /\ UNCHANGED <<saved, tmp, open, acked, crossed>>
            /\ together' = (together \/ \E d \in Command : editor[d] # Idle)
        BY <2>1 DEF RunCommand
      <3>3. /\ editor'[c] = e /\ \A d \in Command \ {c} : editor'[d] = editor[d]
            /\ editor' \in [Command -> {Idle} \cup Edits]
        BY <3>1 DEF FilesInv
      <3>4. FilesInv'
        <4>1. /\ ~Rewriting(c)' /\ editor'[c].stage # "write"
              /\ \A d \in Command \ {c} : Rewriting(d)' <=> Rewriting(d)
          BY <3>1, <3>3 DEF Rewriting
        <4>2. ran' \in Nat
          BY <3>2 DEF FilesInv
        <4>3. QED
          BY <3>2, <3>3, <4>1, <4>2 DEF FilesInv
      <3>5. SavingInv'
        BY <3>1, <3>2, <3>3 DEF SavingInv, Saving
      <3>6. Loaded' = Loaded
        BY <3>2 DEF Loaded
      <3>7. AloneInv'
        BY <3>1, <3>2, <3>3, <3>6 DEF AloneInv, Rewriting, AckedAfter
      <3>8. QED
        BY <3>4, <3>5, <3>7
    (* A command that ends, or is killed, takes its file along. *)
    <2>2. ASSUME NEW c \in Command, editor[c] # Idle, Gone(c),
                 UNCHANGED <<saved, tmp, ran, acked, together, crossed>>
          PROVE  Inv'
      <3>1. /\ editor' = [editor EXCEPT ![c] = Idle] /\ open' = [open EXCEPT ![c] = "none"]
            /\ Idle.stage = "idle"
        BY <2>2 DEF Gone, Idle
      <3>2. /\ editor'[c] = Idle /\ \A d \in Command \ {c} : editor'[d] = editor[d]
            /\ \A d \in Command \ {c} : open'[d] = open[d]
            /\ editor' \in [Command -> {Idle} \cup Edits]
            /\ open' = [d \in Command |-> open'[d]]
        BY <3>1 DEF FilesInv
      <3> HIDE <3>1
      <3>3. FilesInv'
        BY <2>2, <3>1, <3>2 DEF FilesInv, Rewriting
      <3>4. SavingInv'
        BY <2>2, <3>1, <3>2 DEF SavingInv, Saving
      <3>5. Loaded' = Loaded
        BY <2>2 DEF Loaded
      <3>6. AloneInv'
        BY <2>2, <3>1, <3>2, <3>5 DEF AloneInv, Rewriting, AckedAfter
      <3>7. QED
        BY <3>3, <3>4, <3>6
    <2>3. ASSUME NEW c \in Command, CommandKilled(c) PROVE Inv'
      BY <2>2, <2>3 DEF CommandKilled
    (* A command that goes on to load has no store yet. *)
    <2>4. ASSUME NEW c \in Command, LookUpOrigin(c) PROVE Inv'
      <3>1. editor[c] # Idle /\ UNCHANGED <<saved, tmp, ran, acked, together, crossed>>
        <4>1. editor[c].stage = "look up"
          BY <2>4 DEF LookUpOrigin
        <4>2. Idle.stage = "idle"
          BY DEF Idle
        <4>3. "look up" # "idle"
          OBVIOUS
        <4>4. editor[c] # Idle
          BY <4>1, <4>2, <4>3, Zenon
        <4>5. UNCHANGED <<saved, tmp, ran, acked, together, crossed>>
          BY <2>4 DEF LookUpOrigin
        <4>6. QED
          BY <4>4, <4>5
      <3>2. CASE Gone(c)
        BY <2>2, <3>1, <3>2
      <3>3. CASE ~Gone(c)
        <4>1. /\ saved \notin Unreadable
              /\ Loaded.profiles[editor[c].name] # NoProfile
              /\ editor' = [editor EXCEPT ![c].stage = "load",
                              ![c].profile.origin = Loaded.profiles[editor[c].name].origin]
              /\ UNCHANGED open
          BY <2>4, <3>3 DEF LookUpOrigin
        <4>2. editor[c] \in Edits /\ editor[c].profile \in ProfileRecord
          BY <3>1 DEF FilesInv, Edits
        <4>3. Loaded.profiles[editor[c].name] \in ProfileRecord
          BY <4>1, <4>2, LoadedIsWhole DEF WholeStores, ProfileStore, Edits
        <4> DEFINE profile == [editor[c].profile EXCEPT !.origin =
                                 Loaded.profiles[editor[c].name].origin]
                   e == [editor[c] EXCEPT !.stage = "load", !.profile = profile]
        <4>4. profile \in ProfileRecord
          BY <4>2, <4>3 DEF ProfileRecord
        <4>5. editor' = [editor EXCEPT ![c] = e]
          BY <4>1, <4>2 DEF FilesInv, Edits
        <4> HIDE DEF profile
        <4>6. e \in Edits /\ e.stage = "load"
          BY <4>2, <4>4 DEF Edits
        <4> HIDE DEF e
        <4>7. /\ editor'[c] = e /\ \A d \in Command \ {c} : editor'[d] = editor[d]
              /\ editor' \in [Command -> {Idle} \cup Edits]
          BY <4>5, <4>6 DEF FilesInv
        <4>8. FilesInv'
          BY <3>1, <4>1, <4>6, <4>7 DEF FilesInv, Rewriting
        <4>9. SavingInv'
          BY <3>1, <4>1, <4>6, <4>7 DEF SavingInv, Saving
        <4>10. Loaded' = Loaded
          BY <3>1 DEF Loaded
        <4>11. AloneInv'
          BY <3>1, <4>1, <4>6, <4>7, <4>10 DEF AloneInv, Rewriting, AckedAfter
        <4>12. QED
          BY <4>8, <4>9, <4>11
      <3>4. QED
        BY <3>2, <3>3
    <2>5. ASSUME NEW c \in Command, LoadStore(c) PROVE Inv'
      <3>1. editor[c] # Idle /\ UNCHANGED <<saved, tmp, ran, acked, together, crossed>>
        BY <2>5 DEF LoadStore, Idle
      <3>2. CASE Gone(c)
        BY <2>2, <3>1, <3>2
      <3>3. CASE ~Gone(c)
        <4>1. /\ saved \notin Unreadable
              /\ editor[c].op = "use" => Loaded.profiles[editor[c].name] # NoProfile
              /\ editor' = [editor EXCEPT ![c].stage = "open",
                                         ![c].store = EditStore(Loaded, editor[c])]
              /\ UNCHANGED open
          BY <2>5, <3>3 DEF LoadStore
        <4>2. editor[c] \in Edits
          BY <3>1 DEF FilesInv
        <4> DEFINE s == EditStore(Loaded, editor[c])
                   e == [editor[c] EXCEPT !.stage = "open", !.store = s]
        <4>3. /\ s \in WholeStores /\ s \in ProfileStore
              /\ s.profiles =
                   CASE editor[c].op \in {"add", "rotate"} ->
                          [Loaded.profiles EXCEPT ![editor[c].name] = editor[c].profile]
                     [] editor[c].op = "remove" ->
                          [Loaded.profiles EXCEPT ![editor[c].name] = NoProfile]
                     [] OTHER -> Loaded.profiles
          BY <4>1, <4>2, LoadedIsWhole, EditsAreWhole DEF WholeStores
        <4>4. editor' = [editor EXCEPT ![c] = e]
          BY <4>1, <4>2 DEF FilesInv, Edits
        <4> HIDE DEF s
        <4>5. /\ e \in Edits /\ e.stage = "open" /\ e.store = s
              /\ e.op = editor[c].op /\ e.name = editor[c].name /\ e.profile = editor[c].profile
          BY <4>2, <4>3 DEF Edits
        <4> HIDE DEF e
        <4>6. /\ editor'[c] = e /\ \A d \in Command \ {c} : editor'[d] = editor[d]
              /\ editor' \in [Command -> {Idle} \cup Edits]
          BY <4>4, <4>5 DEF FilesInv
        <4>7. FilesInv'
          BY <3>1, <4>1, <4>3, <4>5, <4>6 DEF FilesInv, Rewriting
        <4>8. SavingInv'
          BY <3>1, <4>1, <4>5, <4>6 DEF SavingInv, Saving
        <4>9. Loaded' = Loaded
          BY <3>1 DEF Loaded
        <4>10. ~together => e.store.profiles = AckedAfter(e)
          BY <4>3, <4>5 DEF AloneInv, AckedAfter
        <4>11. AloneInv'
          BY <3>1, <4>1, <4>6, <4>9, <4>10 DEF AloneInv, Rewriting, AckedAfter
        <4>12. QED
          BY <4>7, <4>8, <4>11
      <3>4. QED
        BY <3>2, <3>3
    <2>6. ASSUME NEW c \in Command, OpenTmp(c) PROVE Inv'
      <3>1. /\ editor[c].stage = "open" /\ tmp' = Empty /\ open' = [open EXCEPT ![c] = "tmp"]
            /\ crossed' = (crossed \/ \E d \in Command : Saving(d))
            /\ Moves(c, "write") /\ UNCHANGED <<saved, ran, acked, together>>
            /\ editor[c] # Idle
        BY <2>6 DEF OpenTmp, Idle
      <3>2. /\ editor' \in [Command -> {Idle} \cup Edits]
            /\ \A d \in Command \ {c} : editor'[d] = editor[d]
            /\ editor'[c].stage = "write" /\ editor'[c] # Idle
            /\ editor'[c].store = editor[c].store
            /\ editor'[c].op = editor[c].op /\ editor'[c].name = editor[c].name
            /\ editor'[c].profile = editor[c].profile
        BY <3>1, MovesKeepEdits
      <3>3. open'[c] = "tmp" /\ open' = [d \in Command |-> open'[d]]
        BY <3>1 DEF FilesInv
      <3>4. FilesInv'
        BY <3>1, <3>2, <3>3 DEF FilesInv, Rewriting, Contents
      <3>5. SavingInv'
        <4>1. ~crossed' => ~crossed /\ \A d \in Command : ~Saving(d)
          BY <3>1
        <4>2. QED
          BY <3>1, <3>2, <3>3, <4>1 DEF SavingInv, Saving
      <3>6. Loaded' = Loaded
        BY <3>1 DEF Loaded
      <3>7. ~together => ~crossed'
        <4>1. ~together => \A d \in Command : ~Saving(d)
          BY <3>1 DEF AloneInv, Saving, Idle
        <4>2. ~together => ~crossed
          BY DEF AloneInv
        <4>3. QED
          BY <3>1, <4>1, <4>2
      <3>8. AloneInv'
        BY <3>1, <3>2, <3>6, <3>7 DEF AloneInv, Rewriting, AckedAfter
      <3>9. QED
        BY <3>4, <3>5, <3>8
    <2>7. ASSUME NEW c \in Command, WriteStore(c) PROVE Inv'
      <3>1. /\ editor[c].stage = "write" /\ open' = [open EXCEPT ![c] = "none"]
            /\ Moves(c, "permissions") /\ UNCHANGED <<ran, acked>>
        BY <2>7 DEF WriteStore
      <3>2. editor[c] # Idle
        BY <3>1 DEF Idle
      <3>3. UNCHANGED <<together, crossed>>
        BY <2>7 DEF WriteStore
      <3>4. /\ editor' \in [Command -> {Idle} \cup Edits]
            /\ \A d \in Command \ {c} : editor'[d] = editor[d]
            /\ editor'[c].stage = "permissions" /\ editor'[c] # Idle
            /\ editor'[c].store = editor[c].store
            /\ editor'[c].op = editor[c].op /\ editor'[c].name = editor[c].name
            /\ editor'[c].profile = editor[c].profile
        BY <3>1, <3>2, MovesKeepEdits
      <3>5. open' = [d \in Command |-> open'[d]]
        BY <3>1 DEF FilesInv
      <3>6. editor[c].store \in WholeStores
        BY <3>1 DEF FilesInv, Rewriting
      <3>7. tmp' \in Contents /\ saved' \in Contents
        <4>1. CASE open[c] = "tmp"
          <5>1. tmp' \in Overwritten(tmp, editor[c].store) /\ saved' = saved
            BY <2>7, <4>1 DEF WriteStore
          <5>2. QED
            BY <3>6, <5>1 DEF Overwritten, FilesInv, Contents
        <4>2. CASE open[c] = "saved"
          <5>1. saved' \in Overwritten(saved, editor[c].store) /\ tmp' = tmp
            BY <2>7, <4>2 DEF WriteStore
          <5>2. QED
            BY <3>6, <5>1 DEF Overwritten, FilesInv, Contents
        <4>3. CASE open[c] = "gone"
          BY <2>7, <4>3 DEF WriteStore, FilesInv
        <4>4. QED
          BY <3>1, <4>1, <4>2, <4>3 DEF FilesInv
      <3>8. FilesInv'
        BY <3>1, <3>4, <3>5, <3>6, <3>7 DEF FilesInv, Rewriting
      <3>9. ~crossed => tmp' = editor[c].store /\ saved' = saved
        <4>1. ~crossed => open[c] = "tmp" /\ tmp = Empty
          BY <3>1 DEF SavingInv
        <4>2. open[c] = "tmp" => tmp' \in Overwritten(tmp, editor[c].store) /\ saved' = saved
          BY <2>7 DEF WriteStore
        <4>3. QED
          BY <4>1, <4>2 DEF Overwritten
      <3>10. SavingInv'
        BY <3>1, <3>3, <3>4, <3>9 DEF SavingInv, Saving
      <3>11. ~together => Loaded' = Loaded
        BY <3>9 DEF AloneInv, Loaded
      <3>12. AloneInv'
        BY <3>1, <3>2, <3>3, <3>4, <3>11, SMTT(60) DEF AloneInv, Rewriting, AckedAfter
      <3>13. QED
        BY <3>8, <3>10, <3>12
    <2>8. ASSUME NEW c \in Command, SetPermissions(c) PROVE Inv'
      <3>1. editor[c].stage = "permissions"
        BY <2>8 DEF SetPermissions
      <3>2. editor[c] # Idle
        BY <3>1 DEF Idle
      <3>3. UNCHANGED <<saved, tmp, ran, acked, together, crossed>>
        BY <2>8 DEF SetPermissions
      <3>4. CASE Gone(c)
        BY <2>2, <3>2, <3>3, <3>4
      <3>5. CASE ~Gone(c)
        <4>1. Moves(c, "rename") /\ UNCHANGED open
          BY <2>8, <3>5 DEF SetPermissions
        <4>2. /\ editor' \in [Command -> {Idle} \cup Edits]
              /\ \A d \in Command \ {c} : editor'[d] = editor[d]
              /\ editor'[c].stage = "rename" /\ editor'[c] # Idle
              /\ editor'[c].store = editor[c].store
              /\ editor'[c].op = editor[c].op /\ editor'[c].name = editor[c].name
              /\ editor'[c].profile = editor[c].profile
          BY <3>2, <4>1, MovesKeepEdits
        <4>3. FilesInv'
          BY <3>1, <3>3, <4>1, <4>2 DEF FilesInv, Rewriting
        <4>4. SavingInv'
          BY <3>1, <3>3, <4>1, <4>2 DEF SavingInv, Saving
        <4>5. Loaded' = Loaded
          BY <3>3 DEF Loaded
        <4>6. AloneInv'
          BY <3>1, <3>2, <3>3, <4>2, <4>5 DEF AloneInv, Rewriting, AckedAfter
        <4>7. QED
          BY <4>3, <4>4, <4>6
      <3>6. QED
        BY <3>4, <3>5
    <2>9. ASSUME NEW c \in Command, RenameTmp(c) PROVE Inv'
      <3>1. editor[c].stage = "rename" /\ editor' = [editor EXCEPT ![c] = Idle]
        BY <2>9 DEF RenameTmp
      <3>2. editor[c] # Idle /\ Idle.stage = "idle"
        BY <3>1 DEF Idle
      <3>3. UNCHANGED <<ran, together, crossed>>
        BY <2>9 DEF RenameTmp
      <3>4. /\ editor'[c] = Idle /\ \A d \in Command \ {c} : editor'[d] = editor[d]
            /\ editor' \in [Command -> {Idle} \cup Edits]
        BY <3>1 DEF FilesInv
      <3>5. CASE tmp = Missing
        <4>1. UNCHANGED <<saved, tmp, open, acked>>
          BY <2>9, <3>5 DEF RenameTmp
        <4>2. FilesInv'
          BY <3>2, <3>3, <3>4, <4>1 DEF FilesInv, Rewriting
        <4>3. SavingInv'
          BY <3>2, <3>3, <3>4, <4>1 DEF SavingInv, Saving
        <4>4. Loaded' = Loaded
          BY <4>1 DEF Loaded
        <4>5. AloneInv'
          BY <3>2, <3>3, <3>4, <4>1, <4>4 DEF AloneInv, Rewriting, AckedAfter
        <4>6. QED
          BY <4>2, <4>3, <4>5
      <3>6. CASE tmp # Missing
        <4>1. saved' = tmp /\ tmp' = Missing /\ acked' = AckedAfter(editor[c])
          BY <2>9, <3>6 DEF RenameTmp, AckedAfter
        <4>2. open' = [d \in Command |-> CASE open[d] = "tmp" -> "saved"
                                           [] open[d] = "saved" -> "gone"
                                           [] OTHER -> open[d]]
          BY <2>9, <3>6 DEF RenameTmp
        <4>3. open' = [d \in Command |-> open'[d]]
          BY <4>2
        <4>4. FilesInv'
          BY <3>2, <3>3, <3>4, <4>1, <4>2, <4>3 DEF FilesInv, Rewriting, Contents
        <4>5. Rewriting(c) /\ Saving(c)
          BY <3>1 DEF Rewriting, Saving
        <4>6. ~crossed => tmp = editor[c].store /\ \A d \in Command : Saving(d)' => FALSE
          BY <3>1, <3>2, <3>4, <4>5 DEF SavingInv, Saving
        <4>7. editor[c].store \in ProfileStore /\ editor[c].store \notin {Missing, Empty, Torn}
          BY <4>5 DEF FilesInv, WholeStores
        <4>8. SavingInv'
          BY <3>3, <4>1, <4>6, <4>7 DEF SavingInv, Unreadable, Saving
        <4>9. ~together => Loaded'.profiles = acked'
          BY <4>1, <4>5, <4>6, <4>7 DEF AloneInv, Loaded
        <4>10. ~together => \A d \in Command : editor'[d] = Idle
          BY <3>2, <3>4 DEF AloneInv
        <4>11. AloneInv'
          BY <3>2, <3>3, <4>9, <4>10 DEF AloneInv, Rewriting
        <4>12. QED
          BY <4>4, <4>8, <4>11
      <3>7. QED
        BY <3>5, <3>6
    <2>10. QED
      BY <2>1, <2>3, <2>4, <2>5, <2>6, <2>7, <2>8, <2>9 DEF ProfilesNext
  <1>3. Inv => ProfilesAreKept
    <2>1. ASSUME Inv, saved \notin Unreadable, Loaded.default # NoProfile
          PROVE  Loaded.profiles[Loaded.default] # NoProfile
      BY <2>1, LoadedIsWhole DEF WholeStores
    <2>2. QED
      BY <2>1 DEF ProfilesAreKept, SavingInv, AloneInv
  <1>4. QED
    BY <1>1, <1>2, <1>3, PTL DEF ProfilesSpec

-----------------------------------------------------------------------------
(* Teams *)

InviteRow == [code : Nat, org : Team, email : Person, role : Role]
Handled == [op : {"none", "create", "invite", "join", "list"},
            stage : {"idle", "local", "put local", "put local owner", "look up", "count",
                     "put team", "put owner", "put invite", "put member", "delete invite"},
            row : InviteRow]

(* What a request has seen by the time it is at its stage.                 *)
Fits(h) ==
    /\ LocalTeam \notin teams => h.stage \in {"idle", "local", "put local"}
    /\ h.stage \in {"put owner", "put invite"} => h.row.org \in teams
    /\ h.stage = "put member" => h.row \in conferred

HandledInv ==
    /\ handling \in [OrgRequest -> Handled]
    /\ made \in Nat
    /\ \A r \in OrgRequest : Fits(handling[r])
    /\ conferred \subseteq InviteRow /\ invites \subseteq conferred
    /\ \A i \in conferred : i.org \in teams
    /\ LocalTeam \notin teams => teams = {}

OwnersInv == \A org \in teams \ unfinished : OwnerOf(org) # {} \/ BetweenPuts(org)

MembersInv ==
    \A m \in memberships :
       /\ m.org \in teams
       /\ \/ m.subject = LocalSubject /\ m.role = "owner"
          \/ \E i \in conferred : i.org = m.org /\ i.email = m.subject /\ i.role = m.role

(* A request that has counted has a place of its own to fill.              *)
Putting == {r \in OrgRequest : At(r, "create", "put team")}
LimitInv ==
    /\ IsFiniteSet(teams)
    /\ Cardinality(teams) + Cardinality(Putting) <= MaxOwnedOrgs + Cardinality(OrgRequest) - 1
    /\ ~crowded => Cardinality(teams) + Cardinality(Putting) <= MaxOwnedOrgs

(* One request moves; the store only gains.                                *)
LEMMA OneRequestMoves ==
  ASSUME HandledInv, NEW r \in OrgRequest, NEW h \in Handled,
         handling' = [handling EXCEPT ![r] = h], made' \in Nat,
         teams \subseteq teams', conferred \subseteq conferred', conferred' \subseteq InviteRow,
         invites' \subseteq conferred', \A i \in conferred' : i.org \in teams',
         LocalTeam \notin teams' => teams' = {}, Fits(h)'
  PROVE  /\ HandledInv'
         /\ handling'[r] = h /\ \A s \in OrgRequest \ {r} : handling'[s] = handling[s]
  <1>1. handling'[r] = h /\ \A s \in OrgRequest \ {r} : handling'[s] = handling[s]
        /\ handling' \in [OrgRequest -> Handled]
    BY DEF HandledInv
  <1>2. \A s \in OrgRequest : Fits(handling[s])'
    <2>1. \A s \in OrgRequest \ {r} : Fits(handling[s])'
      BY <1>1 DEF HandledInv, Fits
    <2>2. Fits(handling[r])'
      BY <1>1 DEF Fits
    <2>3. QED
      BY <2>1, <2>2
  <1>3. QED
    BY <1>1, <1>2 DEF HandledInv

(* A membership that is put takes no team's owner away.                    *)
LEMMA OwnersStay ==
  ASSUME NEW org, NEW subject, NEW role, PutMembership(org, subject, role)
  PROVE  /\ \A o : OwnerOf(o) # {} => (OwnerOf(o) # {})'
         /\ subject = LocalSubject => (OwnerOf(org) # {})'
  <1> DEFINE new == [org |-> org, subject |-> subject, role |-> role]
  <1>1. new \in memberships' /\ new.org = org /\ new.subject = subject
        /\ \A m \in memberships : m \in memberships' \/ (m.org = org /\ m.subject = subject)
    BY DEF PutMembership
  <1>2. QED
    BY <1>1 DEF OwnerOf

(* The team whose owner a request is about to put.                         *)
OwesOwner(r, org) ==
    \/ At(r, "create", "put owner") /\ handling[r].row.org = org
    \/ handling[r].stage = "put local owner" /\ org = LocalTeam

(* Owners are there after a step of r, if the team it made has one, or r   *)
(* is on the way to put it, or was cut.                                    *)
LEMMA OwnersAreThere ==
  ASSUME OwnersInv, NEW r \in OrgRequest,
         \A s \in OrgRequest \ {r} : handling'[s] = handling[s],
         unfinished \subseteq unfinished',
         \A o : OwnerOf(o) # {} => (OwnerOf(o) # {})',
         \A o \in teams' \ teams : BetweenPuts(o)',
         \A o : OwesOwner(r, o) => (o \in unfinished' \/ (OwnerOf(o) # {})')
  PROVE  OwnersInv'
  <1> SUFFICES ASSUME NEW o \in teams' \ unfinished'
               PROVE  (OwnerOf(o) # {})' \/ BetweenPuts(o)'
    BY DEF OwnersInv
  <1>1. CASE o \notin teams \/ OwnerOf(o) # {}
    BY <1>1
  <1>2. CASE o \in teams /\ BetweenPuts(o)
    <2>1. PICK s \in OrgRequest : OwesOwner(s, o)
      BY <1>2 DEF BetweenPuts, OwesOwner
    <2>2. CASE s = r
      BY <2>1, <2>2
    <2>3. CASE s # r
      <3>1. handling'[s] = handling[s]
        BY <2>3
      <3>2. QED
        BY <2>1, <3>1 DEF BetweenPuts, OwesOwner, At
    <2>4. QED
      BY <2>2, <2>3
  <1>3. QED
    BY <1>1, <1>2 DEF OwnersInv

(* A request that comes to its put, or leaves it, takes or leaves a place. *)
LEMMA PlacesAreCounted ==
  ASSUME NEW r \in OrgRequest,
         \A s \in OrgRequest \ {r} : handling'[s] = handling[s]
  PROVE  /\ IsFiniteSet(Putting) /\ IsFiniteSet(Putting')
         /\ Cardinality(Putting) \in Nat /\ Cardinality(Putting) <= Cardinality(OrgRequest)
         /\ Cardinality(OrgRequest) \in Nat /\ Cardinality(OrgRequest) >= 1
         /\ r \notin Putting' => Cardinality(Putting') <= Cardinality(Putting)
         /\ r \in Putting \ Putting' => Cardinality(Putting') + 1 = Cardinality(Putting)
         /\ r \in Putting' => Cardinality(Putting') <= Cardinality(Putting) + 1
         /\ Cardinality(Putting') \in Nat /\ Cardinality(Putting') <= Cardinality(OrgRequest)
  <1>1. Putting \subseteq OrgRequest /\ Putting' \subseteq OrgRequest
    BY DEF Putting
  <1>2. /\ IsFiniteSet(Putting) /\ IsFiniteSet(Putting') /\ Cardinality(OrgRequest) \in Nat
        /\ Cardinality(Putting) \in Nat /\ Cardinality(Putting') \in Nat
        /\ Cardinality(Putting) <= Cardinality(OrgRequest)
        /\ Cardinality(Putting') <= Cardinality(OrgRequest)
    BY <1>1, OrgsAssumption, FS_Subset, FS_CardinalityType
  <1>3. Cardinality(OrgRequest) # 0
    BY OrgsAssumption, FS_EmptySet
  <1>4. \A s \in OrgRequest \ {r} : s \in Putting' <=> s \in Putting
    BY DEF Putting, At
  <1>5. CASE r \in Putting'
    <2>1. Putting' = Putting \cup {r}
      BY <1>1, <1>4, <1>5
    <2>2. Cardinality(Putting') <= Cardinality(Putting) + 1
      BY <1>2, <2>1, FS_AddElement
    <2>3. QED
      BY <1>2, <1>3, <1>5, <2>2
  <1>6. CASE r \notin Putting'
    <2>1. Putting' = Putting \ {r}
      BY <1>1, <1>4, <1>6
    <2>2. Cardinality(Putting') = IF r \in Putting THEN Cardinality(Putting) - 1
                                                   ELSE Cardinality(Putting)
      BY <1>2, <2>1, FS_RemoveElement
    <2>3. QED
      BY <1>2, <1>3, <1>6, <2>2
  <1>7. QED
    BY <1>5, <1>6

(* A step without a new team leaves room, unless it takes a place.         *)
LEMMA LimitStays ==
  ASSUME LimitInv, NEW r \in OrgRequest,
         \A s \in OrgRequest \ {r} : handling'[s] = handling[s],
         r \notin Putting', teams' = teams, crowded' <=> crowded
  PROVE  LimitInv'
  <1>1. /\ Cardinality(Putting') <= Cardinality(Putting)
        /\ Cardinality(Putting) \in Nat /\ Cardinality(Putting') \in Nat
    BY PlacesAreCounted
  <1>2. Cardinality(teams) \in Nat /\ Cardinality(OrgRequest) \in Nat
    BY OrgsAssumption, FS_CardinalityType DEF LimitInv
  <1>3. QED
    BY <1>1, <1>2, OrgsAssumption DEF LimitInv

(* A new team fills the place its request took.                            *)
LEMMA LimitIsFilled ==
  ASSUME LimitInv, NEW r \in Putting, r \notin Putting', NEW org,
         \A s \in OrgRequest \ {r} : handling'[s] = handling[s],
         teams' = teams \cup {org}, crowded' <=> crowded
  PROVE  LimitInv'
  <1>1. /\ Cardinality(Putting') + 1 = Cardinality(Putting)
        /\ Cardinality(Putting) \in Nat /\ Cardinality(Putting') \in Nat
        /\ Cardinality(OrgRequest) \in Nat
    BY PlacesAreCounted DEF Putting
  <1>2. IsFiniteSet(teams) /\ Cardinality(teams) \in Nat
    BY FS_CardinalityType DEF LimitInv
  <1>3. /\ IsFiniteSet(teams \cup {org})
        /\ Cardinality(teams \cup {org}) = IF org \in teams THEN Cardinality(teams)
                                                        ELSE Cardinality(teams) + 1
    BY <1>2, FS_AddElement
  <1>4. PICK more : more = Cardinality(teams')
    OBVIOUS
  <1>5. /\ IsFiniteSet(teams') /\ more = IF org \in teams THEN Cardinality(teams)
                                                     ELSE Cardinality(teams) + 1
    BY <1>3, <1>4, Zenon
  <1>6. /\ Cardinality(teams) + Cardinality(Putting)
             <= MaxOwnedOrgs + Cardinality(OrgRequest) - 1
        /\ ~crowded => Cardinality(teams) + Cardinality(Putting) <= MaxOwnedOrgs
    BY DEF LimitInv
  <1>7. /\ more + Cardinality(Putting') <= MaxOwnedOrgs + Cardinality(OrgRequest) - 1
        /\ ~crowded => more + Cardinality(Putting') <= MaxOwnedOrgs
    BY <1>1, <1>2, <1>5, <1>6, OrgsAssumption
  <1>8. QED
    BY <1>4, <1>5, <1>7, Zenon DEF LimitInv

(* The first team is the local one.                                        *)
LEMMA LimitBegins ==
  ASSUME teams' = {LocalTeam}, Putting' = {}, NEW r \in OrgRequest
  PROVE  LimitInv'
  <1>1. /\ IsFiniteSet({LocalTeam}) /\ Cardinality({LocalTeam}) = 1
        /\ Cardinality({}) = 0 /\ IsFiniteSet({})
    BY FS_Singleton, FS_EmptySet
  <1>2. Cardinality(OrgRequest) \in Nat /\ Cardinality(OrgRequest) # 0
    BY OrgsAssumption, FS_CardinalityType, FS_EmptySet
  <1>3. 1 + 0 <= MaxOwnedOrgs + Cardinality(OrgRequest) - 1 /\ 1 + 0 <= MaxOwnedOrgs
    BY <1>2, OrgsAssumption
  <1>4. QED
    BY <1>1, <1>3, Zenon DEF LimitInv

(* A request that counts a team too few takes a place.                     *)
LEMMA PlaceIsTaken ==
  ASSUME LimitInv, NEW r \in OrgRequest, Cardinality(teams) < MaxOwnedOrgs,
         \A s \in OrgRequest \ {r} : handling'[s] = handling[s],
         r \in Putting', teams' = teams, ~crowded' => Putting = {}
  PROVE  LimitInv'
  <1>1. /\ Cardinality(Putting') <= Cardinality(Putting) + 1
        /\ Cardinality(Putting') <= Cardinality(OrgRequest)
        /\ Cardinality(Putting) \in Nat /\ Cardinality(Putting') \in Nat
        /\ Cardinality(OrgRequest) \in Nat
    BY PlacesAreCounted
  <1>2. IsFiniteSet(teams) /\ Cardinality(teams) \in Nat
    BY FS_CardinalityType DEF LimitInv
  <1>3. ~crowded' => Cardinality(Putting) = 0
    BY FS_EmptySet
  <1>4. /\ Cardinality(teams) + Cardinality(Putting')
             <= MaxOwnedOrgs + Cardinality(OrgRequest) - 1
        /\ ~crowded' => Cardinality(teams) + Cardinality(Putting') <= MaxOwnedOrgs
    BY <1>1, <1>2, <1>3, OrgsAssumption
  <1>5. QED
    BY <1>2, <1>4, Zenon DEF LimitInv

OrgsInv == HandledInv /\ OwnersInv /\ MembersInv /\ LimitInv

(* The teams whose owner request r was to put are on record when it goes.  *)
Excused(r) == \A o : OwesOwner(r, o) => o \in unfinished'

(* A step that puts no team and no membership.                             *)
LEMMA InvitesOnly ==
  ASSUME OrgsInv, NEW r \in OrgRequest, NEW h \in Handled, h.stage # "put team", Fits(h)',
         handling' = [handling EXCEPT ![r] = h], made' \in Nat,
         UNCHANGED <<teams, memberships>>, crowded' <=> crowded,
         conferred \subseteq conferred', conferred' \subseteq InviteRow,
         invites' \subseteq conferred', \A i \in conferred' : i.org \in teams,
         unfinished \subseteq unfinished', Excused(r)
  PROVE  OrgsInv'
  <1> USE DEF OrgsInv
  <1>1. /\ HandledInv'
        /\ handling'[r] = h /\ \A s \in OrgRequest \ {r} : handling'[s] = handling[s]
    <2>1. LocalTeam \notin teams' => teams' = {}
      BY DEF HandledInv
    <2>2. QED
      BY <2>1, OneRequestMoves
  <1>2. OwnersInv'
    <2>1. \A o : OwnerOf(o) # {} => (OwnerOf(o) # {})'
      BY DEF OwnerOf
    <2>2. \A o : OwesOwner(r, o) => (o \in unfinished' \/ (OwnerOf(o) # {})')
      BY DEF Excused
    <2>3. teams' \ teams = {}
      OBVIOUS
    <2>4. QED
      BY <1>1, <2>1, <2>2, <2>3, OwnersAreThere
  <1>3. MembersInv'
    BY DEF MembersInv
  <1>4. LimitInv'
    <2>1. r \notin Putting'
      BY <1>1 DEF Putting, At
    <2>2. QED
      BY <1>1, <2>1, LimitStays
  <1>5. QED
    BY <1>1, <1>2, <1>3, <1>4

(* A step that puts a membership of a team that is there.                  *)
LEMMA MembershipIsPut ==
  ASSUME OrgsInv, NEW r \in OrgRequest, NEW h \in Handled, h.stage # "put team", Fits(h)',
         handling' = [handling EXCEPT ![r] = h], made' \in Nat,
         NEW org \in teams, NEW subject, NEW role, PutMembership(org, subject, role),
         \/ subject = LocalSubject /\ role = "owner"
         \/ \E i \in conferred : i.org = org /\ i.email = subject /\ i.role = role,
         UNCHANGED <<teams, invites, conferred, unfinished>>, crowded' <=> crowded,
         \A o : OwesOwner(r, o) => o = org /\ subject = LocalSubject
  PROVE  OrgsInv'
  <1> USE DEF OrgsInv
  <1>1. /\ HandledInv'
        /\ handling'[r] = h /\ \A s \in OrgRequest \ {r} : handling'[s] = handling[s]
    <2>1. /\ LocalTeam \notin teams' => teams' = {}
          /\ conferred' \subseteq InviteRow /\ invites' \subseteq conferred'
          /\ \A i \in conferred' : i.org \in teams'
      BY DEF HandledInv
    <2>2. QED
      BY <2>1, OneRequestMoves
  <1>2. OwnersInv'
    <2>1. /\ \A o : OwnerOf(o) # {} => (OwnerOf(o) # {})'
          /\ subject = LocalSubject => (OwnerOf(org) # {})'
      BY OwnersStay
    <2>2. \A o : OwesOwner(r, o) => (o \in unfinished' \/ (OwnerOf(o) # {})')
      BY <2>1
    <2>3. teams' \ teams = {} /\ unfinished \subseteq unfinished'
      OBVIOUS
    <2>4. QED
      BY <1>1, <2>1, <2>2, <2>3, OwnersAreThere
  <1>3. MembersInv'
    <2> DEFINE new == [org |-> org, subject |-> subject, role |-> role]
    <2>1. memberships' \subseteq memberships \cup {new}
      BY DEF PutMembership
    <2>2. new.org = org /\ new.subject = subject /\ new.role = role
      OBVIOUS
    <2> HIDE DEF new
    <2>3. QED
      BY <2>1, <2>2 DEF MembersInv
  <1>4. LimitInv'
    <2>1. r \notin Putting'
      BY <1>1 DEF Putting, At
    <2>2. QED
      BY <1>1, <2>1, LimitStays
  <1>5. QED
    BY <1>1, <1>2, <1>3, <1>4

(* A step that puts a team and goes on to its owner.                       *)
LEMMA TeamIsPut ==
  ASSUME OrgsInv, NEW r \in OrgRequest, NEW h \in Handled, h.stage # "put team", Fits(h)',
         handling' = [handling EXCEPT ![r] = h], made' \in Nat,
         NEW org \in Team, teams' = teams \cup {org},
         UNCHANGED <<memberships, invites, conferred, unfinished>>, crowded' <=> crowded,
         BetweenPuts(org)',
         handling[r].stage \notin {"put owner", "put local owner"},
         \/ r \in Putting /\ LocalTeam \in teams
         \/ org = LocalTeam
  PROVE  OrgsInv'
  <1> USE DEF OrgsInv
  <1>1. /\ HandledInv'
        /\ handling'[r] = h /\ \A s \in OrgRequest \ {r} : handling'[s] = handling[s]
    <2>1. /\ LocalTeam \notin teams' => teams' = {}
          /\ conferred' \subseteq InviteRow /\ invites' \subseteq conferred'
          /\ \A i \in conferred' : i.org \in teams'
      BY DEF HandledInv
    <2>2. QED
      BY <2>1, OneRequestMoves
  <1>2. OwnersInv'
    <2>1. \A o : OwnerOf(o) # {} => (OwnerOf(o) # {})'
      BY DEF OwnerOf
    <2>2. \A o : OwesOwner(r, o) => (o \in unfinished' \/ (OwnerOf(o) # {})')
      BY DEF OwesOwner, At
    <2>3. \A o \in teams' \ teams : BetweenPuts(o)'
      OBVIOUS
    <2>4. unfinished \subseteq unfinished'
      OBVIOUS
    <2>5. QED
      BY <1>1, <2>1, <2>2, <2>3, <2>4, OwnersAreThere
  <1>3. MembersInv'
    BY DEF MembersInv
  <1>4. LimitInv'
    <2>1. r \notin Putting'
      BY <1>1 DEF Putting, At
    <2>2. CASE r \in Putting
      BY <1>1, <2>1, <2>2, LimitIsFilled
    <2>3. CASE org \in teams
      <3>1. teams' = teams
        BY <2>3
      <3>2. QED
        BY <1>1, <2>1, <3>1, LimitStays
    <2>4. CASE LocalTeam \notin teams /\ org = LocalTeam
      <3>1. teams' = {LocalTeam}
        BY <2>4 DEF HandledInv
      <3>2. Putting = {}
        BY <2>4 DEF HandledInv, Fits, Putting, At
      <3>3. Putting' = {}
        BY <1>1, <2>1, <3>2 DEF Putting, At
      <3>4. QED
        BY <3>1, <3>3, LimitBegins
    <2>5. QED
      BY <2>2, <2>3, <2>4
  <1>5. QED
    BY <1>1, <1>2, <1>3, <1>4

Staged(r, stage) == [handling[r] EXCEPT !.stage = stage]

(* A request that goes to another stage, or is answered, keeps what it is. *)
LEMMA StagesMove ==
  ASSUME HandledInv, NEW r \in OrgRequest
  PROVE  /\ handling[r] \in Handled /\ handling[r].row \in InviteRow
         /\ handling[r].row.org \in Team
         /\ Served \in Handled /\ Served.stage = "idle"
         /\ \A stage \in {"look up", "put local", "put local owner", "count", "put team",
                          "put owner", "put invite", "put member", "delete invite"} :
               /\ Staged(r, stage) \in Handled
               /\ Staged(r, stage).stage = stage
               /\ Staged(r, stage).row = handling[r].row
               /\ Staged(r, stage).op = handling[r].op
               /\ GoesTo(r, stage) =>
                    handling' = [handling EXCEPT ![r] = Staged(r, stage)]
  <1>1. handling[r] \in Handled
    BY DEF HandledInv
  <1>2. Served \in Handled /\ Served.stage = "idle"
    BY OrgsAssumption DEF Served, NoRow, Handled, InviteRow
  <1>3. handling[r].row \in InviteRow /\ handling[r].row.org \in Team
    BY <1>1 DEF Handled, InviteRow
  <1>4. ASSUME NEW stage \in {"look up", "put local", "put local owner", "count", "put team",
                              "put owner", "put invite", "put member", "delete invite"}
        PROVE  /\ Staged(r, stage) \in Handled
               /\ Staged(r, stage).stage = stage
               /\ Staged(r, stage).row = handling[r].row
               /\ Staged(r, stage).op = handling[r].op
    BY <1>1 DEF Handled, Staged
  <1>5. ASSUME NEW stage, GoesTo(r, stage)
        PROVE  handling' = [handling EXCEPT ![r] = Staged(r, stage)]
    BY <1>5 DEF GoesTo, Staged
  <1>6. QED
    BY <1>1, <1>2, <1>3, <1>4, <1>5

(* A step that only goes on, or ends the request, whatever it has read.    *)
LEMMA NothingIsPut ==
  ASSUME OrgsInv, NEW r \in OrgRequest, NEW h \in Handled, h.stage # "put team", Fits(h),
         handling' = [handling EXCEPT ![r] = h],
         UNCHANGED <<teams, memberships, invites, made, conferred>>, crowded' <=> crowded,
         unfinished \subseteq unfinished', Excused(r)
  PROVE  OrgsInv'
  <1>1. Fits(h)'
    BY DEF Fits
  <1>2. /\ conferred \subseteq conferred' /\ conferred' \subseteq InviteRow
        /\ invites' \subseteq conferred' /\ (\A i \in conferred' : i.org \in teams)
        /\ made' \in Nat
    BY DEF OrgsInv, HandledInv
  <1>3. QED
    BY <1>1, <1>2, InvitesOnly

(* The limit of owned teams is overshot only by requests that count at     *)
(* the same time, every team has its owner unless the request that made it *)
(* was cut, and members have the role of their invite.                     *)
THEOREM TeamsStand == OrgsSpec => []TeamsAreKept
  <1>1. ASSUME OrgsInit PROVE OrgsInv
    <2>1. /\ teams = {} /\ memberships = {} /\ invites = {} /\ conferred = {} /\ made = 0
          /\ handling = [r \in OrgRequest |-> Served]
      BY <1>1 DEF OrgsInit
    <2>2. Served \in Handled /\ Served.stage = "idle" /\ Served.op = "none"
      BY OrgsAssumption DEF Served, NoRow, Handled, InviteRow
    <2>3. HandledInv
      BY <2>1, <2>2 DEF HandledInv, Fits
    <2>4. OwnersInv /\ MembersInv
      BY <2>1 DEF OwnersInv, MembersInv
    <2>5. Putting = {}
      BY <2>1, <2>2 DEF Putting, At
    <2>6. IsFiniteSet({}) /\ Cardinality({}) = 0 /\ Cardinality(OrgRequest) \in Nat
      BY OrgsAssumption, FS_EmptySet, FS_CardinalityType
    <2>7. 0 + 0 <= MaxOwnedOrgs + Cardinality(OrgRequest) - 1 /\ 0 + 0 <= MaxOwnedOrgs
      BY <2>6, OrgsAssumption
    <2>8. LimitInv
      BY <2>1, <2>5, <2>6, <2>7, Zenon DEF LimitInv
    <2>9. QED
      BY <2>3, <2>4, <2>8 DEF OrgsInv
  <1>2. ASSUME OrgsInv, [OrgsNext]_orgVars PROVE OrgsInv'
    <2> USE <1>2
    <2>0. HandledInv
      BY DEF OrgsInv
    (* Requests that come, go on or are answered. *)
    <2>1. ASSUME NEW r \in OrgRequest, OrgRequestComes(r) PROVE OrgsInv'
      <3>0. PICK op \in {"create", "invite", "join", "list"}, org \in Team, email \in Person,
                 role \in Role, key \in 0..made :
              /\ op # "invite" => email = LocalSubject /\ role = "owner"
              /\ op \in {"join", "list"} => org = LocalTeam
              /\ op = "join" <=> key # 0
              /\ handling' = [handling EXCEPT ![r] =
                    [op |-> op, stage |-> "local",
                     row |-> [code |-> IF op = "invite" THEN made + 1 ELSE key,
                              org |-> org, email |-> email, role |-> role]]]
        BY <2>1, Zenon DEF OrgRequestComes
      <3>2. made \in Nat
        BY <2>0 DEF HandledInv
      <3>3. PICK row \in InviteRow :
              row = [code |-> IF op = "invite" THEN made + 1 ELSE key,
                     org |-> org, email |-> email, role |-> role]
        <4>1. PICK number : number = IF op = "invite" THEN made + 1 ELSE key
          OBVIOUS
        <4>2. number \in Nat
          BY <3>2, <4>1
        <4>3. [code |-> number, org |-> org, email |-> email, role |-> role] \in InviteRow
          BY <4>2 DEF InviteRow
        <4>4. QED
          BY <4>1, <4>3
      <3>4. PICK h \in Handled :
              h.stage = "local" /\ handling' = [handling EXCEPT ![r] = h]
        BY <3>0, <3>3 DEF Handled
      <3>5. /\ handling[r] = Served /\ made' = made + 1
            /\ UNCHANGED <<teams, memberships, invites, conferred, unfinished>>
            /\ crowded' <=> crowded
        BY <2>1 DEF OrgRequestComes
      <3>6. Excused(r)
        BY <3>5 DEF Excused, OwesOwner, At, Served
      <3>7. Fits(h)'
        BY <3>4 DEF Fits
      <3>8. /\ conferred \subseteq conferred' /\ conferred' \subseteq InviteRow
            /\ invites' \subseteq conferred' /\ (\A i \in conferred' : i.org \in teams)
            /\ made' \in Nat
        BY <2>0, <3>2, <3>5 DEF HandledInv
      <3>9. unfinished \subseteq unfinished' /\ h.stage # "put team"
        BY <3>4, <3>5
      <3>10. QED
        BY <3>4, <3>5, <3>6, <3>7, <3>8, <3>9, InvitesOnly
    <2>2. ASSUME NEW r \in OrgRequest, Answers(r),
                 \A o : ~OwesOwner(r, o),
                 UNCHANGED <<teams, memberships, invites, made, conferred, unfinished>>,
                 crowded' <=> crowded
          PROVE  OrgsInv'
      <3>1. handling' = [handling EXCEPT ![r] = Served]
        BY <2>2 DEF Answers
      <3>2. Served \in Handled /\ Served.stage = "idle"
        BY <2>0, StagesMove
      <3>3. Fits(Served) /\ Excused(r)
        BY <2>2, <3>2 DEF Fits, Excused
      <3>4. QED
        BY <2>2, <3>1, <3>2, <3>3, NothingIsPut
    <2>3. ASSUME NEW r \in OrgRequest,
                 NEW stage \in {"look up", "put local", "count", "put invite"},
                 GoesTo(r, stage), \A o : ~OwesOwner(r, o),
                 LocalTeam \in teams \/ stage = "put local",
                 stage = "put invite" => handling[r].row.org \in teams,
                 UNCHANGED <<teams, memberships, invites, made, conferred, unfinished>>,
                 crowded' <=> crowded
          PROVE  OrgsInv'
      <3>1. /\ Staged(r, stage) \in Handled /\ Staged(r, stage).stage = stage
            /\ Staged(r, stage).row = handling[r].row
            /\ handling' = [handling EXCEPT ![r] = Staged(r, stage)]
        <4>1. stage \in {"look up", "put local", "put local owner", "count", "put team",
                         "put owner", "put invite", "put member", "delete invite"}
          BY <2>3
        <4>2. QED
          BY <2>0, <2>3, <4>1, StagesMove, Zenon
      <3>2. Fits(Staged(r, stage)) /\ Excused(r)
        BY <2>3, <3>1 DEF Fits, Excused
      <3>3. QED
        BY <2>3, <3>1, <3>2, NothingIsPut
    <2>4. ASSUME NEW r \in OrgRequest, EnsureLocal(r) PROVE OrgsInv'
      <3>1. \A o : ~OwesOwner(r, o)
        BY <2>4 DEF EnsureLocal, OwesOwner, At
      <3>2. /\ UNCHANGED <<teams, memberships, invites, made, conferred, unfinished>>
            /\ crowded' <=> crowded
            /\ \/ Answers(r)
               \/ LocalTeam \in teams /\ GoesTo(r, "look up")
               \/ GoesTo(r, "put local")
        BY <2>4 DEF EnsureLocal
      <3>3. QED
        BY <2>2, <2>3, <3>1, <3>2
    <2>5. ASSUME NEW r \in OrgRequest, LookUpSlug(r) \/ LookUpTeam(r) PROVE OrgsInv'
      <3>1. handling[r].stage = "look up"
        BY <2>5 DEF LookUpSlug, LookUpTeam, At
      <3>2. LocalTeam \in teams /\ \A o : ~OwesOwner(r, o)
        BY <2>0, <3>1 DEF HandledInv, Fits, OwesOwner, At
      <3>3. /\ UNCHANGED <<teams, memberships, invites, made, conferred, unfinished>>
            /\ crowded' <=> crowded
            /\ \/ Answers(r)
               \/ GoesTo(r, "count")
               \/ handling[r].row.org \in teams /\ GoesTo(r, "put invite")
        <4>1. CASE LookUpSlug(r)
          BY <4>1 DEF LookUpSlug
        <4>2. CASE LookUpTeam(r)
          BY <4>2 DEF LookUpTeam
        <4>3. QED
          BY <2>5, <4>1, <4>2
      <3>4. QED
        BY <2>2, <2>3, <3>2, <3>3
    <2>6. ASSUME NEW r \in OrgRequest, LookUpInvite(r) PROVE OrgsInv'
      <3>1. handling[r].stage = "look up"
        BY <2>6 DEF LookUpInvite, At
      <3>2. LocalTeam \in teams /\ \A o : ~OwesOwner(r, o)
        BY <2>0, <3>1 DEF HandledInv, Fits, OwesOwner, At
      <3>3. /\ UNCHANGED <<teams, memberships, invites, made, conferred, unfinished>>
            /\ crowded' <=> crowded
        BY <2>6 DEF LookUpInvite
      <3>4. CASE Answers(r)
        BY <2>2, <3>2, <3>3, <3>4
      <3>5. CASE ~Answers(r)
        <4>1. PICK i \in invites : handling' =
                [handling EXCEPT ![r] = [handling[r] EXCEPT !.stage = "put member", !.row = i]]
          BY <2>6, <3>5 DEF LookUpInvite
        <4> DEFINE h == [handling[r] EXCEPT !.stage = "put member", !.row = i]
        <4>2. i \in conferred /\ i \in InviteRow /\ handling[r] \in Handled
          BY <2>0 DEF HandledInv
        <4>3. h \in Handled /\ h.stage = "put member" /\ h.row = i
          BY <4>2 DEF Handled
        <4> HIDE DEF h
        <4>4. Fits(h) /\ Excused(r)
          BY <3>2, <4>2, <4>3 DEF Fits, Excused
        <4>5. handling' = [handling EXCEPT ![r] = h]
          BY <4>1 DEF h
        <4>6. QED
          BY <3>3, <4>3, <4>4, <4>5, NothingIsPut
      <3>6. QED
        BY <3>4, <3>5
    (* A request counts, and takes a place if there is one. *)
    <2>7. ASSUME NEW r \in OrgRequest, CountOwned(r) PROVE OrgsInv'
      <3>1. At(r, "create", "count")
            /\ UNCHANGED <<teams, memberships, invites, made, conferred, unfinished>>
        BY <2>7 DEF CountOwned
      <3>2. LocalTeam \in teams /\ \A o : ~OwesOwner(r, o)
        BY <2>0, <3>1 DEF HandledInv, Fits, OwesOwner, At
      <3>3. CASE Cardinality(teams) >= MaxOwnedOrgs
        <4>1. Answers(r) /\ (crowded' <=> crowded)
          BY <2>7, <3>3 DEF CountOwned
        <4>2. QED
          BY <2>2, <3>1, <3>2, <4>1
      <3>4. CASE ~(Cardinality(teams) >= MaxOwnedOrgs)
        <4>1. /\ GoesTo(r, "put team")
              /\ crowded' <=> (crowded \/ \E s \in OrgRequest : At(s, "create", "put team"))
          BY <2>7, <3>4 DEF CountOwned
        <4>2. PICK h \in Handled :
                /\ h.stage = "put team" /\ h.op = "create"
                /\ handling' = [handling EXCEPT ![r] = h]
          <5>1. /\ Staged(r, "put team") \in Handled
                /\ Staged(r, "put team").stage = "put team"
                /\ Staged(r, "put team").op = handling[r].op
                /\ handling' = [handling EXCEPT ![r] = Staged(r, "put team")]
            BY <2>0, <4>1, StagesMove
          <5>2. handling[r].op = "create"
            BY <3>1 DEF At
          <5>3. QED
            BY <5>1, <5>2
        <4>3. Fits(h)'
          BY <3>1, <3>2, <4>2 DEF Fits
        <4>4. /\ teams \subseteq teams' /\ (LocalTeam \notin teams' => teams' = {})
              /\ conferred \subseteq conferred' /\ conferred' \subseteq InviteRow
              /\ invites' \subseteq conferred' /\ (\A i \in conferred' : i.org \in teams')
              /\ made' \in Nat
          BY <2>0, <3>1 DEF HandledInv
        <4>5. /\ HandledInv'
              /\ handling'[r] = h /\ \A s \in OrgRequest \ {r} : handling'[s] = handling[s]
          BY <2>0, <4>2, <4>3, <4>4, OneRequestMoves
        <4>6. OwnersInv'
          <5>1. /\ \A o : OwnerOf(o) # {} => (OwnerOf(o) # {})'
                /\ teams' \ teams = {} /\ unfinished \subseteq unfinished'
            BY <3>1 DEF OwnerOf
          <5>2. QED
            BY <3>2, <4>5, <5>1, OwnersAreThere DEF OrgsInv
        <4>7. MembersInv'
          BY <3>1 DEF OrgsInv, MembersInv
        <4>8. LimitInv'
          <5>1. r \in Putting'
            BY <4>2, <4>5 DEF Putting, At
          <5>2. ~crowded' => Putting = {}
            BY <4>1 DEF Putting
          <5>3. LimitInv /\ Cardinality(teams) \in Nat
            BY FS_CardinalityType DEF OrgsInv, LimitInv
          <5>4. Cardinality(teams) < MaxOwnedOrgs
            BY <3>4, <5>3, OrgsAssumption
          <5>5. QED
            BY <3>1, <4>5, <5>1, <5>2, <5>3, <5>4, PlaceIsTaken
        <4>9. QED
          BY <4>5, <4>6, <4>7, <4>8 DEF OrgsInv
      <3>5. QED
        BY <3>3, <3>4
    <2>8. ASSUME NEW r \in OrgRequest, PutLocal(r) PROVE OrgsInv'
      <3>1. /\ handling[r].stage = "put local" /\ teams' = teams \cup {LocalTeam}
            /\ GoesTo(r, "put local owner")
            /\ UNCHANGED <<memberships, invites, made, conferred, unfinished>>
            /\ crowded' <=> crowded
        BY <2>8 DEF PutLocal
      <3>2. PICK h \in Handled :
            /\ h.stage = "put local owner"
            /\ handling' = [handling EXCEPT ![r] = h]
        BY <2>0, <3>1, StagesMove
      <3>3. Fits(h)'
        BY <3>1, <3>2 DEF Fits
      <3>4. handling'[r] = h
        BY <2>0, <3>2 DEF HandledInv
      <3>5. BetweenPuts(LocalTeam)'
        BY <3>2, <3>4 DEF BetweenPuts
      <3>6. made' \in Nat
        BY <2>0, <3>1 DEF HandledInv
      <3>7. QED
        BY <3>1, <3>2, <3>3, <3>5, <3>6, OrgsAssumption, TeamIsPut
    <2>9. ASSUME NEW r \in OrgRequest, PutTeam(r) PROVE OrgsInv'
      <3> DEFINE org == handling[r].row.org
      <3>1. /\ At(r, "create", "put team") /\ teams' = teams \cup {org}
            /\ GoesTo(r, "put owner")
            /\ UNCHANGED <<memberships, invites, made, conferred, unfinished>>
            /\ crowded' <=> crowded
        BY <2>9 DEF PutTeam
      <3>2. PICK h \in Handled, team \in Team :
               /\ h.stage = "put owner" /\ h.op = "create" /\ h.row.org = team /\ team = org
               /\ handling' = [handling EXCEPT ![r] = h]
        <4>1. /\ Staged(r, "put owner") \in Handled /\ org \in Team
              /\ Staged(r, "put owner").stage = "put owner"
              /\ Staged(r, "put owner").op = handling[r].op
              /\ Staged(r, "put owner").row = handling[r].row
              /\ handling' = [handling EXCEPT ![r] = Staged(r, "put owner")]
          BY <2>0, <3>1, StagesMove
        <4>2. handling[r].op = "create"
          BY <3>1 DEF At
        <4>3. QED
          BY <4>1, <4>2
      <3>3. LocalTeam \in teams /\ r \in Putting
        BY <2>0, <3>1 DEF HandledInv, Fits, At, Putting
      <3>4. team \in teams' /\ teams' = teams \cup {team}
        BY <3>1, <3>2
      <3>5. Fits(h)'
        BY <3>1, <3>2, <3>3, <3>4 DEF Fits
      <3>6. handling'[r] = h
        BY <2>0, <3>2 DEF HandledInv
      <3>7. BetweenPuts(team)'
        BY <3>2, <3>4, <3>6 DEF BetweenPuts, At
      <3>8. made' \in Nat
        BY <2>0, <3>1 DEF HandledInv
      <3>9. handling[r].stage \notin {"put owner", "put local owner"}
        BY <3>1 DEF At
      <3>10. QED
        BY <3>1, <3>2, <3>3, <3>4, <3>5, <3>7, <3>8, <3>9, TeamIsPut
    (* Memberships are put. *)
    <2>10. ASSUME NEW r \in OrgRequest, PutLocalOwner(r) PROVE OrgsInv'
      <3>1. /\ handling[r].stage = "put local owner"
            /\ PutMembership(LocalTeam, LocalSubject, "owner")
            /\ UNCHANGED <<teams, invites, made, conferred, unfinished>>
            /\ crowded' <=> crowded
        BY <2>10 DEF PutLocalOwner
      <3>2. LocalTeam \in teams
        BY <2>0, <3>1 DEF HandledInv, Fits
      <3>3. PICK h \in Handled : /\ h.stage \in {"idle", "look up"}
                                /\ handling' = [handling EXCEPT ![r] = h]
        <4>1. CASE Answers(r)
          BY <2>0, <4>1, StagesMove DEF Answers
        <4>2. CASE GoesTo(r, "look up")
          BY <2>0, <4>2, StagesMove
        <4>3. QED
          BY <2>10, <4>1, <4>2 DEF PutLocalOwner
      <3>4. Fits(h)' /\ h.stage # "put team"
        BY <3>1, <3>2, <3>3 DEF Fits
      <3>5. made' \in Nat
        BY <2>0, <3>1 DEF HandledInv
      <3>6. \A o : OwesOwner(r, o) => o = LocalTeam /\ LocalSubject = LocalSubject
        BY <3>1 DEF OwesOwner, At
      <3>7. QED
        BY <3>1, <3>2, <3>3, <3>4, <3>5, <3>6, MembershipIsPut
    <2>11. ASSUME NEW r \in OrgRequest, PutOwner(r) PROVE OrgsInv'
      <3>1. PICK org : org = handling[r].row.org
        OBVIOUS
      <3>2. /\ At(r, "create", "put owner") /\ PutMembership(org, LocalSubject, "owner")
            /\ Answers(r) /\ UNCHANGED <<teams, invites, made, conferred, unfinished>>
            /\ crowded' <=> crowded
        BY <2>11, <3>1 DEF PutOwner
      <3>3. /\ Served \in Handled /\ Served.stage = "idle"
            /\ handling' = [handling EXCEPT ![r] = Served]
        BY <2>0, <3>2, StagesMove DEF Answers
      <3>4. org \in teams
        BY <2>0, <3>1, <3>2 DEF HandledInv, Fits, At
      <3>5. Fits(Served)' /\ Served.stage # "put team"
        BY <3>3 DEF Fits
      <3>6. made' \in Nat
        BY <2>0, <3>2 DEF HandledInv
      <3>7. \A o : OwesOwner(r, o) => o = org /\ LocalSubject = LocalSubject
        BY <3>1, <3>2 DEF OwesOwner, At
      <3>8. QED
        BY <3>2, <3>3, <3>4, <3>5, <3>6, <3>7, MembershipIsPut
    <2>12. ASSUME NEW r \in OrgRequest, PutMember(r) PROVE OrgsInv'
      <3>1. PICK row : row = handling[r].row
        OBVIOUS
      <3>2. /\ At(r, "join", "put member") /\ PutMembership(row.org, row.email, row.role)
            /\ GoesTo(r, "delete invite")
            /\ UNCHANGED <<teams, invites, made, conferred, unfinished>>
            /\ crowded' <=> crowded
        BY <2>12, <3>1 DEF PutMember
      <3>3. PICK h \in Handled : /\ h.stage = "delete invite"
                                /\ handling' = [handling EXCEPT ![r] = h]
        BY <2>0, <3>2, StagesMove
      <3>4. row \in conferred /\ row.org \in teams /\ LocalTeam \in teams
        BY <2>0, <3>1, <3>2 DEF HandledInv, Fits, At
      <3>5. Fits(h)' /\ h.stage # "put team"
        BY <3>2, <3>3, <3>4 DEF Fits
      <3>6. made' \in Nat
        BY <2>0, <3>2 DEF HandledInv
      <3>7. \A o : ~OwesOwner(r, o)
        BY <3>2 DEF OwesOwner, At
      <3>8. QED
        BY <3>2, <3>3, <3>4, <3>5, <3>6, <3>7, MembershipIsPut
    (* Invites are put and deleted. *)
    <2>13. ASSUME NEW r \in OrgRequest, PutInvite(r) \/ DeleteInvite(r) PROVE OrgsInv'
      <3>1. PICK row : row = handling[r].row
        OBVIOUS
      <3>2. /\ At(r, "invite", "put invite") \/ At(r, "join", "delete invite")
            /\ Answers(r) /\ UNCHANGED <<teams, memberships, made, unfinished>>
            /\ crowded' <=> crowded
            /\ \/ invites' \subseteq invites /\ conferred' = conferred
               \/ /\ At(r, "invite", "put invite") /\ conferred' = conferred \cup {row}
                  /\ invites' \subseteq invites \cup {row}
        <4>1. CASE PutInvite(r)
          BY <3>1, <4>1 DEF PutInvite
        <4>2. CASE DeleteInvite(r)
          BY <4>2 DEF DeleteInvite
        <4>3. QED
          BY <2>13, <4>1, <4>2
      <3>3. /\ Served \in Handled /\ Served.stage = "idle" /\ row \in InviteRow
            /\ handling' = [handling EXCEPT ![r] = Served]
        BY <2>0, <3>1, <3>2, StagesMove DEF Answers
      <3>4. At(r, "invite", "put invite") => row.org \in teams
        BY <2>0, <3>1 DEF HandledInv, Fits, At
      <3>5. Fits(Served)' /\ Served.stage # "put team"
        BY <3>3 DEF Fits
      <3>6. /\ conferred \subseteq conferred' /\ conferred' \subseteq InviteRow
            /\ invites' \subseteq conferred' /\ (\A i \in conferred' : i.org \in teams)
            /\ made' \in Nat
        BY <2>0, <3>2, <3>3, <3>4 DEF HandledInv
      <3>7. Excused(r)
        BY <3>2 DEF Excused, OwesOwner, At
      <3>8. unfinished \subseteq unfinished'
        BY <3>2
      <3>9. QED
        BY <3>2, <3>3, <3>5, <3>6, <3>7, <3>8, InvitesOnly
    (* A request is cut. *)
    <2>14. ASSUME NEW r \in OrgRequest, OrgRequestFails(r) PROVE OrgsInv'
      <3>1. /\ Answers(r) /\ UNCHANGED <<teams, memberships, invites, made, conferred>>
            /\ crowded' <=> crowded
        BY <2>14 DEF OrgRequestFails
      <3>2. unfinished' = CASE handling[r].stage = "put local owner" -> unfinished \cup {LocalTeam}
              [] handling[r].stage = "put owner" -> unfinished \cup {handling[r].row.org}
              [] OTHER -> unfinished
        BY <2>14 DEF OrgRequestFails
      <3>3. unfinished \subseteq unfinished'
        BY <3>2
      <3>4. Excused(r)
        BY <3>2 DEF Excused, OwesOwner, At
      <3>5. /\ Served \in Handled /\ Served.stage = "idle"
            /\ handling' = [handling EXCEPT ![r] = Served]
        BY <2>0, <3>1, StagesMove DEF Answers
      <3>6. Fits(Served) /\ Served.stage # "put team"
        BY <3>5 DEF Fits
      <3>7. QED
        BY <3>1, <3>3, <3>4, <3>5, <3>6, NothingIsPut
    <2>15. CASE UNCHANGED orgVars
      <3>1. /\ UNCHANGED <<teams, memberships, invites, handling, made, unfinished, conferred>>
            /\ crowded' <=> crowded
        BY <2>15 DEF orgVars
      <3>2. HandledInv' /\ MembersInv'
        BY <3>1 DEF OrgsInv, HandledInv, Fits, MembersInv
      <3>3. OwnersInv'
        BY <3>1 DEF OrgsInv, OwnersInv, OwnerOf, BetweenPuts, At
      <3>4. Putting' = Putting
        BY <3>1 DEF Putting, At
      <3>5. LimitInv'
        BY <3>1, <3>4 DEF OrgsInv, LimitInv
      <3>6. QED
        BY <3>2, <3>3, <3>5 DEF OrgsInv
    <2>16. QED
      BY <2>1, <2>4, <2>5, <2>6, <2>7, <2>8, <2>9, <2>10, <2>11, <2>12, <2>13, <2>14, <2>15
         DEF OrgsNext
  <1>3. ASSUME OrgsInv PROVE TeamsAreKept
    <2>1. Cardinality(teams) \in Nat /\ Cardinality(Putting) \in Nat
          /\ Cardinality(OrgRequest) \in Nat
      <3>1. Putting \subseteq OrgRequest /\ IsFiniteSet(teams)
        BY <1>3 DEF Putting, OrgsInv, LimitInv
      <3>2. QED
        BY <3>1, OrgsAssumption, FS_Subset, FS_CardinalityType
    <2>2. /\ Cardinality(teams) + Cardinality(Putting)
               <= MaxOwnedOrgs + Cardinality(OrgRequest) - 1
          /\ ~crowded => Cardinality(teams) + Cardinality(Putting) <= MaxOwnedOrgs
      BY <1>3 DEF OrgsInv, LimitInv
    <2>3. TeamsKeepTheirLimit
      BY <2>1, <2>2, OrgsAssumption DEF TeamsKeepTheirLimit
    <2>4. QED
      BY <1>3, <2>3 DEF TeamsAreKept, OrgsInv, OwnersInv, MembersInv
  <1>4. QED
    BY <1>1, <1>2, <1>3, PTL DEF OrgsSpec

-----------------------------------------------------------------------------
(* Device login *)

GrantRow == [ms : 0..MaxMs, expires : Nat, approved : BOOLEAN]
OneOfEach(table) == \A g, h \in table : g.ms = h.ms => g = h

(* A set of natural numbers has a least one.                               *)
LEMMA LeastNumber ==
  ASSUME NEW S \in SUBSET Nat, S # {}
  PROVE  \E n \in S : \A m \in S : n <= m
  <1>1. \E n \in S : \A m \in S : ~(<<m, n>> \in OpToRel(<, Nat))
    BY NatLessThanWellFounded, WFMin
  <1>2. PICK n \in S : \A m \in S : ~(<<m, n>> \in OpToRel(<, Nat))
    BY <1>1
  <1>3. ASSUME NEW m \in S, m < n PROVE FALSE
    <2>1. <<m, n>> \in Nat \X Nat /\ <<m, n>>[1] < <<m, n>>[2]
      BY <1>3
    <2>2. <<m, n>> \in OpToRel(<, Nat)
      BY <2>1 DEF OpToRel
    <2>3. QED
      BY <1>2, <2>2
  <1>4. QED
    BY <1>3

(* Of a finite table with one grant of a code, at most k grants have fewer *)
(* than k newer ones.                                                      *)
LEMMA NewestAreFew ==
  ASSUME NEW table, IsFiniteSet(table), table \subseteq GrantRow, OneOfEach(table), NEW k \in Nat
  PROVE  LET newest == {g \in table : Newer(g, table) < k}
         IN  IsFiniteSet(newest) /\ Cardinality(newest) <= k
  <1> DEFINE newest == {g \in table : Newer(g, table) < k}
  <1>1. IsFiniteSet(newest) /\ Cardinality(newest) \in Nat
    BY FS_Subset, FS_CardinalityType
  <1>2. CASE newest = {}
    BY <1>2, FS_EmptySet
  <1>3. CASE newest # {}
    <2> DEFINE times == {g.ms : g \in newest}
    <2>1. times \in SUBSET Nat /\ times # {}
      BY <1>3 DEF GrantRow
    <2>2. PICK n \in times : \A m \in times : n <= m
      BY <2>1, LeastNumber
    <2>3. PICK g \in newest : g.ms = n
      BY <2>2
    <2>4. \A h \in newest \ {g} : h.ms > g.ms
      <3>1. \A h \in newest : h.ms \in times /\ h.ms \in Nat
        BY DEF GrantRow
      <3>2. \A h \in newest \ {g} : h \in table /\ g \in table /\ h.ms # g.ms
        BY <2>3 DEF OneOfEach
      <3>3. QED
        BY <2>2, <2>3, <3>1, <3>2
    <2> DEFINE newer == {h \in table : h.ms > g.ms}
    <2>5. newest \ {g} \subseteq newer /\ newer \subseteq table
      BY <2>4
    <2>6. Cardinality(newer) < k
      BY <2>3 DEF Newer
    <2> HIDE DEF newest, newer
    <2>7. IsFiniteSet(newer) /\ Cardinality(newer) \in Nat
      BY <2>5, FS_Subset, FS_CardinalityType
    <2>8. Cardinality(newest \ {g}) <= Cardinality(newer)
      BY <2>5, <2>7, FS_Subset
    <2>9. Cardinality(newest \ {g}) = Cardinality(newest) - 1
      BY <1>1, <2>3, FS_RemoveElement
    <2>10. Cardinality(newest) <= k
      BY <1>1, <2>6, <2>7, <2>8, <2>9
    <2>11. QED
      BY <1>1, <2>10 DEF newest
  <1>4. QED
    BY <1>1, <1>2, <1>3

(* Fewer rows, fewer newer ones.                                           *)
LEMMA FewerAreNewer ==
  ASSUME NEW table, IsFiniteSet(table), NEW some \in SUBSET table, NEW g
  PROVE  /\ Newer(g, some) \in Nat /\ Newer(g, table) \in Nat
         /\ Newer(g, some) <= Newer(g, table)
  <1> DEFINE inSome == {h \in some : h.ms > g.ms}
             inRows == {h \in table : h.ms > g.ms}
  <1>1. inSome \subseteq inRows /\ inRows \subseteq table
    OBVIOUS
  <1>2. Newer(g, some) = Cardinality(inSome) /\ Newer(g, table) = Cardinality(inRows)
    BY DEF Newer
  <1> HIDE DEF inSome, inRows
  <1>3. QED
    BY <1>1, <1>2, FS_Subset, FS_CardinalityType

(* Pruning keeps a table of grants, of the bound's size.                   *)
LEMMA PruneKeepsGrants ==
  ASSUME IsFiniteSet(grants), grants \subseteq GrantRow, OneOfEach(grants), ms \in Nat
  PROVE  /\ Prune \subseteq grants /\ IsFiniteSet(Prune) /\ Cardinality(Prune) <= MaxGrants
         /\ \A g \in grants : g.expires > ms /\ Newer(g, grants) < MaxGrants => g \in Prune
  <1> DEFINE live == {g \in grants : g.expires > ms}
  <1>1. live \subseteq grants /\ IsFiniteSet(live) /\ OneOfEach(live)
    BY FS_Subset DEF OneOfEach
  <1>2. Prune = {g \in live : Newer(g, live) < MaxGrants}
    BY DEF Prune
  <1>3. \A g : /\ Newer(g, live) \in Nat /\ Newer(g, grants) \in Nat
               /\ Newer(g, live) <= Newer(g, grants)
    BY <1>1, FewerAreNewer
  <1>4. ASSUME NEW g \in grants, g.expires > ms, Newer(g, grants) < MaxGrants
        PROVE  g \in Prune
    BY <1>2, <1>3, <1>4, LoginAssumption
  <1> HIDE DEF live
  <1>5. IsFiniteSet(Prune) /\ Cardinality(Prune) <= MaxGrants
    <2>1. live \subseteq GrantRow
      BY <1>1
    <2>2. QED
      BY <1>1, <1>2, <2>1, LoginAssumption, NewestAreFew
  <1>6. QED
    BY <1>1, <1>2, <1>4, <1>5

(* A function has no more values than arguments.                           *)
LEMMA ValuesAreFew ==
  ASSUME NEW S, IsFiniteSet(S), NEW f, DOMAIN f = S, f = [x \in S |-> f[x]]
  PROVE  /\ IsFiniteSet({f[x] : x \in S})
         /\ Cardinality({f[x] : x \in S}) <= Cardinality(S)
  <1> DEFINE T == {f[x] : x \in S}
  <1>1. f \in Surjection(S, T)
    BY DEF Surjection
  <1> HIDE DEF T
  <1>2. IsFiniteSet(T) /\ Cardinality(T) <= Cardinality(S)
    BY <1>1, FS_Surjection
  <1>3. QED
    BY <1>2 DEF T

(* The table as the approval of a code leaves it.                          *)
Marked(g, d) == [g EXCEPT !.approved = @ \/ g.ms = code[d]]
Marking(d) == {Marked(g, d) : g \in grants}

(* An approval changes no grant but the one approved, and none but in      *)
(* being approved.                                                         *)
LEMMA MarkingIsApproval ==
  ASSUME NEW d, IsFiniteSet(grants), grants \subseteq GrantRow, OneOfEach(grants)
  PROVE  /\ \A g \in grants : /\ Marked(g, d) \in GrantRow
                              /\ Marked(g, d).ms = g.ms /\ Marked(g, d).expires = g.expires
                              /\ Marked(g, d).approved <=> (g.approved \/ g.ms = code[d])
         /\ Marking(d) \subseteq GrantRow /\ OneOfEach(Marking(d))
         /\ IsFiniteSet(Marking(d)) /\ Cardinality(Marking(d)) <= Cardinality(grants)
         /\ \A g \in grants : Newer(Marked(g, d), Marking(d)) <= Newer(g, grants)
  <1>1. \A g \in grants : /\ Marked(g, d) \in GrantRow
                          /\ Marked(g, d).ms = g.ms /\ Marked(g, d).expires = g.expires
                          /\ Marked(g, d).approved <=> (g.approved \/ g.ms = code[d])
    <2> SUFFICES ASSUME NEW g \in grants
                 PROVE  /\ Marked(g, d) \in GrantRow
                        /\ Marked(g, d).ms = g.ms /\ Marked(g, d).expires = g.expires
                        /\ Marked(g, d).approved <=> (g.approved \/ g.ms = code[d])
      OBVIOUS
    <2>1. PICK b \in BOOLEAN : b <=> (g.approved \/ g.ms = code[d])
      OBVIOUS
    <2>2. (g.approved \/ g.ms = code[d]) \in BOOLEAN /\ g \in GrantRow
      OBVIOUS
    <2>3. (g.approved \/ g.ms = code[d]) = b
      BY <2>1, <2>2
    <2>4. Marked(g, d) = [g EXCEPT !.approved = b]
      BY <2>3 DEF Marked
    <2>5. QED
      BY <2>1, <2>2, <2>4 DEF GrantRow
  <1>2. Marking(d) \subseteq GrantRow
    BY <1>1 DEF Marking
  <1>3. OneOfEach(Marking(d))
    <2>1. \A g, h \in grants : Marked(g, d).ms = Marked(h, d).ms => g = h
      BY <1>1 DEF OneOfEach
    <2>2. QED
      BY <2>1 DEF OneOfEach, Marking
  <1>4. ASSUME NEW some \in SUBSET grants
        PROVE  /\ IsFiniteSet({Marked(g, d) : g \in some})
               /\ Cardinality({Marked(g, d) : g \in some}) <= Cardinality(some)
    <2> PICK f : f = [g \in some |-> Marked(g, d)]
      OBVIOUS
    <2>1. IsFiniteSet(some) /\ DOMAIN f = some /\ f = [x \in some |-> f[x]]
      BY FS_Subset
    <2>2. {f[x] : x \in some} = {Marked(g, d) : g \in some}
      OBVIOUS
    <2>3. /\ IsFiniteSet({f[x] : x \in some})
          /\ Cardinality({f[x] : x \in some}) <= Cardinality(some)
      BY <2>1, ValuesAreFew
    <2>4. QED
      BY <2>2, <2>3
  <1>5. ASSUME NEW g \in grants PROVE Newer(Marked(g, d), Marking(d)) <= Newer(g, grants)
    <2> DEFINE newer == {h \in grants : h.ms > g.ms}
    <2>1. {h \in Marking(d) : h.ms > Marked(g, d).ms} = {Marked(h, d) : h \in newer}
      BY <1>1 DEF Marking
    <2>2. newer \in SUBSET grants
      OBVIOUS
    <2>3. Cardinality({Marked(h, d) : h \in newer}) <= Cardinality(newer)
      BY <1>4, <2>2
    <2>4. QED
      BY <2>1, <2>3 DEF Newer
  <1>6. IsFiniteSet(Marking(d)) /\ Cardinality(Marking(d)) <= Cardinality(grants)
    BY <1>4 DEF Marking
  <1>7. QED
    BY <1>1, <1>2, <1>3, <1>5, <1>6

(* A new grant, of the clock's millisecond, is the newest of the table,    *)
(* and every other has at most one newer grant more.                       *)
LEMMA NewestIsNew ==
  ASSUME IsFiniteSet(grants), grants \subseteq GrantRow,
         NEW kept \in SUBSET grants, NEW new, new.ms = ms,
         \A g \in grants : g.ms <= ms, ms \in Nat
  PROVE  /\ Newer(new, kept \cup {new}) = 0
         /\ \A g \in kept : Newer(g, kept \cup {new}) <= Newer(g, grants) + 1
  <1>1. Newer(new, kept \cup {new}) = 0
    <2>1. \A h \in kept \cup {new} : h.ms \in Int /\ h.ms <= new.ms
      BY DEF GrantRow
    <2>2. {h \in kept \cup {new} : h.ms > new.ms} = {}
      BY <2>1
    <2>3. QED
      BY <2>2, FS_EmptySet DEF Newer
  <1>2. ASSUME NEW g \in kept PROVE Newer(g, kept \cup {new}) <= Newer(g, grants) + 1
    <2> DEFINE few == {h \in kept : h.ms > g.ms}
               more == {h \in kept \cup {new} : h.ms > g.ms}
    <2>1. IsFiniteSet(few) /\ IsFiniteSet(few \cup {new}) /\ more \subseteq few \cup {new}
      BY FS_Subset, FS_AddElement
    <2>2. Newer(g, kept) = Cardinality(few) /\ Newer(g, kept \cup {new}) = Cardinality(more)
      BY DEF Newer
    <2> HIDE DEF few, more
    <2>3. /\ Cardinality(few \cup {new}) <= Cardinality(few) + 1
          /\ Cardinality(few) \in Nat /\ Cardinality(few \cup {new}) \in Nat
          /\ Cardinality(more) \in Nat /\ Cardinality(more) <= Cardinality(few \cup {new})
      BY <2>1, FS_AddElement, FS_Subset, FS_CardinalityType
    <2>4. /\ Newer(g, kept) \in Nat /\ Newer(g, grants) \in Nat
          /\ Newer(g, kept) <= Newer(g, grants)
      BY FewerAreNewer
    <2>5. QED
      BY <2>2, <2>3, <2>4
  <1>3. QED
    BY <1>1, <1>2

(* The table holds grants of the past, and no more than the bound allows.  *)
GrantsInv ==
    /\ LoginTypeOK /\ IsFiniteSet(grants) /\ ms \in 0..MaxMs
    /\ younger \in [Device -> 0..MaxGrants]
    /\ \A g \in grants : g.ms <= ms

(* Commands that wait for one code are known to share it.                  *)
TwinsInv ==
    \A d, e \in Device : Waiting(d) /\ Waiting(e) /\ d # e /\ code[d] = code[e] => d \in shared

(* An approved grant was approved by the user of the command it was given  *)
(* to, and so was every token.                                             *)
ApprovedInv ==
    \A d \in Device :
       /\ \A g \in grants :
             Waiting(d) /\ g.ms = code[d] /\ g.approved => d \in approvedBy \cup shared
       /\ login[d] = "token" => d \in approvedBy \cup shared

(* Why a command's grant may be gone.                                      *)
Excusable(d) == \/ ms >= code[d] + GrantTtl
                \/ d \in forgotten \cup shared
                \/ younger[d] >= MaxGrants

(* The grant a command waits for, which later grants push towards the end. *)
GrantOf(d) == {g \in grants : /\ g.ms = code[d] /\ g.expires = code[d] + GrantTtl
                              /\ Newer(g, grants) <= younger[d]}

(* It is there, unless there is an excuse; and so there is for every login *)
(* that was told it had expired.                                           *)
KeptInv ==
    \A d \in Device :
       /\ Waiting(d) /\ ~Excusable(d) => GrantOf(d) # {}
       /\ login[d] = "expired" => Excusable(d)

LoginInv == GrantsInv /\ TwinsInv /\ ApprovedInv /\ KeptInv

(* The pruning of the table keeps every grant that is waited for without   *)
(* an excuse.                                                              *)
LEMMA PruneKeepsWaiting ==
  ASSUME GrantsInv, KeptInv
  PROVE  /\ Prune \subseteq grants /\ IsFiniteSet(Prune) /\ Cardinality(Prune) <= MaxGrants
         /\ \A d \in Device : Waiting(d) /\ ~Excusable(d) => GrantOf(d) \cap Prune # {}
  <1>1. /\ Prune \subseteq grants /\ IsFiniteSet(Prune) /\ Cardinality(Prune) <= MaxGrants
        /\ \A g \in grants : g.expires > ms /\ Newer(g, grants) < MaxGrants => g \in Prune
    <2>1. /\ IsFiniteSet(grants) /\ grants \subseteq GrantRow /\ ms \in 0..MaxMs
          /\ \A g, h \in grants : g.ms = h.ms => g = h
      BY DEF GrantsInv, LoginTypeOK, GrantRow
    <2>2. OneOfEach(grants) /\ ms \in Nat
      BY <2>1, LoginAssumption DEF OneOfEach
    <2>3. QED
      BY <2>1, <2>2, PruneKeepsGrants
  <1>2. ASSUME NEW d \in Device, Waiting(d), ~Excusable(d)
        PROVE  GrantOf(d) \cap Prune # {}
    <2>1. PICK g \in grants : /\ g.ms = code[d] /\ g.expires = code[d] + GrantTtl
                              /\ Newer(g, grants) <= younger[d]
      BY <1>2 DEF KeptInv, GrantOf
    <2>2. Newer(g, grants) \in Nat
      BY FewerAreNewer DEF GrantsInv
    <2>3. younger[d] \in 0..MaxGrants /\ code[d] \in 0..MaxMs /\ ms \in 0..MaxMs
      <3>1. younger \in [Device -> 0..MaxGrants] /\ code \in [Device -> 0..MaxMs] /\ ms \in 0..MaxMs
        BY DEF GrantsInv, LoginTypeOK
      <3>2. QED
        BY <3>1
    <2>4. g.expires > ms /\ Newer(g, grants) < MaxGrants
      BY <1>2, <2>1, <2>2, <2>3, LoginAssumption DEF Excusable
    <2>5. QED
      BY <1>1, <2>1, <2>4 DEF GrantOf
  <1>3. QED
    BY <1>1, <1>2

(* Nothing but time, and a table no grant was taken from but by pruning.   *)
LEMMA LoginStays ==
  ASSUME LoginInv, UNCHANGED <<ms, code, shared, younger>>,
         IsFiniteSet(grants'), grants' \subseteq GrantRow, OneOfEach(grants'),
         Cardinality(grants') <= MaxGrants + 1, \A g \in grants' : g.ms <= ms,
         login' \in [Device -> {"idle", "polling", "token", "expired", "late", "failed"}],
         \A e \in Device : Waiting(e)' => Waiting(e),
         approvedBy \subseteq approvedBy', forgotten \subseteq forgotten',
         \A e \in Device, g \in grants' : Waiting(e) /\ g.ms = code[e] /\ g.approved
                                            => e \in approvedBy' \cup shared,
         \A e \in Device : login'[e] = "token" => e \in approvedBy' \cup shared,
         \A e \in Device : Waiting(e)' /\ ~Excusable(e)' => GrantOf(e)' # {},
         \A e \in Device : login'[e] = "expired" => Excusable(e)'
  PROVE  LoginInv'
  <1> USE DEF LoginInv
  <1>1. GrantsInv'
    BY DEF GrantsInv, LoginTypeOK, OneOfEach, GrantRow
  <1>2. TwinsInv'
    BY DEF TwinsInv
  <1>3. ApprovedInv'
    BY DEF ApprovedInv
  <1>4. KeptInv'
    BY DEF KeptInv
  <1>5. QED
    BY <1>1, <1>2, <1>3, <1>4

(* A token is given for an approved code, and a login that its user        *)
(* approved is told it has expired only for one of the reasons named.      *)
THEOREM ApprovalStands == LoginSpec => []ApprovalDecides
  <1>1. LoginInit => LoginInv
    <2> SUFFICES ASSUME LoginInit PROVE LoginInv
      OBVIOUS
    <2>1. grants = {} /\ ms = 0 /\ \A d \in Device : login[d] = "idle"
      BY DEF LoginInit
    <2>2. GrantsInv
      <3>1. IsFiniteSet(grants) /\ Cardinality(grants) = 0
        BY <2>1, FS_EmptySet
      <3>2. QED
        BY <2>1, <3>1, LoginAssumption DEF LoginInit, GrantsInv, LoginTypeOK
    <2>3. TwinsInv /\ ApprovedInv /\ KeptInv
      BY <2>1 DEF TwinsInv, ApprovedInv, KeptInv, Waiting
    <2>4. QED
      BY <2>2, <2>3 DEF LoginInv
  <1>2. ASSUME LoginInv, [LoginNext]_loginVars PROVE LoginInv'
    <2>1. /\ ms \in 0..MaxMs /\ ms \in Nat /\ IsFiniteSet(grants) /\ OneOfEach(grants)
          /\ grants \subseteq GrantRow /\ Cardinality(grants) <= MaxGrants + 1
          /\ \A g \in grants : g.ms <= ms
          /\ code \in [Device -> 0..MaxMs] /\ younger \in [Device -> 0..MaxGrants]
          /\ login \in [Device -> {"idle", "polling", "token", "expired", "late", "failed"}]
      BY <1>2, LoginAssumption DEF LoginInv, GrantsInv, LoginTypeOK, OneOfEach, GrantRow
    <2>2. /\ Prune \subseteq grants /\ IsFiniteSet(Prune) /\ Cardinality(Prune) <= MaxGrants
          /\ \A d \in Device : Waiting(d) /\ ~Excusable(d) => GrantOf(d) \cap Prune # {}
      BY <1>2, PruneKeepsWaiting DEF LoginInv
    <2>3. ASSUME NEW d \in Device, DeviceCode(d) PROVE LoginInv'
      <3> DEFINE new == [ms |-> ms, expires |-> ms + GrantTtl, approved |-> FALSE]
      <3>1. PICK kept \in SUBSET grants : kept = {g \in Prune : g.ms # ms}
        BY <2>2
      <3>2. /\ ~Waiting(d) /\ grants' = kept \cup {new} /\ ms' = ms
            /\ login' = [login EXCEPT ![d] = "polling"] /\ code' = [code EXCEPT ![d] = ms]
            /\ approvedBy' = approvedBy \ {d} /\ forgotten' = forgotten \ {d}
            /\ younger' = [e \in Device |-> IF e = d THEN 0
                                            ELSE IF younger[e] = MaxGrants THEN MaxGrants
                                            ELSE younger[e] + 1]
        BY <2>3, <3>1 DEF DeviceCode
      <3>3. PICK twins : /\ twins = {e \in Device \ {d} : Waiting(e) /\ code[e] = ms}
                         /\ shared' = (shared \ {d}) \cup
                                      IF twins = {} THEN {} ELSE twins \cup {d}
        BY <2>3, Zenon DEF DeviceCode
      <3>4. new \in GrantRow /\ new.ms = ms /\ new.expires = ms + GrantTtl /\ ~new.approved
        BY <2>1, LoginAssumption DEF GrantRow
      <3> HIDE DEF new
      <3>5. /\ \A e \in Device \ {d} : /\ Waiting(e)' <=> Waiting(e)
                                       /\ login'[e] = login[e] /\ code'[e] = code[e]
            /\ Waiting(d)' /\ code'[d] = ms /\ login'[d] = "polling"
        BY <2>1, <3>2 DEF Waiting
      <3>6. GrantsInv'
        <4>1. kept \subseteq Prune /\ IsFiniteSet(kept) /\ Cardinality(kept) <= MaxGrants
          <5>1. kept \subseteq Prune
            BY <3>1
          <5>2. IsFiniteSet(kept) /\ Cardinality(kept) <= Cardinality(Prune)
            BY <2>2, <5>1, FS_Subset
          <5>3. Cardinality(kept) \in Nat /\ Cardinality(Prune) \in Nat
            BY <2>2, <5>2, FS_CardinalityType
          <5>4. QED
            BY <2>2, <5>1, <5>2, <5>3, LoginAssumption
        <4>2. IsFiniteSet(grants') /\ Cardinality(grants') <= MaxGrants + 1
          <5>1. /\ IsFiniteSet(kept \cup {new})
                /\ \/ Cardinality(kept \cup {new}) = Cardinality(kept)
                   \/ Cardinality(kept \cup {new}) = Cardinality(kept) + 1
            BY <4>1, FS_AddElement
          <5>2. Cardinality(kept) \in Nat
            BY <4>1, FS_CardinalityType
          <5>3. QED
            BY <3>2, <4>1, <5>1, <5>2, LoginAssumption
        <4>3. grants' \subseteq GrantRow /\ OneOfEach(grants')
          BY <2>1, <3>1, <3>2, <3>4 DEF OneOfEach
        <4>4. \A g \in grants' : g.ms <= ms
          BY <2>1, <3>1, <3>2, <3>4
        <4>5. younger' \in [Device -> 0..MaxGrants]
          BY <2>1, <3>2, LoginAssumption
        <4>6. /\ code' \in [Device -> 0..MaxMs]
              /\ login' \in [Device -> {"idle", "polling", "token", "expired", "late", "failed"}]
          BY <2>1, <3>2
        <4>7. QED
          BY <2>1, <3>2, <4>2, <4>3, <4>4, <4>5, <4>6
             DEF GrantsInv, LoginTypeOK, GrantRow, OneOfEach
      <3>7. TwinsInv'
        <4>1. ASSUME NEW a \in Device, NEW b \in Device, Waiting(a)', Waiting(b)',
                     a # b, code'[a] = code'[b]
              PROVE  a \in shared'
          <5>1. CASE a = d
            BY <3>3, <3>5, <4>1, <5>1
          <5>2. CASE b = d
            BY <3>3, <3>5, <4>1, <5>2
          <5>3. CASE a # d /\ b # d
            <6>1. a \in shared
              BY <1>2, <3>5, <4>1, <5>3 DEF LoginInv, TwinsInv
            <6>2. QED
              BY <3>3, <5>3, <6>1
          <5>4. QED
            BY <5>1, <5>2, <5>3
        <4>2. QED
          BY <4>1 DEF TwinsInv
      <3>8. ApprovedInv'
        <4>1. ASSUME NEW e \in Device, NEW g \in grants',
                     Waiting(e)', g.ms = code'[e], g.approved
              PROVE  e \in (approvedBy \cup shared)'
          <5>1. g \in grants /\ g.ms # ms
            BY <3>1, <3>2, <3>4, <4>1
          <5>2. e # d
            BY <3>5, <4>1, <5>1
          <5>3. e \in approvedBy \cup shared
            BY <1>2, <3>5, <4>1, <5>1, <5>2 DEF LoginInv, ApprovedInv
          <5>4. QED
            BY <3>2, <3>3, <5>2, <5>3
        <4>2. ASSUME NEW e \in Device, login'[e] = "token"
              PROVE  e \in (approvedBy \cup shared)'
          <5>1. e # d
            BY <3>5, <4>2
          <5>2. e \in approvedBy \cup shared
            BY <1>2, <3>5, <4>2, <5>1 DEF LoginInv, ApprovedInv
          <5>3. QED
            BY <3>2, <3>3, <5>1, <5>2
        <4>3. QED
          BY <4>1, <4>2 DEF ApprovedInv
      <3>9. KeptInv'
        <4>1. ASSUME NEW e \in Device, e # d, Excusable(e) PROVE Excusable(e)'
          <5>1. younger[e] \in 0..MaxGrants /\ younger'[e] \in Nat
                /\ (younger[e] >= MaxGrants => younger'[e] >= MaxGrants)
            BY <2>1, <3>2, <4>1, LoginAssumption
          <5>2. QED
            BY <3>2, <3>3, <3>5, <4>1, <5>1 DEF Excusable
        <4>2. ASSUME NEW e \in Device, Waiting(e)', ~Excusable(e)' PROVE GrantOf(e)' # {}
          <5>1. /\ Newer(new, kept \cup {new}) = 0
                /\ \A g \in kept : Newer(g, kept \cup {new}) <= Newer(g, grants) + 1
            BY <2>1, <3>4, NewestIsNew
          <5>2. CASE e = d
            <6>1. younger'[d] = 0
              BY <3>2
            <6>2. new \in GrantOf(d)'
              BY <3>2, <3>4, <3>5, <5>1, <6>1 DEF GrantOf
            <6>3. QED
              BY <5>2, <6>2
          <5>3. CASE e # d
            <6>1. Waiting(e) /\ ~Excusable(e)
              BY <3>5, <4>1, <4>2, <5>3
            <6>2. PICK g \in Prune : /\ g.ms = code[e] /\ g.expires = code[e] + GrantTtl
                                     /\ Newer(g, grants) <= younger[e]
              BY <2>2, <6>1 DEF GrantOf
            <6>3. code[e] # ms
              <7>1. e \notin shared'
                BY <4>2 DEF Excusable
              <7>2. QED
                BY <3>3, <5>3, <6>1, <7>1
            <6>4. g \in kept /\ g \in grants'
              BY <3>1, <3>2, <6>2, <6>3
            <6>5. /\ Newer(g, grants) \in Nat /\ Newer(g, grants') \in Nat
                  /\ Newer(g, grants') <= Newer(g, grants) + 1
              <7>1. IsFiniteSet(grants') /\ grants' \in SUBSET grants'
                BY <3>6 DEF GrantsInv
              <7>2. Newer(g, grants) \in Nat /\ Newer(g, grants') \in Nat
                BY <2>1, <7>1, FewerAreNewer
              <7>3. QED
                BY <3>2, <5>1, <6>4, <7>2
            <6>6. younger[e] \in 0..MaxGrants /\ ~(younger'[e] >= MaxGrants)
              BY <2>1, <4>2 DEF Excusable
            <6>7. younger'[e] = younger[e] + 1
              BY <3>2, <5>3, <6>6, LoginAssumption
            <6>8. Newer(g, grants') <= younger'[e]
              BY <6>2, <6>5, <6>6, <6>7
            <6>9. g \in GrantOf(e)'
              BY <3>5, <5>3, <6>2, <6>4, <6>8 DEF GrantOf
            <6>10. QED
              BY <6>9
          <5>4. QED
            BY <5>2, <5>3
        <4>3. ASSUME NEW e \in Device, login'[e] = "expired" PROVE Excusable(e)'
          <5>1. e # d /\ login[e] = "expired"
            BY <3>5, <4>3
          <5>2. QED
            BY <1>2, <4>1, <5>1 DEF LoginInv, KeptInv
        <4>4. QED
          BY <4>2, <4>3 DEF KeptInv
      <3>10. QED
        BY <3>6, <3>7, <3>8, <3>9 DEF LoginInv
    <2>4. ASSUME NEW d \in Device, DeviceApprove(d) PROVE LoginInv'
      <3>1. /\ Waiting(d) /\ grants' = Marking(d)
            /\ UNCHANGED <<ms, login, code, shared, younger, forgotten>>
            /\ approvedBy' = IF \E g \in grants : g.ms = code[d]
                             THEN approvedBy \cup {d} ELSE approvedBy
        BY <2>4 DEF DeviceApprove, Marking, Marked
      <3>2. /\ \A g \in grants : /\ Marked(g, d) \in GrantRow
                                 /\ Marked(g, d).ms = g.ms /\ Marked(g, d).expires = g.expires
                                 /\ Marked(g, d).approved <=> (g.approved \/ g.ms = code[d])
            /\ Marking(d) \subseteq GrantRow /\ OneOfEach(Marking(d))
            /\ IsFiniteSet(Marking(d)) /\ Cardinality(Marking(d)) <= Cardinality(grants)
            /\ \A g \in grants : Newer(Marked(g, d), Marking(d)) <= Newer(g, grants)
        BY <2>1, MarkingIsApproval
      <3>3. IsFiniteSet(grants') /\ Cardinality(grants') <= MaxGrants + 1
        BY <2>1, <3>1, <3>2, FS_CardinalityType, LoginAssumption
      <3>4. ASSUME NEW e \in Device, NEW g \in grants', Waiting(e), g.ms = code[e], g.approved
            PROVE  e \in approvedBy' \cup shared
        <4>1. PICK h \in grants : g = Marked(h, d)
          BY <3>1 DEF Marking
        <4>2. h.ms = code[e] /\ (h.approved \/ h.ms = code[d])
          BY <3>2, <3>4, <4>1
        <4>3. CASE h.approved
          BY <1>2, <3>1, <3>4, <4>2, <4>3 DEF LoginInv, ApprovedInv
        <4>4. CASE e = d
          BY <3>1, <4>2, <4>4
        <4>5. CASE h.ms = code[d] /\ e # d
          BY <1>2, <3>1, <3>4, <4>2, <4>5 DEF LoginInv, TwinsInv
        <4>6. QED
          BY <4>2, <4>3, <4>4, <4>5
      <3>5. \A e \in Device : (Excusable(e)' <=> Excusable(e)) /\ (Waiting(e)' <=> Waiting(e))
        BY <3>1 DEF Excusable, Waiting
      <3>6. ASSUME NEW e \in Device, Waiting(e)', ~Excusable(e)' PROVE GrantOf(e)' # {}
        <4>1. PICK g \in grants : /\ g.ms = code[e] /\ g.expires = code[e] + GrantTtl
                                  /\ Newer(g, grants) <= younger[e]
          BY <1>2, <3>5, <3>6 DEF LoginInv, KeptInv, GrantOf
        <4>2. Newer(g, grants) \in Nat /\ Newer(Marked(g, d), Marking(d)) \in Nat
          <5>1. grants \in SUBSET grants /\ Marking(d) \in SUBSET Marking(d)
            OBVIOUS
          <5>2. QED
            BY <2>1, <3>2, <5>1, FewerAreNewer
        <4>3. younger[e] \in 0..MaxGrants
          BY <2>1
        <4>4. Newer(Marked(g, d), Marking(d)) <= younger[e]
          BY <3>2, <4>1, <4>2, <4>3
        <4>5. Marked(g, d) \in Marking(d)
          BY DEF Marking
        <4>6. PICK h \in grants' : /\ h.ms = code[e] /\ h.expires = code[e] + GrantTtl
                                   /\ Newer(h, grants') <= younger[e]
          BY <3>1, <3>2, <4>1, <4>4, <4>5
        <4>7. h \in GrantOf(e)'
          BY <3>1, <4>6 DEF GrantOf
        <4>8. QED
          BY <4>7
      <3>7. ASSUME NEW g \in grants' PROVE g.ms <= ms
        BY <2>1, <3>1, <3>2, <3>7 DEF Marking
      <3>8. \A e \in Device : /\ login'[e] = "token" => e \in approvedBy' \cup shared
                              /\ login'[e] = "expired" => Excusable(e)'
        BY <1>2, <3>1, <3>5 DEF LoginInv, ApprovedInv, KeptInv
      <3>9. QED
        BY <1>2, <2>1, <3>1, <3>2, <3>3, <3>4, <3>5, <3>6, <3>7, <3>8, LoginStays
    <2>5. ASSUME NEW d \in Device, DeviceToken(d) PROVE LoginInv'
      <3>1. PICK some \in SUBSET grants, word \in {"expired", "token", "polling"} :
               /\ some = Prune
               /\ grants' = some /\ login' = [login EXCEPT ![d] = word]
               /\ word = "expired" => ~\E g \in some : g.ms = code[d]
               /\ word = "token" => \E g \in some : g.ms = code[d] /\ g.approved
        BY <2>2, <2>5 DEF DeviceToken
      <3>2. Waiting(d) /\ UNCHANGED <<ms, code, approvedBy, shared, younger, forgotten>>
        BY <2>5 DEF DeviceToken
      <3>3. /\ login'[d] = word
            /\ \A e \in Device \ {d} : login'[e] = login[e]
            /\ \A e \in Device : Waiting(e)' => Waiting(e)
            /\ \A e \in Device : Excusable(e)' <=> Excusable(e)
            /\ login' \in [Device -> {"idle", "polling", "token", "expired", "late", "failed"}]
        BY <2>1, <3>1, <3>2 DEF Waiting, Excusable
      <3>4. /\ IsFiniteSet(grants') /\ Cardinality(grants') <= MaxGrants + 1
            /\ grants' \subseteq GrantRow /\ OneOfEach(grants') /\ \A g \in grants' : g.ms <= ms
        BY <2>1, <2>2, <3>1, FS_CardinalityType, LoginAssumption DEF OneOfEach
      <3>5. ASSUME NEW e \in Device, Waiting(e)', ~Excusable(e)' PROVE GrantOf(e)' # {}
        <4>1. PICK g \in some : /\ g.ms = code[e] /\ g.expires = code[e] + GrantTtl
                                /\ Newer(g, grants) <= younger[e]
          BY <2>2, <3>1, <3>3, <3>5 DEF GrantOf
        <4>2. /\ Newer(g, some) \in Nat /\ Newer(g, grants) \in Nat
              /\ Newer(g, some) <= Newer(g, grants)
          BY <2>1, FewerAreNewer
        <4>3. younger[e] \in 0..MaxGrants
          BY <2>1
        <4>4. Newer(g, some) <= younger[e]
          BY <4>1, <4>2, <4>3
        <4>5. g \in GrantOf(e)'
          BY <3>1, <3>2, <4>1, <4>4 DEF GrantOf
        <4>6. QED
          BY <4>5
      <3>6. ASSUME NEW e \in Device, login'[e] = "expired" PROVE Excusable(e)'
        <4>1. CASE e # d
          BY <1>2, <3>3, <3>6, <4>1 DEF LoginInv, KeptInv
        <4>2. CASE e = d
          <5>1. ~\E g \in some : g.ms = code[d]
            BY <3>1, <3>3, <3>6, <4>2
          <5>2. Excusable(d)
            BY <2>2, <3>1, <3>2, <5>1 DEF GrantOf
          <5>3. QED
            BY <3>3, <4>2, <5>2
        <4>3. QED
          BY <4>1, <4>2
      <3>7. /\ \A e \in Device, g \in grants' : Waiting(e) /\ g.ms = code[e] /\ g.approved
                                                  => e \in approvedBy \cup shared
            /\ \A e \in Device : login[e] = "token" => e \in approvedBy \cup shared
        BY <1>2, <3>1 DEF LoginInv, ApprovedInv
      <3>8. \A e \in Device : login'[e] = "token" => e \in approvedBy \cup shared
        <4>1. login'[d] = "token" => d \in approvedBy \cup shared
          BY <3>1, <3>2, <3>3, <3>7
        <4>2. QED
          BY <3>3, <3>7, <4>1
      <3>9. QED
        BY <1>2, <3>2, <3>3, <3>4, <3>5, <3>6, <3>7, <3>8, LoginStays
    <2>6. ASSUME NEW d \in Device, LoginTimesOut(d) \/ PollFails(d) PROVE LoginInv'
      <3>1. PICK word \in {"late", "failed"} : login' = [login EXCEPT ![d] = word]
        BY <2>6 DEF LoginTimesOut, PollFails
      <3>2. Waiting(d) /\ UNCHANGED <<grants, ms, code, approvedBy, shared, younger, forgotten>>
        BY <2>6 DEF LoginTimesOut, PollFails
      <3>3. /\ \A e \in Device : Waiting(e)' => Waiting(e)
            /\ \A e \in Device : login'[e] \in {"token", "expired"} => login'[e] = login[e]
            /\ \A e \in Device : (Excusable(e)' <=> Excusable(e)) /\ GrantOf(e)' = GrantOf(e)
            /\ login' \in [Device -> {"idle", "polling", "token", "expired", "late", "failed"}]
        BY <2>1, <3>1, <3>2 DEF Waiting, Excusable, GrantOf
      <3>4. /\ \A e \in Device : Waiting(e)' /\ ~Excusable(e)' => GrantOf(e)' # {}
            /\ \A e \in Device : login'[e] = "expired" => Excusable(e)'
            /\ \A e \in Device : login'[e] = "token" => e \in approvedBy \cup shared
            /\ \A e \in Device, g \in grants : Waiting(e) /\ g.ms = code[e] /\ g.approved
                                                 => e \in approvedBy \cup shared
        BY <1>2, <3>3 DEF LoginInv, KeptInv, ApprovedInv
      <3>5. QED
        BY <1>2, <2>1, <3>2, <3>3, <3>4, LoginStays
    <2>7. CASE HostRestarts
      <3>1. grants' = {} /\ forgotten' = Device
            /\ UNCHANGED <<ms, login, code, approvedBy, shared, younger>>
        BY <2>7 DEF HostRestarts
      <3>2. IsFiniteSet(grants') /\ Cardinality(grants') = 0
        BY <3>1, FS_EmptySet
      <3>3. \A e \in Device : Excusable(e)'
        BY <3>1 DEF Excusable
      <3>4. GrantsInv'
        BY <2>1, <3>1, <3>2, LoginAssumption DEF GrantsInv, LoginTypeOK
      <3>5. TwinsInv' /\ ApprovedInv'
        BY <1>2, <3>1 DEF LoginInv, TwinsInv, ApprovedInv, Waiting
      <3>6. QED
        BY <3>3, <3>4, <3>5 DEF LoginInv, KeptInv
    <2>8. CASE LoginTick
      <3>1. ms < MaxMs /\ ms' = ms + 1
            /\ UNCHANGED <<grants, login, code, approvedBy, shared, younger, forgotten>>
        BY <2>8 DEF LoginTick
      <3>2. GrantsInv'
        <4>1. \A g \in grants : g.ms <= ms'
          BY <2>1, <3>1 DEF GrantRow
        <4>2. ms' \in 0..MaxMs
          BY <2>1, <3>1, LoginAssumption
        <4>3. QED
          BY <1>2, <3>1, <4>1, <4>2 DEF LoginInv, GrantsInv, LoginTypeOK
      <3>3. TwinsInv' /\ ApprovedInv'
        BY <1>2, <3>1 DEF LoginInv, TwinsInv, ApprovedInv, Waiting
      <3>4. \A e \in Device : Excusable(e) => Excusable(e)'
        <4>1. ASSUME NEW e \in Device, ms >= code[e] + GrantTtl
              PROVE  ms' >= code'[e] + GrantTtl
          BY <2>1, <3>1, <4>1, LoginAssumption
        <4>2. QED
          BY <3>1, <4>1 DEF Excusable
      <3>5. KeptInv'
        BY <1>2, <3>1, <3>4 DEF LoginInv, KeptInv, Waiting, GrantOf
      <3>6. QED
        BY <3>2, <3>3, <3>5 DEF LoginInv
    <2>9. CASE UNCHANGED loginVars
      BY <1>2, <2>9 DEF loginVars, LoginInv, GrantsInv, LoginTypeOK, TwinsInv, ApprovedInv,
                        KeptInv, Excusable, GrantOf, Waiting
    <2>10. QED
      BY <1>2, <2>3, <2>4, <2>5, <2>6, <2>7, <2>8, <2>9 DEF LoginNext
  <1>3. LoginInv => ApprovalDecides
    BY DEF LoginInv, GrantsInv, ApprovedInv, KeptInv, Excusable, ApprovalDecides
  <1>4. QED
    BY <1>1, <1>2, <1>3, PTL DEF LoginSpec

-----------------------------------------------------------------------------
(* Policies *)

(* Keys are in a total order.                                              *)
Key == Seq(Int)

(* The first place where two keys differ is that of the lower of the two.  *)
LEMMA KeysAreTransitive ==
  ASSUME NEW a \in Key, NEW b \in Key, NEW c \in Key, KeyLess(a, b), KeyLess(b, c)
  PROVE  KeyLess(a, c)
  <1>1. PICK i \in 1..Len(b) : /\ \A j \in 1..(i - 1) : j <= Len(a) /\ a[j] = b[j]
                               /\ i = Len(a) + 1 \/ (i <= Len(a) /\ a[i] < b[i])
    BY DEF KeyLess
  <1>2. PICK k \in 1..Len(c) : /\ \A j \in 1..(k - 1) : j <= Len(b) /\ b[j] = c[j]
                               /\ k = Len(b) + 1 \/ (k <= Len(b) /\ b[k] < c[k])
    BY DEF KeyLess
  <1>3. Len(a) \in Nat /\ Len(b) \in Nat /\ Len(c) \in Nat
    BY DEF Key
  <1>4. /\ \A j \in 1..Len(a) : a[j] \in Int
        /\ \A j \in 1..Len(b) : b[j] \in Int
        /\ \A j \in 1..Len(c) : c[j] \in Int
    BY DEF Key
  <1>5. CASE i <= k
    <2>1. i \in 1..Len(c) /\ \A j \in 1..(i - 1) : j <= Len(a) /\ a[j] = c[j]
      BY <1>1, <1>2, <1>3, <1>5
    <2>2. i = Len(a) + 1 \/ (i <= Len(a) /\ a[i] < c[i])
      <3>1. CASE i = Len(a) + 1
        BY <3>1
      <3>2. CASE i <= Len(a) /\ a[i] < b[i]
        <4>1. b[i] = c[i] \/ b[i] < c[i]
          BY <1>1, <1>2, <1>3, <1>5
        <4>2. a[i] \in Int /\ b[i] \in Int /\ c[i] \in Int
          BY <1>1, <1>3, <1>4, <2>1, <3>2
        <4>3. a[i] < c[i]
          BY <3>2, <4>1, <4>2
        <4>4. QED
          BY <3>2, <4>3
      <3>3. QED
        BY <1>1, <3>1, <3>2
    <2>3. QED
      BY <2>1, <2>2 DEF KeyLess
  <1>6. CASE k < i
    <2>1. \A j \in 1..(k - 1) : j <= Len(a) /\ a[j] = c[j]
      BY <1>1, <1>2, <1>3, <1>6
    <2>2. k <= Len(a) /\ a[k] < c[k]
      BY <1>1, <1>2, <1>3, <1>4, <1>6
    <2>3. QED
      BY <2>1, <2>2 DEF KeyLess
  <1>7. QED
    BY <1>3, <1>5, <1>6

(* No key is below itself, and of two keys one is below the other.         *)
LEMMA KeysAreTotal ==
  ASSUME NEW a \in Key, NEW b \in Key
  PROVE  /\ ~KeyLess(a, a)
         /\ a # b => KeyLess(a, b) \/ KeyLess(b, a)
  <1>1. /\ Len(a) \in Nat /\ Len(b) \in Nat
        /\ \A j \in 1..Len(a) : a[j] \in Int
        /\ \A j \in 1..Len(b) : b[j] \in Int
    BY DEF Key
  <1>2. ~KeyLess(a, a)
    BY <1>1 DEF KeyLess
  <1>3. ASSUME a # b PROVE KeyLess(a, b) \/ KeyLess(b, a)
    <2> DEFINE parts == {i \in Nat : /\ i >= 1
                                     /\ \/ i = Len(a) + 1 \/ i = Len(b) + 1
                                        \/ i <= Len(a) /\ i <= Len(b) /\ a[i] # b[i]}
    <2>1. Len(a) + 1 \in parts
      BY <1>1
    <2>2. PICK n \in parts : \A m \in parts : n <= m
      BY <2>1, LeastNumber
    <2>3. n \in Nat /\ n >= 1 /\ n <= Len(a) + 1 /\ n <= Len(b) + 1
      BY <1>1, <2>1, <2>2
    <2>4. \A j \in 1..(n - 1) : j <= Len(a) /\ j <= Len(b) /\ a[j] = b[j]
      BY <1>1, <2>2, <2>3
    <2>5. CASE n = Len(a) + 1 /\ n = Len(b) + 1
      <3>1. Len(a) = Len(b) /\ \A j \in 1..Len(a) : a[j] = b[j]
        BY <1>1, <2>4, <2>5
      <3>2. QED
        BY <1>3, <3>1, SMTT(60) DEF Key
    <2>6. CASE n = Len(a) + 1 /\ n # Len(b) + 1
      <3>1. n \in 1..Len(b) /\ \A j \in 1..(n - 1) : j <= Len(a) /\ a[j] = b[j]
        BY <1>1, <2>3, <2>4, <2>6
      <3>2. KeyLess(a, b)
        BY <2>6, <3>1 DEF KeyLess
      <3>3. QED
        BY <3>2
    <2>7. CASE n # Len(a) + 1 /\ n = Len(b) + 1
      <3>1. n \in 1..Len(a) /\ \A j \in 1..(n - 1) : j <= Len(b) /\ b[j] = a[j]
        BY <1>1, <2>3, <2>4, <2>7
      <3>2. KeyLess(b, a)
        BY <2>7, <3>1 DEF KeyLess
      <3>3. QED
        BY <3>2
    <2>8. CASE n # Len(a) + 1 /\ n # Len(b) + 1
      <3>1. n \in 1..Len(a) /\ n \in 1..Len(b) /\ a[n] # b[n]
        BY <1>1, <2>2, <2>3, <2>8
      <3>2. n <= Len(a) /\ n <= Len(b) /\ (a[n] < b[n] \/ b[n] < a[n])
        BY <1>1, <3>1
      <3>3. /\ \A j \in 1..(n - 1) : j <= Len(a) /\ a[j] = b[j]
            /\ \A j \in 1..(n - 1) : j <= Len(b) /\ b[j] = a[j]
        BY <2>4
      <3>4. CASE a[n] < b[n]
        <4>1. KeyLess(a, b)
          BY <3>1, <3>2, <3>3, <3>4 DEF KeyLess
        <4>2. QED
          BY <4>1
      <3>5. CASE b[n] < a[n]
        <4>1. KeyLess(b, a)
          BY <3>1, <3>2, <3>3, <3>5 DEF KeyLess
        <4>2. QED
          BY <4>1
      <3>6. QED
        BY <3>2, <3>4, <3>5
    <2>9. QED
      BY <2>5, <2>6, <2>7, <2>8
  <1>4. QED
    BY <1>2, <1>3

(* A key between others is a key, and not the missing one.                 *)
LEMMA NewKeys ==
  ASSUME NEW prev \in Key, NEW next \in Key
  PROVE  GenerateKeyBetween(prev, next) \in Key \ {NoKey}
  <1>1. \A key \in Key : Increment(key) \in Key \ {NoKey}
    <2> TAKE key \in Key
    <2>1. Append(key, Digit0) \in Key \ {NoKey}
      <3>1. Append(key, Digit0) \in Seq(Int) /\ Len(Append(key, Digit0)) = Len(key) + 1
        BY DEF Key, Digit0
      <3>2. Len(key) + 1 # Len(<<>>)
        BY DEF Key
      <3>3. Append(key, Digit0) # <<>>
        BY <3>1, <3>2
      <3>4. QED
        BY <3>1, <3>3 DEF Key, NoKey
    <2>2. ASSUME key # NoKey
          PROVE  [key EXCEPT ![Len(key)] = @ + 1] \in Key \ {NoKey}
      <3>1. Len(key) \in 1..Len(key) /\ key[Len(key)] \in Int
        BY <2>2 DEF Key, NoKey
      <3>2. QED
        BY <2>2, <3>1 DEF Key, NoKey
    <2>3. QED
      BY <2>1, <2>2 DEF Increment
  <1>2. \A key \in Key : Before(key) \in Key \ {NoKey}
    <2> TAKE key \in Key
    <2>1. FrontKey \in Key \ {NoKey} /\ FrontKey \o key \in Key \ {NoKey}
      BY DEF Key, NoKey, FrontKey, UpperZ, LowerZ
    <2>2. ASSUME key # NoKey
          PROVE  [key EXCEPT ![Len(key)] = @ - 1] \in Key \ {NoKey}
      <3>1. Len(key) \in 1..Len(key) /\ key[Len(key)] \in Int
        BY <2>2 DEF Key, NoKey
      <3>2. QED
        BY <2>2, <3>1 DEF Key, NoKey
    <2>3. QED
      BY <2>1, <2>2 DEF Before
  <1>3. Append(prev, Digit0) \in Key \ {NoKey} /\ FirstKey \in Key \ {NoKey}
    BY DEF Key, NoKey, Digit0, FirstKey, LowerA
  <1>4. QED
    BY <1>1, <1>2, <1>3 DEF GenerateKeyBetween, Between

(* Rows of rules, and sets of them as the store holds.                     *)
RuleId == [kind : {"pol", "pol_persist"}, ms : Nat]
RuleRow == [id : RuleId, owner : PolicyOwner, pattern : Seq(STRING), action : PolicyAction,
            position : Key \ {NoKey}]
RuleTable(table) ==
    /\ table \subseteq RuleRow /\ IsFiniteSet(table)
    /\ \A r, s \in table : r.id = s.id => r = s

(* The rules of a table are in a total order: by key, then by id.          *)
LEMMA RulesAreOrdered ==
  /\ \A q, r, s \in RuleRow : ComparePolicyRow(q, r) /\ ComparePolicyRow(r, s)
                                => ComparePolicyRow(q, s)
  /\ \A r, s \in RuleRow : ~(ComparePolicyRow(r, s) /\ ComparePolicyRow(s, r))
  /\ \A r, s \in RuleRow : r.id # s.id => ComparePolicyRow(r, s) \/ ComparePolicyRow(s, r)
  <1>1. \A r \in RuleRow : r.id \in RuleId /\ r.position \in Key
    BY DEF RuleRow
  <1>2. /\ \A a, b, c \in RuleId : IdLess(a, b) /\ IdLess(b, c) => IdLess(a, c)
        /\ \A a \in RuleId : ~IdLess(a, a)
        /\ \A a, b \in RuleId : a # b => IdLess(a, b) \/ IdLess(b, a)
    <2>1. \A a \in RuleId : a.kind \in {"pol", "pol_persist"} /\ a.ms \in Nat
      BY DEF RuleId
    <2>2. \A a, b \in RuleId : a # b => a.kind # b.kind \/ a.ms # b.ms
      BY DEF RuleId
    <2>3. QED
      BY <2>1, <2>2 DEF IdLess
  <1>3. ASSUME NEW q \in RuleRow, NEW r \in RuleRow, NEW s \in RuleRow,
               ComparePolicyRow(q, r), ComparePolicyRow(r, s)
        PROVE  ComparePolicyRow(q, s)
    <2>1. KeyLess(q.position, r.position) /\ KeyLess(r.position, s.position)
            => KeyLess(q.position, s.position)
      BY <1>1, KeysAreTransitive
    <2>2. IdLess(q.id, r.id) /\ IdLess(r.id, s.id) => IdLess(q.id, s.id)
      BY <1>1, <1>2
    <2>3. QED
      BY <1>3, <2>1, <2>2 DEF ComparePolicyRow
  <1>4. ASSUME NEW r \in RuleRow PROVE ~ComparePolicyRow(r, r)
    <2>1. ~KeyLess(r.position, r.position) /\ ~IdLess(r.id, r.id)
      BY <1>1, <1>2, KeysAreTotal
    <2>2. QED
      BY <2>1 DEF ComparePolicyRow
  <1>5. ASSUME NEW r \in RuleRow, NEW s \in RuleRow, r.id # s.id
        PROVE  ComparePolicyRow(r, s) \/ ComparePolicyRow(s, r)
    <2>1. r.position # s.position
            => KeyLess(r.position, s.position) \/ KeyLess(s.position, r.position)
      BY <1>1, KeysAreTotal
    <2>2. IdLess(r.id, s.id) \/ IdLess(s.id, r.id)
      BY <1>1, <1>2, <1>5
    <2>3. QED
      BY <2>1, <2>2 DEF ComparePolicyRow
  <1>6. QED
    BY <1>3, <1>4, <1>5

(* A finite set that a relation orders has a first element.                *)
Orders(less, S) ==
    /\ \A x, y, z \in S : <<x, y>> \in less /\ <<y, z>> \in less => <<x, z>> \in less
    /\ \A x, y \in S : ~(<<x, y>> \in less /\ <<y, x>> \in less)
    /\ \A x, y \in S : x # y => <<x, y>> \in less \/ <<y, x>> \in less

(* A finite set that an order decides pair by pair has a first element.    *)
LEMMA FirstElement ==
  ASSUME NEW S, IsFiniteSet(S), S # {}, NEW less, Orders(less, S)
  PROVE  \E x \in S : \A y \in S \ {x} : <<x, y>> \in less
  <1>0. PICK below : below = [x \in S |-> {y \in S : <<y, x>> \in less}]
    OBVIOUS
  <1> DEFINE sizes == {Cardinality(below[x]) : x \in S}
  <1>1. \A x \in S : IsFiniteSet(below[x]) /\ Cardinality(below[x]) \in Nat
    BY <1>0, FS_Subset, FS_CardinalityType
  <1>2. sizes \in SUBSET Nat /\ sizes # {}
    BY <1>1
  <1>3. PICK n \in sizes : \A m \in sizes : n <= m
    BY <1>2, LeastNumber
  <1>4. PICK x \in S : Cardinality(below[x]) = n
    BY <1>3
  <1>5. ASSUME NEW y \in S \ {x} PROVE <<x, y>> \in less
    <2>1. SUFFICES ASSUME <<y, x>> \in less PROVE FALSE
      BY DEF Orders
    <2>2. below[y] \subseteq below[x] /\ y \in below[x] /\ y \notin below[y]
      BY <1>0, <2>1 DEF Orders
    <2>3. n <= Cardinality(below[y])
      BY <1>3
    <2>4. /\ Cardinality(below[y]) <= Cardinality(below[x])
          /\ Cardinality(below[x]) = Cardinality(below[y]) => below[x] = below[y]
      BY <1>1, <2>2, FS_Subset
    <2>5. Cardinality(below[x]) = Cardinality(below[y])
      BY <1>1, <1>4, <2>3, <2>4
    <2>6. QED
      BY <2>2, <2>4, <2>5
  <1>6. QED
    BY <1>5

(* A table of rules has a foremost and a hindmost rule.                    *)
LEMMA TablesHaveEnds ==
  ASSUME NEW table, RuleTable(table), table # {}
  PROVE  /\ Foremost(table) \in table
         /\ \A s \in table \ {Foremost(table)} : ComparePolicyRow(Foremost(table), s)
         /\ Hindmost(table) \in table
         /\ \A s \in table \ {Hindmost(table)} : ComparePolicyRow(s, Hindmost(table))
  <1>1. /\ \A q, r, s \in table : ComparePolicyRow(q, r) /\ ComparePolicyRow(r, s)
                                    => ComparePolicyRow(q, s)
        /\ \A r, s \in table : ~(ComparePolicyRow(r, s) /\ ComparePolicyRow(s, r))
        /\ \A r, s \in table : r # s => ComparePolicyRow(r, s) \/ ComparePolicyRow(s, r)
    BY RulesAreOrdered DEF RuleTable
  <1>2. \E r \in table : \A s \in table \ {r} : ComparePolicyRow(r, s)
    <2> PICK less : less = {pair \in table \X table : ComparePolicyRow(pair[1], pair[2])}
      OBVIOUS
    <2>1. \A r, s \in table : <<r, s>> \in less <=> ComparePolicyRow(r, s)
      OBVIOUS
    <2>2. Orders(less, table)
      BY <1>1, <2>1 DEF Orders
    <2>3. IsFiniteSet(table)
      BY DEF RuleTable
    <2>4. \E x \in table : \A y \in table \ {x} : <<x, y>> \in less
      BY <2>2, <2>3, FirstElement
    <2>5. QED
      BY <2>1, <2>4
  <1>3. \E r \in table : \A s \in table \ {r} : ComparePolicyRow(s, r)
    <2> PICK less : less = {pair \in table \X table : ComparePolicyRow(pair[2], pair[1])}
      OBVIOUS
    <2>1. \A r, s \in table : <<r, s>> \in less <=> ComparePolicyRow(s, r)
      OBVIOUS
    <2>2. Orders(less, table)
      BY <1>1, <2>1 DEF Orders
    <2>3. IsFiniteSet(table)
      BY DEF RuleTable
    <2>4. \E x \in table : \A y \in table \ {x} : <<x, y>> \in less
      BY <2>2, <2>3, FirstElement
    <2>5. QED
      BY <2>1, <2>4
  <1>4. QED
    BY <1>2, <1>3 DEF Foremost, Hindmost

(* The rules of one owner, the most specific first.                        *)
SortedRules(table) ==
    \A r, s \in table : PatternSpecificity(r.pattern) > PatternSpecificity(s.pattern)
                          => ComparePolicyRow(r, s)

(* Specificity counts segments.                                            *)
LEMMA SpecificityIsNumber ==
  ASSUME NEW pattern \in Seq(STRING)
  PROVE  PatternSpecificity(pattern) \in Int
  <1>1. Len(pattern) \in Nat
    OBVIOUS
  <1>2. QED
    BY <1>1 DEF PatternSpecificity

(* A key between the neighbours of a new rule comes after those of the     *)
(* more specific rules and before those of the less specific ones.         *)
LEMMA NeighboursSeparate ==
  ASSUME NEW table, RuleTable(table), SortedRules(table),
         NEW pattern \in Seq(STRING), NEW key \in Key,
         NEW n, n = Neighbours(pattern, table), StrictlyBetween(n.prev, key, n.next)
  PROVE  /\ \A r \in table : PatternSpecificity(r.pattern) > PatternSpecificity(pattern)
                               => KeyLess(r.position, key)
         /\ \A r \in table : PatternSpecificity(r.pattern) < PatternSpecificity(pattern)
                               => KeyLess(key, r.position)
  <1>1. PICK level : level = PatternSpecificity(pattern)
    OBVIOUS
  <1>2. PICK spec : spec = [r \in table |-> PatternSpecificity(r.pattern)]
    OBVIOUS
  <1>3. level \in Int /\ \A r \in table : spec[r] \in Int /\ r \in RuleRow
                                          /\ r.position \in Key /\ r.position # NoKey
    BY <1>1, <1>2, SpecificityIsNumber DEF RuleTable, RuleRow
  <1>4. PICK atMost : atMost = {r \in table : spec[r] <= level}
    OBVIOUS
  <1>5. PICK ahead : ahead = IF atMost = {} THEN table
                             ELSE {r \in table : ComparePolicyRow(r, Foremost(atMost))}
    OBVIOUS
  <1>6. /\ n.prev = IF ahead = {} THEN NoKey ELSE Hindmost(ahead).position
        /\ n.next = IF atMost = {} THEN NoKey ELSE Foremost(atMost).position
    <2>1. atMost = {r \in table : PatternSpecificity(r.pattern) <= PatternSpecificity(pattern)}
      BY <1>1, <1>2, <1>4
    <2>2. QED
      BY <1>5, <2>1 DEF Neighbours
  <1>7. RuleTable(atMost) /\ RuleTable(ahead)
    BY <1>4, <1>5, FS_Subset DEF RuleTable
  <1>8. \A r \in table : spec[r] > level => r \in ahead
    <2>1. ASSUME NEW r \in table, spec[r] > level, atMost # {}
          PROVE  ComparePolicyRow(r, Foremost(atMost))
      <3>1. Foremost(atMost) \in atMost
        BY <1>7, <2>1, TablesHaveEnds
      <3>2. PICK f \in table : f = Foremost(atMost) /\ spec[f] <= level
        BY <1>4, <3>1
      <3>3. spec[r] > spec[f]
        BY <1>3, <2>1, <3>2
      <3>4. QED
        BY <1>2, <3>2, <3>3 DEF SortedRules
    <2>2. QED
      BY <1>5, <2>1
  <1>9. ASSUME NEW r \in table, spec[r] > level PROVE KeyLess(r.position, key)
    <2>1. r \in ahead
      BY <1>8, <1>9
    <2>2. PICK h \in table : h = Hindmost(ahead) /\ (r = h \/ ComparePolicyRow(r, h))
      BY <1>5, <1>7, <2>1, TablesHaveEnds
    <2>3. n.prev = h.position /\ n.prev # NoKey
      BY <1>3, <1>6, <2>1, <2>2
    <2>4. KeyLess(h.position, key)
      BY <2>3 DEF StrictlyBetween
    <2>5. r.position = h.position \/ KeyLess(r.position, h.position)
      BY <2>2 DEF ComparePolicyRow
    <2>6. QED
      BY <1>3, <2>4, <2>5, KeysAreTransitive
  <1>10. ASSUME NEW r \in table, spec[r] < level PROVE KeyLess(key, r.position)
    <2>1. r \in atMost
      BY <1>3, <1>4, <1>10
    <2>2. PICK f \in table : f = Foremost(atMost) /\ (r = f \/ ComparePolicyRow(f, r))
      BY <1>4, <1>7, <2>1, TablesHaveEnds
    <2>3. n.next = f.position /\ n.next # NoKey
      BY <1>3, <1>6, <2>1, <2>2
    <2>4. KeyLess(key, f.position)
      BY <2>3 DEF StrictlyBetween
    <2>5. r.position = f.position \/ KeyLess(f.position, r.position)
      BY <2>2 DEF ComparePolicyRow
    <2>6. QED
      BY <1>3, <2>4, <2>5, KeysAreTransitive
  <1>11. QED
    BY <1>1, <1>2, <1>9, <1>10

(* The position of a new rule is a key, in any table.                      *)
LEMMA NeighboursAreKeys ==
  ASSUME NEW table, RuleTable(table), NEW pattern
  PROVE  PositionForNewPattern(pattern, table) \in Key \ {NoKey}
  <1>1. PICK atMost : atMost = {r \in table :
                PatternSpecificity(r.pattern) <= PatternSpecificity(pattern)}
    OBVIOUS
  <1>2. PICK ahead : ahead = IF atMost = {} THEN table
                             ELSE {r \in table : ComparePolicyRow(r, Foremost(atMost))}
    OBVIOUS
  <1>3. PICK n : n = Neighbours(pattern, table)
    OBVIOUS
  <1>4. /\ n.prev = IF ahead = {} THEN NoKey ELSE Hindmost(ahead).position
        /\ n.next = IF atMost = {} THEN NoKey ELSE Foremost(atMost).position
    BY <1>1, <1>2, <1>3 DEF Neighbours
  <1>5. RuleTable(atMost) /\ RuleTable(ahead)
    BY <1>1, <1>2, FS_Subset DEF RuleTable
  <1>6. ahead # {} => Hindmost(ahead) \in table
    BY <1>2, <1>5, TablesHaveEnds
  <1>7. atMost # {} => Foremost(atMost) \in table
    BY <1>1, <1>5, TablesHaveEnds
  <1>8. \A r \in table : r.position \in Key
    BY DEF RuleTable, RuleRow
  <1>9. NoKey \in Key
    BY DEF Key, NoKey
  <1>10. n.prev \in Key /\ n.next \in Key
    BY <1>4, <1>6, <1>7, <1>8, <1>9
  <1>11. PositionForNewPattern(pattern, table) = GenerateKeyBetween(n.prev, n.next)
    BY <1>3 DEF PositionForNewPattern
  <1>12. QED
    BY <1>10, <1>11, NewKeys

(* What an editor is about to put fits what it has read: a new rule goes   *)
(* between the neighbours it had, an update keeps what it was not given.   *)
PutFits(put) ==
    \/ put = NoPut
    \/ /\ put.row \in RuleRow /\ RuleTable(put.seen)
       /\ \/ /\ put.kind = "create"
             /\ put.edit = [pattern |-> put.row.pattern, action |-> put.row.action]
             /\ put.row.pattern # Keep
             /\ put.between = Neighbours(put.row.pattern, RulesOf(put.row.owner, put.seen))
             /\ put.row.owner \notin unsorted
                  => SortedRules(RulesOf(put.row.owner, put.seen))
          \/ /\ put.kind = "update" /\ put.edit \in Edit
             /\ \E row \in put.seen : put.row = Edited(row, put.edit)

PoliciesInv ==
    /\ RuleTable(policies) /\ clock \in Nat
    /\ editing = [e \in Editor |-> editing[e]]
    /\ \A e \in Editor : PutFits(editing[e])
    /\ EditsStandInOrder

(* The rules of an owner whose order was not disturbed are sorted.         *)
LEMMA OwnersAreSorted ==
  ASSUME MostSpecificFirst, NEW owner, owner \notin unsorted
  PROVE  SortedRules(RulesOf(owner, policies))
  BY DEF MostSpecificFirst, SortedRules, RulesOf

(* An editor fits as it begins, and until it puts.                         *)
LEMMA NewPutFits ==
  ASSUME RuleTable(policies), MostSpecificFirst, clock \in Nat,
         NEW kind \in {"pol", "pol_persist"}, NEW owner \in PolicyOwner,
         NEW pattern \in Seq(STRING), pattern # Keep, NEW action \in PolicyAction
  PROVE  PutFits(NewPut(kind, owner, pattern, action))
  <1>1. PICK put : put = NewPut(kind, owner, pattern, action)
    OBVIOUS
  <1>2. RuleTable(RulesOf(owner, policies))
    BY FS_Subset DEF RuleTable, RulesOf
  <1>3. PositionForNewPattern(pattern, RulesOf(owner, policies)) \in Key \ {NoKey}
    BY <1>2, NeighboursAreKeys
  <1>4. PICK row \in RuleRow : /\ put.row = row /\ row.owner = owner /\ row.pattern = pattern
                               /\ row.action = action
    BY <1>1, <1>3 DEF NewPut, RuleRow, RuleId
  <1>5. /\ put.kind = "create" /\ put.edit = [pattern |-> pattern, action |-> action]
        /\ put.seen = policies /\ put.between = Neighbours(pattern, RulesOf(owner, policies))
    BY <1>1 DEF NewPut
  <1>6. PutFits(put)
    BY <1>4, <1>5, OwnersAreSorted DEF PutFits
  <1>7. QED
    BY <1>1, <1>6

(* An edit changes the pattern and the action it names, and nothing else.  *)
LEMMA EditedRuleIsRule ==
  ASSUME NEW row \in RuleRow, NEW edit \in Edit
  PROVE  LET new == Edited(row, edit)
         IN  /\ new \in RuleRow /\ new.id = row.id /\ new.owner = row.owner
             /\ new.position = row.position
             /\ new.pattern = IF edit.pattern = Keep THEN row.pattern ELSE edit.pattern
             /\ new.action = IF edit.action = Keep THEN row.action ELSE edit.action
  BY PoliciesAssumption DEF Edited, RuleRow

(* The records of single values are one record.                            *)
LEMMA OneAck ==
  ASSUME NEW id, NEW pattern, NEW action
  PROVE  [id : {id}, pattern : {pattern}, action : {action}]
           = {[id |-> id, pattern |-> pattern, action |-> action]}
  <1>1. [id |-> id, pattern |-> pattern, action |-> action]
          \in [id : {id}, pattern : {pattern}, action : {action}]
    OBVIOUS
  <1>2. ASSUME NEW p \in [id : {id}, pattern : {pattern}, action : {action}]
        PROVE  p = [id |-> id, pattern |-> pattern, action |-> action]
    <2>1. p = [id |-> p.id, pattern |-> p.pattern, action |-> p.action]
      OBVIOUS
    <2>2. p.id = id /\ p.pattern = pattern /\ p.action = action
      OBVIOUS
    <2>3. QED
      BY <2>1, <2>2
  <1>3. QED
    BY <1>1, <1>2

(* A put of a row: what is stored and acknowledged agree on every id that  *)
(* was not raced.                                                          *)
LEMMA PutIsAcked ==
  ASSUME PoliciesInv, NEW e \in Editor, PutPolicy(e)
  PROVE  AckedEditsStand'
  <1>1. PICK put : put = editing[e]
    OBVIOUS
  <1>2. /\ put # NoPut /\ PutFits(put)
        /\ policies' = (policies \ WithId(put.row.id, policies)) \cup {put.row}
        /\ promised' = Promise(put)
        /\ raced' = IF Stale(put) \/ Reuses(put) THEN raced \cup {put.row.id} ELSE raced
    BY <1>1 DEF PutPolicy, PoliciesInv
  <1>3. PICK id : id = put.row.id
    OBVIOUS
  <1>4. PICK ack : ack = [r \in RuleRow |->
                 [id |-> r.id, pattern |-> r.pattern, action |-> r.action]]
    OBVIOUS
  <1>5. put.row \in RuleRow /\ policies \subseteq RuleRow /\ RuleTable(put.seen)
    BY <1>2 DEF PutFits, PoliciesInv, RuleTable
  <1>6. /\ {p \in promised : p.id \notin raced} = {ack[r] : r \in {q \in policies : q.id \notin raced}}
        /\ \A r, s \in policies : r.id = s.id => r = s
    BY <1>4, <1>5 DEF PoliciesInv, EditsStandInOrder, AckedEditsStand, RuleTable
  <1>7. \A r \in policies \cup {put.row} : ack[r].id = r.id
    BY <1>4, <1>5
  <1>8. PICK old, fresh :
           /\ old = {p \in promised : p.id = id}
           /\ promised' = (promised \ old) \cup fresh
           /\ fresh = [id : {id},
                       pattern : IF put.edit.pattern # Keep THEN {put.edit.pattern}
                                 ELSE {p.pattern : p \in old},
                       action : IF put.edit.action # Keep THEN {put.edit.action}
                                ELSE {p.action : p \in old}]
    BY <1>2, <1>3 DEF Promise
  <1>9. \A p \in fresh : p.id = id
    BY <1>8
  <1>10. CASE id \in raced'
    <2>1. {p \in promised' : p.id \notin raced'} = {p \in promised : p.id \notin raced'}
      BY <1>8, <1>9, <1>10
    <2>2. {q \in policies' : q.id \notin raced'} = {q \in policies : q.id \notin raced'}
      BY <1>2, <1>3, <1>10 DEF WithId
    <2>3. raced \subseteq raced'
      BY <1>2
    <2>4. {p \in promised : p.id \notin raced'} = {ack[r] : r \in {q \in policies : q.id \notin raced'}}
      BY <1>6, <1>7, <2>3
    <2>5. \A r \in policies' : r \in RuleRow
      BY <1>2, <1>5
    <2>6. QED
      BY <1>4, <2>1, <2>2, <2>4, <2>5 DEF AckedEditsStand
  <1>11. CASE id \notin raced'
    <2>1. raced' = raced /\ ~Stale(put) /\ ~Reuses(put) /\ id \notin raced
      BY <1>2, <1>3, <1>11
    <2>2. fresh = {ack[put.row]}
      <3>1. CASE put.kind = "create"
        <4>1. /\ put.edit.pattern = put.row.pattern /\ put.edit.action = put.row.action
              /\ put.row.pattern # Keep /\ put.row.action # Keep
          BY <1>2, <3>1, PoliciesAssumption DEF PutFits, RuleRow
        <4>2. fresh = [id : {id}, pattern : {put.row.pattern}, action : {put.row.action}]
          BY <1>8, <4>1
        <4>3. QED
          BY <1>3, <1>4, <1>5, <4>2, OneAck
      <3>2. CASE put.kind # "create"
        <4>1. PICK row \in put.seen : put.row = Edited(row, put.edit) /\ put.edit \in Edit
          BY <1>2, <3>2 DEF PutFits
        <4>2. row \in RuleRow
          BY <1>5 DEF RuleTable
        <4>3. /\ put.row.id = row.id
              /\ put.row.pattern = IF put.edit.pattern = Keep THEN row.pattern ELSE put.edit.pattern
              /\ put.row.action = IF put.edit.action = Keep THEN row.action ELSE put.edit.action
          BY <4>1, <4>2, EditedRuleIsRule
        <4>4. row \in policies
          BY <2>1, <4>3 DEF Stale, WithId
        <4>5. old = {ack[row]}
          BY <1>3, <1>6, <1>7, <1>8, <2>1, <4>3, <4>4
        <4>6. ack[row].pattern = row.pattern /\ ack[row].action = row.action
          BY <1>4, <4>2
        <4>7. {p.pattern : p \in old} = {row.pattern} /\ {p.action : p \in old} = {row.action}
          BY <4>5, <4>6
        <4>8. fresh = [id : {id}, pattern : {put.row.pattern}, action : {put.row.action}]
          BY <1>8, <4>3, <4>7
        <4>9. QED
          BY <1>3, <1>4, <1>5, <4>8, OneAck
      <3>3. QED
        BY <3>1, <3>2
    <2>3. {p \in promised' : p.id \notin raced}
            = {p \in promised : p.id \notin raced /\ p.id # id} \cup {ack[put.row]}
      BY <1>3, <1>7, <1>8, <2>1, <2>2
    <2>4. {q \in policies' : q.id \notin raced}
            = {q \in policies : q.id \notin raced /\ q.id # id} \cup {put.row}
      BY <1>2, <1>3, <2>1 DEF WithId
    <2>5. {p \in promised : p.id \notin raced /\ p.id # id}
            = {ack[r] : r \in {q \in policies : q.id \notin raced /\ q.id # id}}
      BY <1>6, <1>7
    <2>6. \A r \in policies' : r \in RuleRow
      BY <1>2, <1>5
    <2>7. {p \in promised' : p.id \notin raced'} = {ack[r] : r \in {q \in policies' : q.id \notin raced'}}
      BY <2>1, <2>3, <2>4, <2>5
    <2>8. QED
      BY <1>4, <2>6, <2>7 DEF AckedEditsStand
  <1>12. QED
    BY <1>10, <1>11

(* A put leaves the rules of an owner sorted, unless it disturbs them.     *)
LEMMA PutIsSorted ==
  ASSUME PoliciesInv, NEW e \in Editor, PutPolicy(e)
  PROVE  RuleTable(policies') /\ MostSpecificFirst'
  <1>1. PICK put : put = editing[e]
    OBVIOUS
  <1>2. /\ put # NoPut /\ PutFits(put)
        /\ policies' = (policies \ WithId(put.row.id, policies)) \cup {put.row}
        /\ unsorted' = IF Disturbs(put) THEN unsorted \cup {put.row.owner} ELSE unsorted
    BY <1>1 DEF PutPolicy, PoliciesInv
  <1>3. PICK row \in RuleRow : row = put.row
    BY <1>2 DEF PutFits
  <1>4. PICK kept : /\ kept = {q \in policies : q.id # row.id}
                    /\ policies' = kept \cup {row}
    BY <1>2, <1>3 DEF WithId
  <1>5. /\ policies \subseteq RuleRow /\ IsFiniteSet(policies)
        /\ \A r, s \in policies : r.id = s.id => r = s
    BY DEF PoliciesInv, RuleTable
  <1>6. RuleTable(policies')
    <2>1. IsFiniteSet(kept)
      BY <1>4, <1>5, FS_Subset
    <2>2. IsFiniteSet(policies')
      BY <1>4, <2>1, FS_AddElement
    <2>3. QED
      BY <1>4, <1>5, <2>2 DEF RuleTable
  <1>7. ASSUME NEW r \in policies', NEW s \in policies',
               r.owner = s.owner, r.owner \notin unsorted',
               PatternSpecificity(r.pattern) > PatternSpecificity(s.pattern)
        PROVE  ComparePolicyRow(r, s)
    <2>1. r.owner \notin unsorted
      BY <1>2, <1>7
    <2>2. CASE r \in kept /\ s \in kept
      BY <1>4, <1>7, <2>1, <2>2 DEF PoliciesInv, EditsStandInOrder, MostSpecificFirst
    <2>3. CASE r = row /\ s = row
      BY <1>3, <1>7, <2>3, SpecificityIsNumber DEF RuleRow
    <2>4. CASE (r = row \/ s = row) /\ (r \in kept \/ s \in kept)
      <3>1. row.owner = r.owner /\ ~Disturbs(put)
        BY <1>2, <1>3, <1>7, <2>4
      <3>2. CASE put.kind = "create"
        <4>1. PICK table : table = RulesOf(row.owner, put.seen)
          OBVIOUS
        <4>2. RuleTable(table) /\ SortedRules(table)
          <5>1. RuleTable(put.seen)
            BY <1>2 DEF PutFits
          <5>2. RuleTable(table)
            BY <4>1, <5>1, FS_Subset DEF RuleTable, RulesOf
          <5>3. QED
            BY <1>2, <1>3, <2>1, <3>1, <3>2, <4>1, <5>2 DEF PutFits
        <4>3. PICK n : n = put.between /\ n = Neighbours(row.pattern, table)
          BY <1>2, <1>3, <3>2, <4>1 DEF PutFits
        <4>4. StrictlyBetween(n.prev, row.position, n.next)
          BY <1>3, <3>1, <3>2, <4>3 DEF Disturbs
        <4>5. \A q \in kept : q.owner = row.owner => q \in table
          BY <1>3, <1>4, <3>1, <3>2, <4>1 DEF Disturbs, RulesOf
        <4>6. row.pattern \in Seq(STRING) /\ row.position \in Key
          BY DEF RuleRow
        <4>7. /\ \A q \in table : PatternSpecificity(q.pattern) > PatternSpecificity(row.pattern)
                                    => KeyLess(q.position, row.position)
              /\ \A q \in table : PatternSpecificity(q.pattern) < PatternSpecificity(row.pattern)
                                    => KeyLess(row.position, q.position)
          BY <4>2, <4>3, <4>4, <4>6, NeighboursSeparate
        <4>8. CASE r = row /\ s \in kept
          <5>1. s \in table /\ PatternSpecificity(s.pattern) < PatternSpecificity(row.pattern)
            <6>1. s \in table /\ s.pattern \in Seq(STRING)
              BY <1>4, <1>5, <1>7, <3>1, <4>5, <4>8 DEF RuleRow
            <6>2. QED
              BY <1>7, <4>6, <4>8, <6>1, SpecificityIsNumber
          <5>2. QED
            BY <4>7, <4>8, <5>1 DEF ComparePolicyRow
        <4>9. CASE s = row /\ r \in kept
          BY <1>7, <3>1, <4>5, <4>7, <4>9 DEF ComparePolicyRow
        <4>10. QED
          BY <1>4, <2>4, <4>8, <4>9
      <3>3. CASE put.kind = "update"
        <4>1. PICK read \in put.seen : row = Edited(read, put.edit) /\ put.edit \in Edit
          BY <1>2, <1>3, <3>3 DEF PutFits
        <4>2. read \in RuleRow /\ put.edit.pattern = Keep
          <5>1. RuleTable(put.seen)
            BY <1>2 DEF PutFits
          <5>2. QED
            BY <3>1, <3>3, <5>1 DEF RuleTable, Disturbs
        <4>3. /\ row.id = read.id /\ row.owner = read.owner /\ row.pattern = read.pattern
              /\ row.position = read.position
          BY <4>1, <4>2, EditedRuleIsRule
        <4>4. ~Stale(put)
          BY <3>1, <3>3 DEF Disturbs
        <4>5. read \in policies
          BY <1>3, <4>3, <4>4 DEF Stale, WithId
        <4>6. \A q \in kept : /\ ComparePolicyRow(q, row) <=> ComparePolicyRow(q, read)
                              /\ ComparePolicyRow(row, q) <=> ComparePolicyRow(read, q)
          BY <4>3 DEF ComparePolicyRow
        <4>7. \A q \in kept : q \in policies
          BY <1>4
        <4>8. CASE r = row /\ s \in kept
          <5>1. ComparePolicyRow(read, s)
            BY <1>7, <2>1, <4>3, <4>5, <4>7, <4>8
               DEF PoliciesInv, EditsStandInOrder, MostSpecificFirst
          <5>2. QED
            BY <4>6, <4>8, <5>1
        <4>9. CASE s = row /\ r \in kept
          <5>1. ComparePolicyRow(r, read)
            BY <1>7, <2>1, <4>3, <4>5, <4>7, <4>9
               DEF PoliciesInv, EditsStandInOrder, MostSpecificFirst
          <5>2. QED
            BY <4>6, <4>9, <5>1
        <4>10. QED
          BY <1>4, <2>4, <4>8, <4>9
      <3>4. QED
        BY <1>2, <3>2, <3>3 DEF PutFits
    <2>5. QED
      BY <1>4, <2>2, <2>3, <2>4
  <1>8. QED
    BY <1>6, <1>7 DEF MostSpecificFirst

(* What is stored of rules, edits and history as another editor begins.    *)
LEMMA EditorBegins ==
  ASSUME PoliciesInv, NEW e \in Editor, NEW put, PutFits(put),
         editing' = [editing EXCEPT ![e] = put],
         UNCHANGED <<policies, clock, promised, raced, unsorted>>
  PROVE  PoliciesInv'
  <1>1. \A x \in Editor : PutFits(editing'[x])
    BY DEF PoliciesInv
  <1>2. \A x \in Editor : PutFits(editing[x])'
    BY <1>1 DEF PutFits
  <1>3. EditsStandInOrder'
    BY DEF PoliciesInv, EditsStandInOrder, MostSpecificFirst, AckedEditsStand
  <1>4. RuleTable(policies)' /\ clock' \in Nat /\ editing' = [x \in Editor |-> editing'[x]]
    BY DEF PoliciesInv, RuleTable
  <1>5. QED
    BY <1>2, <1>3, <1>4 DEF PoliciesInv

(* Whatever requests begin, put and remove, in whatever order: the rules   *)
(* of an owner stay sorted, and what was acknowledged is what is stored.   *)
LEMMA PoliciesHold == PoliciesSpec => []PoliciesInv
  <1>1. PoliciesInit => PoliciesInv
    BY FS_EmptySet DEF PoliciesInit, PoliciesInv, RuleTable, PutFits, EditsStandInOrder,
       MostSpecificFirst, AckedEditsStand
  <1>2. ASSUME PoliciesInv, [PoliciesNext]_allPolicyVars PROVE PoliciesInv'
    <2>0. RuleTable(policies) /\ MostSpecificFirst /\ clock \in Nat
      BY <1>2 DEF PoliciesInv, EditsStandInOrder
    <2>1. ASSUME NEW e \in Editor, PoliciesCreate(e) PROVE PoliciesInv'
      <3>1. PICK r \in NewRule :
               editing' = [editing EXCEPT ![e] = NewPut("pol", r.owner, r.pattern, r.action)]
        BY <2>1 DEF PoliciesCreate
      <3>2. PutFits(NewPut("pol", r.owner, r.pattern, r.action))
        <4>1. /\ r.owner \in PolicyOwner /\ r.action \in PolicyAction
              /\ r.pattern \in Seq(STRING) /\ r.pattern # Keep
          BY PoliciesAssumption
        <4>2. QED
          BY <2>0, <4>1, NewPutFits
      <3>3. UNCHANGED <<policies, clock, promised, raced, unsorted>>
        BY <2>1 DEF PoliciesCreate, policyHistory
      <3>4. QED
        BY <1>2, <3>1, <3>2, <3>3, EditorBegins
    <2>2. ASSUME NEW e \in Editor, PoliciesUpdate(e) PROVE PoliciesInv'
      <3>1. PICK row \in policies, edit \in Edit :
               editing' = [editing EXCEPT ![e] =
                 [kind |-> "update", row |-> Edited(row, edit), edit |-> edit, seen |-> policies]]
        BY <2>2 DEF PoliciesUpdate
      <3>2. PutFits([kind |-> "update", row |-> Edited(row, edit), edit |-> edit,
                     seen |-> policies])
        <4>1. Edited(row, edit) \in RuleRow
          BY <2>0, EditedRuleIsRule DEF RuleTable
        <4>2. QED
          BY <2>0, <4>1 DEF PutFits
      <3>3. UNCHANGED <<policies, clock, promised, raced, unsorted>>
        BY <2>2 DEF PoliciesUpdate, policyHistory
      <3>4. QED
        BY <1>2, <3>1, <3>2, <3>3, EditorBegins
    <2>3. ASSUME NEW e \in Editor, PersistAlways(e) PROVE PoliciesInv'
      <3>0. PICK path \in ToolPath : \E stored \in PausedPaths(path) :
               editing' = [editing EXCEPT ![e] =
                 NewPut("pol_persist", "org", stored, "approve")]
        BY <2>3 DEF PersistAlways
      <3>1. PICK stored \in PausedPaths(path) :
               editing' = [editing EXCEPT ![e] =
                 NewPut("pol_persist", "org", stored, "approve")]
        BY <3>0
      <3>2. PutFits(NewPut("pol_persist", "org", stored, "approve"))
        <4>1. stored \in Seq(STRING) /\ stored # Keep
          BY PoliciesAssumption
        <4>2. "org" \in PolicyOwner /\ "approve" \in PolicyAction
          BY DEF PolicyOwner, PolicyAction
        <4>3. QED
          BY <2>0, <4>1, <4>2, NewPutFits
      <3>3. UNCHANGED <<policies, clock, promised, raced, unsorted>>
        BY <2>3 DEF PersistAlways
      <3>4. QED
        BY <1>2, <3>1, <3>2, <3>3, EditorBegins
    <2>4. ASSUME NEW e \in Editor, PutPolicy(e) PROVE PoliciesInv'
      <3>1. RuleTable(policies') /\ MostSpecificFirst' /\ AckedEditsStand'
        BY <1>2, <2>4, PutIsSorted, PutIsAcked
      <3>2. /\ editing' = [editing EXCEPT ![e] = NoPut] /\ unsorted \subseteq unsorted'
            /\ clock' = clock
        BY <2>4 DEF PutPolicy
      <3>3. ASSUME NEW x \in Editor PROVE PutFits(editing[x])'
        <4>1. editing'[x] = NoPut \/ editing'[x] = editing[x]
          BY <1>2, <3>2 DEF PoliciesInv
        <4>2. CASE editing'[x] = NoPut
          BY <4>2 DEF PutFits
        <4>3. CASE editing'[x] = editing[x]
          <5>1. PutFits(editing[x])
            BY <1>2 DEF PoliciesInv
          <5>2. QED
            BY <3>2, <4>3, <5>1 DEF PutFits
        <4>4. QED
          BY <4>1, <4>2, <4>3
      <3>4. editing' = [x \in Editor |-> editing'[x]]
        BY <1>2, <3>2 DEF PoliciesInv
      <3>5. RuleTable(policies)'
        BY <3>1 DEF RuleTable
      <3>6. QED
        BY <2>0, <3>1, <3>2, <3>3, <3>4, <3>5 DEF PoliciesInv, EditsStandInOrder
    <2>5. CASE PoliciesRemove
      <3>1. PICK row \in policies :
               /\ policies' = {q \in policies : q.id # row.id}
               /\ promised' = {p \in promised : p.id # row.id}
        BY <2>5 DEF PoliciesRemove, WithId
      <3>2. UNCHANGED <<editing, clock, raced, unsorted>>
        BY <2>5 DEF PoliciesRemove
      <3>3. RuleTable(policies')
        BY <2>0, <3>1, FS_Subset DEF RuleTable
      <3>4. RuleTable(policies)' /\ MostSpecificFirst'
        BY <2>0, <3>1, <3>2, <3>3 DEF RuleTable, MostSpecificFirst
      <3>5. AckedEditsStand'
        <4>1. {p \in promised : p.id \notin raced} =
              {[id |-> r.id, pattern |-> r.pattern, action |-> r.action] :
                 r \in {q \in policies : q.id \notin raced}}
          BY <1>2 DEF PoliciesInv, EditsStandInOrder, AckedEditsStand
        <4>2. QED
          BY <3>1, <3>2, <4>1 DEF AckedEditsStand
      <3>6. \A x \in Editor : PutFits(editing[x])'
        BY <1>2, <3>2 DEF PoliciesInv, PutFits
      <3>7. QED
        BY <1>2, <3>2, <3>4, <3>5, <3>6 DEF PoliciesInv, EditsStandInOrder
    <2>6. CASE PersistSession \/ PoliciesTick \/ UNCHANGED allPolicyVars
      <3>1. UNCHANGED <<policies, editing, promised, raced, unsorted>> /\ clock' \in Nat
        BY <2>0, <2>6 DEF PersistSession, PoliciesTick, allPolicyVars, policyVars, policyHistory
      <3>2. RuleTable(policies)' /\ \A x \in Editor : PutFits(editing[x])'
        BY <1>2, <3>1 DEF PoliciesInv, RuleTable, PutFits
      <3>3. EditsStandInOrder'
        BY <1>2, <3>1 DEF PoliciesInv, EditsStandInOrder, MostSpecificFirst, AckedEditsStand
      <3>4. QED
        BY <1>2, <3>1, <3>2, <3>3 DEF PoliciesInv
    <2>7. QED
      BY <1>2, <2>1, <2>2, <2>3, <2>4, <2>5, <2>6 DEF PoliciesNext
  <1>3. QED
    BY <1>1, <1>2, PTL DEF PoliciesSpec

(* Edits of rules stand, and in the order of their patterns: what was      *)
(* acknowledged is what is stored, and a tool's first match is its most    *)
(* specific one, where no two edits disturbed each other.                  *)
THEOREM PolicyEditsStand == PoliciesSpec => []EditsStandInOrder
  <1>1. PoliciesInv => EditsStandInOrder
    BY DEF PoliciesInv
  <1>2. QED
    BY <1>1, PoliciesHold, PTL

(* A path once accepted, at either of the two writes of its pause, is      *)
(* stored in a form the gate looks up, and no approval is ever taken back  *)
(* (persist_outcome, resume_gated, apply_persist and gate).                *)
THEOREM AcceptedStays == PoliciesSpec => []AcceptedIsNotAskedAgain
  <1> DEFINE Inv == \A path \in accepted : PausedPaths(path) \cap approvals # {}
  <1>1. PoliciesInit => Inv
    BY DEF PoliciesInit
  <1>2. ASSUME Inv, [PoliciesNext]_allPolicyVars PROVE Inv'
    <2>1. CASE \E e \in Editor : PersistAlways(e)
      <3>1. PICK path \in ToolPath : \E stored \in PausedPaths(path) :
              approvals' = approvals \cup {stored} /\ accepted' = accepted \cup {path}
        BY <2>1 DEF PersistAlways
      <3>2. \A q : PausedPaths(q)' = PausedPaths(q)
        BY DEF PausedPaths, InvokePath
      <3> QED BY <1>2, <3>1, <3>2
    <2>2. CASE PersistSession
      <3>1. PICK path \in ToolPath : \E stored \in PausedPaths(path) :
              approvals' = approvals \cup {stored} /\ accepted' = accepted \cup {path}
        BY <2>2 DEF PersistSession
      <3>2. \A q : PausedPaths(q)' = PausedPaths(q)
        BY DEF PausedPaths, InvokePath
      <3> QED BY <1>2, <3>1, <3>2
    <2>3. CASE UNCHANGED <<accepted, approvals>>
      BY <1>2, <2>3 DEF PausedPaths, InvokePath
    <2>4. QED
      BY <1>2, <2>1, <2>2, <2>3
         DEF PoliciesNext, PoliciesCreate, PoliciesUpdate, PutPolicy, PoliciesRemove,
             PoliciesTick, allPolicyVars, policyVars, policyHistory
  <1>3. Inv => AcceptedIsNotAskedAgain
    BY DEF AcceptedIsNotAskedAgain, Verdict, SessionApproved, PausedPaths
  <1> HIDE DEF Inv
  <1>4. QED
    BY <1>1, <1>2, <1>3, PTL DEF PoliciesSpec

(* An owner's first matches are rules, and no other owner's rules change   *)
(* them.                                                                   *)
LEMMA FirstsAreRules ==
  ASSUME NEW table, RuleTable(table), NEW path
  PROVE  /\ FirstByOwner(path, table) \subseteq RuleRow
         /\ FirstByOwner(path, RulesOf("org", table)) =
              {r \in FirstByOwner(path, table) : r.owner = "org"}
  BY DEF FirstByOwner, RulesOf, RuleTable

(* Of the rules that match, one is the most restrictive.                   *)
LEMMA OneIsMoreRestrictive ==
  ASSUME NEW matches, matches \subseteq RuleRow, matches # {}
  PROVE  /\ MoreRestrictive(matches) \in matches
         /\ \A r \in matches : RestrictionRank(r.action)
                                 <= RestrictionRank(MoreRestrictive(matches).action)
  <1>1. \A r \in matches : /\ RestrictionRank(r.action) \in 1..3
                           /\ OuterRank(r.owner) \in 0..1
    BY DEF RuleRow, PolicyAction, PolicyOwner, RestrictionRank, OuterRank
  <1> DEFINE weight(r) == 2 * (3 - RestrictionRank(r.action)) + OuterRank(r.owner)
             weights == {weight(r) : r \in matches}
  <1>2. weights \in SUBSET Nat /\ weights # {}
    BY <1>1
  <1>3. PICK n \in weights : \A m \in weights : n <= m
    BY <1>2, LeastNumber
  <1>4. PICK r \in matches : weight(r) = n
    BY <1>3
  <1>5. ASSUME NEW s \in matches
        PROVE  \/ RestrictionRank(s.action) < RestrictionRank(r.action)
               \/ /\ RestrictionRank(s.action) = RestrictionRank(r.action)
                  /\ OuterRank(r.owner) <= OuterRank(s.owner)
    <2>1. weight(r) <= weight(s)
      BY <1>3, <1>4
    <2>2. /\ RestrictionRank(s.action) \in 1..3 /\ OuterRank(s.owner) \in 0..1
          /\ RestrictionRank(r.action) \in 1..3 /\ OuterRank(r.owner) \in 0..1
      BY <1>1
    <2>3. QED
      BY <2>1, <2>2
  <1>6. /\ MoreRestrictive(matches) \in matches
        /\ \A s \in matches :
             \/ RestrictionRank(s.action) < RestrictionRank(MoreRestrictive(matches).action)
             \/ RestrictionRank(s.action) = RestrictionRank(MoreRestrictive(matches).action)
    BY <1>5 DEF MoreRestrictive
  <1>7. QED
    BY <1>1, <1>6

(* A block of the organisation holds whatever other rules there are.       *)
LEMMA BlocksHold ==
  ASSUME NEW before, RuleTable(before), NEW after, RuleTable(after), NEW path,
         RulesOf("org", after) = RulesOf("org", before),
         EffectivePolicy(path, RulesOf("org", before)) = "block"
  PROVE  EffectivePolicy(path, after) = "block"
  <1>1. PICK org, all : /\ org = FirstByOwner(path, RulesOf("org", before))
                        /\ all = FirstByOwner(path, after)
    OBVIOUS
  <1>2. org \subseteq all /\ all \subseteq RuleRow
    BY <1>1, FirstsAreRules
  <1>3. org # {} /\ MoreRestrictive(org).action = "block"
    BY <1>1 DEF EffectivePolicy
  <1>4. PICK r \in org : r.action = "block"
    BY <1>2, <1>3, OneIsMoreRestrictive
  <1>5. PICK m \in all : m = MoreRestrictive(all)
                         /\ RestrictionRank(r.action) <= RestrictionRank(m.action)
    BY <1>2, <1>4, OneIsMoreRestrictive
  <1>6. m.action = "block"
    BY <1>2, <1>4, <1>5 DEF RuleRow, PolicyAction, RestrictionRank
  <1>7. QED
    BY <1>1, <1>5, <1>6 DEF EffectivePolicy

(* No step that leaves the organisation's rules alone takes a tool from    *)
(* behind their block, whatever users write.                               *)
THEOREM BlocksStand == PoliciesSpec => OuterBlockStands
  <1>1. ASSUME PoliciesInv, PoliciesInv', NEW path \in ToolPath,
               RulesOf("org", policies') = RulesOf("org", policies),
               EffectivePolicy(path, RulesOf("org", policies)) = "block"
        PROVE  EffectivePolicy(path, policies') = "block"
    <2>1. RuleTable(policies) /\ RuleTable(policies')
      BY <1>1 DEF PoliciesInv, RuleTable
    <2>2. QED
      BY <1>1, <2>1, BlocksHold
  <1>2. PoliciesInv /\ PoliciesInv' =>
          \A path \in ToolPath :
            (/\ RulesOf("org", policies') = RulesOf("org", policies)
             /\ EffectivePolicy(path, RulesOf("org", policies)) = "block")
            => EffectivePolicy(path, policies') = "block"
    BY <1>1
  <1>3. QED
    BY <1>2, PoliciesHold, PTL DEF OuterBlockStands

-----------------------------------------------------------------------------
(* Sessions *)

(* The options a client can have.                                          *)
Suits(c, opts) ==
    /\ opts \in McpOptions
    /\ opts.elicitation = Url[c].elicitation /\ opts.search = Url[c].search
    /\ IF Url[c].mode # Nil THEN opts.mode = Url[c].mode
       ELSE opts.mode = "passthrough" <=> opts.toolkit # Nil
    /\ Url[c].slug = Nil => opts = McpOpts(Url[c])

(* Sessions keep options of the client that made them, and with a toolkit  *)
(* if there was one; a client without a toolkit in its URL was shown the   *)
(* tools of its only options.                                              *)
SessionsInv ==
    /\ toolkits \in [Slug -> Scope]
    /\ DOMAIN hub = Session /\ nextSession \in Nat \ {0}
    /\ scopedOnce \in SUBSET Session
    /\ \A i \in Session : nextSession <= i => i \notin scopedOnce
    /\ \A i \in scopedOnce : hub[i] # Nil => hub[i].toolkit # Nil
    /\ DOMAIN sid = Client
    /\ \A c \in Client : sid[c] # Nil =>
         /\ sid[c] \in Session /\ sid[c] < nextSession
         /\ hub[sid[c]] # Nil => Suits(c, hub[sid[c]])
    /\ DOMAIN listed = Client
    /\ \A c \in Client : Url[c].slug = Nil => listed[c] \subseteq ListTools(McpOpts(Url[c]))
    /\ AnswersFollowTheUrl

(* The options of a URL suit its client.                                   *)
LEMMA UrlSuits ==
  ASSUME NEW c \in Client PROVE Suits(c, McpOpts(Url[c]))
  BY McpAssumption DEF Suits, McpOpts, McpOptions, Scope

(* So do those of every request, and they have the toolkit that was found. *)
LEMMA DispatchSuits ==
  ASSUME SessionsInv, NEW c \in Client, NEW toolkit \in ToolkitBySlug(c)
  PROVE  /\ Suits(c, DispatchOpts(c, toolkit))
         /\ toolkit \in Scope
         /\ toolkit # Nil =>
              /\ DispatchOpts(c, toolkit).toolkit = toolkit
              /\ Url[c].mode = Nil => DispatchOpts(c, toolkit).mode = "passthrough"
  <1>1. Suits(c, ResolveOpts(c))
    BY UrlSuits DEF ResolveOpts, SessionsInv
  <1>2. toolkit \in Scope /\ (Url[c].slug = Nil => toolkit = Nil)
    BY McpAssumption DEF ToolkitBySlug, Scope, SessionsInv
  <1>3. CASE toolkit = Nil
    BY <1>1, <1>2, <1>3 DEF DispatchOpts
  <1>4. CASE toolkit # Nil
    BY <1>1, <1>2, <1>4 DEF DispatchOpts, Suits, McpOptions
  <1> QED BY <1>3, <1>4

(* A session that began with a toolkit keeps its client from answers       *)
(* without one.                                                            *)
LEMMA NotWidened ==
  ASSUME SessionsInv, NEW c \in Client, NEW toolkit \in ToolkitBySlug(c)
  PROVE  ~ /\ Url[c].slug # Nil /\ DispatchOpts(c, toolkit).toolkit = Nil
           /\ sid[c] \in scopedOnce /\ hub[sid[c]] # Nil
  <1> SUFFICES ASSUME DispatchOpts(c, toolkit).toolkit = Nil, sid[c] \in scopedOnce,
                      hub[sid[c]] # Nil
               PROVE  FALSE
    OBVIOUS
  <1>1. toolkit = Nil
    BY DispatchSuits
  <1>2. sid[c] # Nil
    BY McpAssumption DEF SessionsInv, Session
  <1> QED BY <1>1, <1>2 DEF DispatchOpts, ResolveOpts, SessionsInv

(* An answer to a request: in options and scope it is what the URL asks.   *)
LEMMA AnswerFollows ==
  ASSUME SessionsInv, NEW c \in Client, NEW toolkit \in ToolkitBySlug(c), NEW name, NEW known,
         Answer(c, DispatchOpts(c, toolkit), toolkit, name, known),
         \/ name \in {"initialize", "tools/list"} /\ known = TRUE
         \/ name \in listed[c] /\ known = Knows(DispatchOpts(c, toolkit), name)
  PROVE  AnswersFollowTheUrl'
  <1> DEFINE o == DispatchOpts(c, toolkit)
  <1>1. /\ Suits(c, o) /\ toolkit \in Scope
        /\ toolkit # Nil => o.toolkit = toolkit
        /\ toolkit # Nil /\ Url[c].mode = Nil => o.mode = "passthrough"
    BY DispatchSuits
  <1> DEFINE ans == [client |-> c, opts |-> o, found |-> toolkit, name |-> name, known |-> known,
               reached |-> IF known THEN Reaches(o, name) ELSE {},
               widened |-> /\ Url[c].slug # Nil /\ o.toolkit = Nil
                           /\ sid[c] \in scopedOnce /\ hub[sid[c]] # Nil]
  <1>2. answer' = ans
    BY DEF Answer
  <1>3. Url[c].slug = Nil => known
    BY <1>1 DEF SessionsInv, Suits, ListTools, Knows, SurfaceTools
  <1>4. ~ans.widened
    BY NotWidened
  <1>5. OptionsAreTheUrls'
    BY <1>1, <1>2, <1>3 DEF OptionsAreTheUrls, Suits
  <1>6. ASSUME toolkit # Nil, Url[c].mode = Nil, name # "search_ns", known
        PROVE  Reaches(o, name) \subseteq toolkit
    <2>1. o.mode = "passthrough" /\ o.toolkit = toolkit
      BY <1>1, <1>6
    <2>2. name # "execute"
      <3>1. ~Knows(o, "execute")
        BY <2>1 DEF Knows, SurfaceTools
      <3> QED BY <3>1, <1>6
    <2> QED BY <2>1, <2>2, <1>6 DEF Reaches, ToolAllowed
  <1>7. ToolkitScopeHolds'
    BY <1>1, <1>2, <1>4, <1>6 DEF ToolkitScopeHolds
  <1> QED BY <1>5, <1>7 DEF AnswersFollowTheUrl

(* The invariant of the next state, from its parts.                        *)
LEMMA SessionsStand ==
  ASSUME toolkits' \in [Slug -> Scope],
         DOMAIN hub' = Session, nextSession' \in Nat \ {0}, scopedOnce' \in SUBSET Session,
         \A i \in Session : nextSession' <= i => i \notin scopedOnce',
         \A i \in scopedOnce' : hub'[i] # Nil => hub'[i].toolkit # Nil,
         DOMAIN sid' = Client,
         \A c \in Client : sid'[c] # Nil =>
            /\ sid'[c] \in Session /\ sid'[c] < nextSession'
            /\ hub'[sid'[c]] # Nil => Suits(c, hub'[sid'[c]]),
         DOMAIN listed' = Client,
         \A c \in Client : Url[c].slug = Nil => listed'[c] \subseteq ListTools(McpOpts(Url[c])),
         AnswersFollowTheUrl'
  PROVE  SessionsInv'
  BY DEF SessionsInv, Suits, ListTools, SurfaceTools, McpOpts, McpOptions, Scope, Session

(* A step that answers nothing.                                            *)
LEMMA NoAnswer == answer' = Nil => AnswersFollowTheUrl'
  BY DEF AnswersFollowTheUrl, OptionsAreTheUrls, ToolkitScopeHolds

(* A request for a session, answered with the options that are kept.       *)
LEMMA InitializeKeeps ==
  ASSUME SessionsInv, NEW c \in Client, Initialize(c)
  PROVE  SessionsInv'
  <1>1. PICK toolkit \in ToolkitBySlug(c), lost \in BOOLEAN :
          /\ IF sid[c] = Nil
             THEN /\ nextSession \in Session
                  /\ hub' = [hub EXCEPT ![nextSession] = DispatchOpts(c, toolkit)]
                  /\ nextSession' = nextSession + 1
                  /\ sid' = IF lost THEN sid ELSE [sid EXCEPT ![c] = nextSession]
                  /\ scopedOnce' = IF toolkit = Nil THEN scopedOnce
                                   ELSE scopedOnce \cup {nextSession}
             ELSE UNCHANGED <<hub, nextSession, sid, scopedOnce>>
          /\ Answer(c, DispatchOpts(c, toolkit), toolkit, "initialize", TRUE)
          /\ UNCHANGED <<toolkits, listed>>
    BY DEF Initialize
  <1>2. AnswersFollowTheUrl'
    BY <1>1, AnswerFollows
  <1>3. CASE sid[c] = Nil
    <2> DEFINE o == DispatchOpts(c, toolkit)
    <2>1. Suits(c, o) /\ (toolkit # Nil => o.toolkit # Nil)
      BY DispatchSuits
    <2> HIDE DEF o
    <2>2. /\ nextSession \in Session
          /\ hub' = [hub EXCEPT ![nextSession] = o]
          /\ nextSession' = nextSession + 1
          /\ sid' = IF lost THEN sid ELSE [sid EXCEPT ![c] = nextSession]
          /\ scopedOnce' = IF toolkit = Nil THEN scopedOnce
                           ELSE scopedOnce \cup {nextSession}
      BY <1>1, <1>3 DEF o
    <2>3. \A i \in scopedOnce' : hub'[i] # Nil => hub'[i].toolkit # Nil
      <3>1. hub'[nextSession] = o /\ \A i \in Session : i # nextSession => hub'[i] = hub[i]
        BY <2>2 DEF SessionsInv
      <3>2. nextSession \notin scopedOnce
        BY <2>2 DEF SessionsInv
      <3> SUFFICES ASSUME NEW i \in scopedOnce', hub'[i] # Nil
                   PROVE  hub'[i].toolkit # Nil
        OBVIOUS
      <3>3. CASE i = nextSession
        <4>1. toolkit # Nil
          BY <2>2, <3>2, <3>3
        <4> QED BY <2>1, <3>1, <3>3, <4>1
      <3>4. CASE i # nextSession
        <4>1. i \in scopedOnce
          BY <2>2, <3>4
        <4>2. i \in Session /\ (hub[i] # Nil => hub[i].toolkit # Nil)
          BY <4>1 DEF SessionsInv
        <4> QED BY <3>1, <3>4, <4>2
      <3> QED BY <3>3, <3>4
    <2>4. \A i \in Session : nextSession' <= i => i \notin scopedOnce'
      BY <2>2 DEF SessionsInv, Session
    <2>5. \A d \in Client : sid'[d] # Nil =>
            /\ sid'[d] \in Session /\ sid'[d] < nextSession'
            /\ hub'[sid'[d]] # Nil => Suits(d, hub'[sid'[d]])
      <3> TAKE d \in Client
      <3>1. CASE sid'[d] = sid[d]
        BY <2>2, <3>1 DEF SessionsInv, Session
      <3>2. CASE sid'[d] # sid[d]
        <4>1. d = c /\ sid'[d] = nextSession
          BY <2>2, <3>2 DEF SessionsInv
        <4> QED BY <2>1, <2>2, <4>1 DEF SessionsInv, Session
      <3> QED BY <3>1, <3>2
    <2>6. DOMAIN sid' = Client /\ DOMAIN hub' = Session /\ nextSession' \in Nat \ {0}
      BY <2>2 DEF SessionsInv
    <2>7. scopedOnce' \in SUBSET Session
      BY <2>2 DEF SessionsInv
    <2> QED BY <1>1, <1>2, <2>3, <2>4, <2>5, <2>6, <2>7, SessionsStand DEF SessionsInv
  <1>4. CASE sid[c] # Nil
    BY <1>1, <1>2, <1>4, SessionsStand DEF SessionsInv
  <1> QED BY <1>3, <1>4

(* What a client gets is what its URL asks for, in options and in scope,   *)
(* whatever sessions were deleted or lost and toolkits came and went.      *)
THEOREM UrlsAreFollowed == McpSpec => []AnswersFollowTheUrl
  <1>1. McpInit => SessionsInv
    BY DEF McpInit, SessionsInv, AnswersFollowTheUrl, OptionsAreTheUrls, ToolkitScopeHolds,
           Scope, Session
  <1>2. ASSUME SessionsInv, [McpNext]_mcpVars PROVE SessionsInv'
    <2>1. ASSUME NEW c \in Client, Initialize(c) PROVE SessionsInv'
      BY <1>2, <2>1, InitializeKeeps
    <2>2. ASSUME NEW c \in Client, ToolsList(c) PROVE SessionsInv'
      <3>1. PICK toolkit \in ToolkitBySlug(c) :
              /\ listed' = [listed EXCEPT ![c] = ListTools(DispatchOpts(c, toolkit))]
              /\ Answer(c, DispatchOpts(c, toolkit), toolkit, "tools/list", TRUE)
              /\ UNCHANGED <<toolkits, hub, nextSession, sid, scopedOnce>>
        BY <2>2 DEF ToolsList
      <3>2. AnswersFollowTheUrl'
        BY <1>2, <3>1, AnswerFollows
      <3>3. Url[c].slug = Nil => DispatchOpts(c, toolkit) = McpOpts(Url[c])
        BY <1>2, DispatchSuits DEF Suits
      <3>4. \A d \in Client : Url[d].slug = Nil => listed'[d] \subseteq ListTools(McpOpts(Url[d]))
        BY <1>2, <3>1, <3>3 DEF SessionsInv
      <3> QED BY <1>2, <3>1, <3>2, <3>4, SessionsStand DEF SessionsInv
    <2>3. ASSUME NEW c \in Client, ToolsCall(c) PROVE SessionsInv'
      <3>1. PICK toolkit \in ToolkitBySlug(c), name \in listed[c] :
              /\ Answer(c, DispatchOpts(c, toolkit), toolkit, name,
                        Knows(DispatchOpts(c, toolkit), name))
              /\ UNCHANGED <<toolkits, hub, nextSession, sid, listed, scopedOnce>>
        BY <2>3 DEF ToolsCall
      <3>2. AnswersFollowTheUrl'
        BY <1>2, <3>1, AnswerFollows
      <3> QED BY <1>2, <3>1, <3>2, SessionsStand DEF SessionsInv
    <2>4. ASSUME NEW c \in Client, McpDelete(c) PROVE SessionsInv'
      <3>1. \A i \in Session : hub'[i] \in {hub[i], Nil}
        BY <1>2, <2>4 DEF McpDelete, SessionsInv
      <3> QED BY <1>2, <2>4, <3>1, NoAnswer, SessionsStand DEF McpDelete, SessionsInv
    <2>5. ASSUME NEW c \in Client, ClientStarts(c) PROVE SessionsInv'
      <3>1. \A d \in Client : /\ sid'[d] \in {sid[d], Nil}
                              /\ listed'[d] \in {listed[d], {}}
        BY <1>2, <2>5 DEF ClientStarts, SessionsInv
      <3>2. \A d \in Client : Url[d].slug = Nil => listed'[d] \subseteq ListTools(McpOpts(Url[d]))
        BY <1>2, <3>1 DEF SessionsInv
      <3> QED BY <1>2, <2>5, <3>1, <3>2, NoAnswer, SessionsStand DEF ClientStarts, SessionsInv
    <2>6. CASE DaemonRestarts
      BY <1>2, <2>6, NoAnswer, SessionsStand DEF DaemonRestarts, SessionsInv
    <2>7. CASE ToolkitsCreate \/ ToolkitsRemove
      <3>1. PICK s \in Slug, kept \in Scope : toolkits' = [toolkits EXCEPT ![s] = kept]
        BY <2>7 DEF ToolkitsCreate, ToolkitsRemove, Scope
      <3>2. toolkits' \in [Slug -> Scope]
        BY <1>2, <3>1 DEF SessionsInv
      <3>3. answer' = Nil /\ UNCHANGED <<hub, nextSession, sid, listed, scopedOnce>>
        BY <2>7 DEF ToolkitsCreate, ToolkitsRemove
      <3> QED BY <1>2, <3>2, <3>3, NoAnswer, SessionsStand DEF SessionsInv
    <2>8. CASE UNCHANGED mcpVars
      <3>1. AnswersFollowTheUrl'
        BY <1>2, <2>8 DEF mcpVars, SessionsInv, AnswersFollowTheUrl, OptionsAreTheUrls,
                          ToolkitScopeHolds
      <3> QED BY <1>2, <2>8, <3>1, SessionsStand DEF mcpVars, SessionsInv
    <2> QED BY <1>2, <2>1, <2>2, <2>3, <2>4, <2>5, <2>6, <2>7, <2>8 DEF McpNext
  <1>3. SessionsInv => AnswersFollowTheUrl
    BY DEF SessionsInv
  <1> QED BY <1>1, <1>2, <1>3, PTL DEF McpSpec

-----------------------------------------------------------------------------
(* The daemon *)

Starting(p) == proc[p] \in {"started", "owner", "truncate", "write", "opened", "ready"}

(* Who is past the lock has it, and who has it is alive; ports and pid     *)
(* file are those of the processes that have them.                         *)
OwnerInv ==
    /\ OneOwner
    /\ \A p \in Pid : lock = p => Live(p) /\ proc[p] # "started"
    /\ \A p \in Pid : Serving(p) => listener[procPort[p]] = p
    /\ \A x \in Port : listener[x] \in Pid =>
         Serving(listener[x]) /\ procPort[listener[x]] = x
    /\ \A x \in Port : listener[x] = Neighbour => x = DefaultPort
    /\ \A p \in Pid : proc[p] \in {"ready", "serving"} => pidFile = p

(* A command counts as starting while it is under way, a process started   *)
(* by hand until it serves; a command that polls has spawned its child.    *)
CommandInv ==
    /\ \A c \in Cli : c \in starters <=> UnderWay(c)
    /\ \A p \in Pid : p \in starters => Starting(p)
    /\ \A c \in Cli :
         /\ cli[c] \notin {"spawn", "poll"} => attempts[c] = 0
         /\ cli[c] = "spawn" => attempts[c] < MaxAttempts
         /\ cli[c] = "poll" =>
              /\ child[c] \in Pid /\ child[c] \notin starters /\ proc[child[c]] # "unused"
              /\ Live(child[c]) => procPort[child[c]] = port[c]
              /\ attempts[c] >= 1
              /\ attempts[c] >= 2 => port[c] # DefaultPort

(* What a process has read or written still stands.                        *)
ProcessesLone ==
    /\ \A p \in Pid : Starting(p) =>
         p \in starters \/ \E c \in Cli : cli[c] = "poll" /\ child[c] = p
    /\ \A p \in Pid : proc[p] \in {"truncate", "write"} => p \in starters
    /\ \A p \in Pid : proc[p] \in {"opened", "ready", "serving"} =>
         tokenFile = procToken[p] /\ tokenFile # None
    /\ \A p \in Pid : proc[p] \in {"ready", "serving"} =>
         pointer # None /\ pointer.port = procPort[p]

(* So does what a command has read; it spawns or mints a token only when   *)
(* no daemon is there, and what it got is kept.                            *)
CommandsLone ==
    /\ \A a, b \in starters : a = b
    /\ \A c \in Cli :
         /\ cli[c] \in {"truncate", "write", "spawn"} => \A p \in Pid : ~Live(p)
         /\ cli[c] = "poll" => \A p \in Pid : Live(p) => p = child[c]
         /\ cli[c] \in {"pointer", "probe", "spawn", "poll"} =>
              token[c] = tokenFile /\ tokenFile # None
         /\ cli[c] = "probe" /\ pointer # None => port[c] = pointer.port
         /\ cli[c] = "done" /\ c \notin cut =>
              token[c] = tokenFile /\ \E p \in Pid : Serving(p)
         /\ cli[c] = "failed" => c \in cut
         /\ cli[c] = "poll" /\ c \notin cut /\ proc[child[c]] = "dead" => attempts[c] = 1

DaemonInv ==
    /\ DaemonTypeOK /\ OwnerInv /\ CommandInv
    /\ ~disturbed => ProcessesLone /\ CommandsLone

(* Nobody has started, read or been promised anything.                     *)
LEMMA DaemonStarts == DaemonInit => DaemonInv
  <1> SUFFICES ASSUME DaemonInit PROVE DaemonInv
    OBVIOUS
  <1>1. AnyPort \in Port
    BY DaemonAssumption DEF AnyPort
  <1>2. DaemonTypeOK
    <2>1. 0 \in 0..MaxAttempts
      BY DaemonAssumption
    <2> QED BY <1>1, <2>1 DEF DaemonInit, DaemonTypeOK, Actor
  <1>3. OwnerInv
    BY DaemonAssumption DEF DaemonInit, OwnerInv, OneOwner, Live, Serving
  <1>4. CommandInv
    BY DEF DaemonInit, CommandInv, UnderWay
  <1>5. ProcessesLone /\ CommandsLone
    BY DEF DaemonInit, ProcessesLone, CommandsLone, Starting
  <1> QED BY <1>2, <1>3, <1>4, <1>5 DEF DaemonInv

(* A command reads the token file, or finds that it must mint one.         *)
LEMMA ReadTokenKeeps ==
  ASSUME DaemonInv, NEW c \in Cli, ReadToken(c)
  PROVE  DaemonInv'
  <1> USE DaemonAssumption DEF DaemonInv, ReadToken, files, processes, commands, daemonHistory, Goes, Returns, Starts, Ends, UnderWay
  <1>1. DaemonTypeOK'
    BY DEF DaemonTypeOK, Actor, AnyPort
  <1>2. OwnerInv'
    BY DEF OwnerInv, OneOwner, Live, Serving
  <1>3. CommandInv'
    BY DEF CommandInv, DaemonTypeOK, Starting, Live
  <1>4. ASSUME ~disturbed' PROVE ProcessesLone'
    BY <1>4 DEF ProcessesLone, CommandsLone, CommandInv, DaemonTypeOK, Starting, Live, Serving
  <1>5. ASSUME ~disturbed' PROVE CommandsLone'
    BY <1>5 DEF ProcessesLone, CommandsLone, CommandInv, DaemonTypeOK, Starting, Live, Serving
  <1> QED BY <1>1, <1>2, <1>3, <1>4, <1>5

(* A command that is alone may empty the file: no daemon has read it.      *)
LEMMA TruncateTokenKeeps ==
  ASSUME DaemonInv, NEW c \in Cli, TruncateToken(c)
  PROVE  DaemonInv'
  <1> USE DaemonAssumption DEF DaemonInv, TruncateToken, files, processes, commands, daemonHistory, Goes, Returns, Starts, Ends, UnderWay
  <1>1. DaemonTypeOK'
    BY DEF DaemonTypeOK, Actor, AnyPort
  <1>2. OwnerInv'
    BY DEF OwnerInv, OneOwner, Live, Serving
  <1>3. CommandInv'
    BY DEF CommandInv, DaemonTypeOK, Starting, Live
  <1>4. ASSUME ~disturbed' PROVE ProcessesLone'
    BY <1>4 DEF ProcessesLone, CommandsLone, CommandInv, DaemonTypeOK, Starting, Live, Serving
  <1>5. ASSUME ~disturbed' PROVE CommandsLone'
    BY <1>5 DEF ProcessesLone, CommandsLone, CommandInv, DaemonTypeOK, Starting, Live, Serving
  <1> QED BY <1>1, <1>2, <1>3, <1>4, <1>5

(* What it writes is then the token of the data directory, and its own.    *)
LEMMA WriteTokenKeeps ==
  ASSUME DaemonInv, NEW c \in Cli, WriteToken(c)
  PROVE  DaemonInv'
  <1> USE DaemonAssumption DEF DaemonInv, WriteToken, files, processes, commands, daemonHistory, Goes, Returns, Starts, Ends, UnderWay
  <1>1. DaemonTypeOK'
    BY DEF DaemonTypeOK, Actor, AnyPort
  <1>2. OwnerInv'
    BY DEF OwnerInv, OneOwner, Live, Serving
  <1>3. CommandInv'
    BY DEF CommandInv, DaemonTypeOK, Starting, Live
  <1>4. ASSUME ~disturbed' PROVE ProcessesLone'
    BY <1>4 DEF ProcessesLone, CommandsLone, CommandInv, DaemonTypeOK, Starting, Live, Serving
  <1>5. ASSUME ~disturbed' PROVE CommandsLone'
    BY <1>5 DEF ProcessesLone, CommandsLone, CommandInv, DaemonTypeOK, Starting, Live, Serving
  <1> QED BY <1>1, <1>2, <1>3, <1>4, <1>5

(* The pointer is the port of the daemon there is, if there is one.        *)
LEMMA ReadPointerKeeps ==
  ASSUME DaemonInv, NEW c \in Cli, ReadPointer(c)
  PROVE  DaemonInv'
  <1> USE DaemonAssumption DEF DaemonInv, ReadPointer, files, processes, commands, daemonHistory, Goes, Returns, Starts, Ends, UnderWay
  <1>1. DaemonTypeOK'
    BY DEF DaemonTypeOK, Actor, AnyPort
  <1>2. OwnerInv'
    BY DEF OwnerInv, OneOwner, Live, Serving
  <1>3. CommandInv'
    BY DEF CommandInv, DaemonTypeOK, Starting, Live
  <1>4. ASSUME ~disturbed' PROVE ProcessesLone'
    BY <1>4 DEF ProcessesLone, CommandsLone, CommandInv, DaemonTypeOK, Starting, Live, Serving
  <1>5. ASSUME ~disturbed' PROVE CommandsLone'
    BY <1>5 DEF ProcessesLone, CommandsLone, CommandInv, DaemonTypeOK, Starting, Live, Serving
  <1> QED BY <1>1, <1>2, <1>3, <1>4, <1>5

(* A command that starts beside another one disturbs both.                 *)
LEMMA EnsureDaemonKeeps ==
  ASSUME DaemonInv, NEW c \in Cli, EnsureDaemon(c)
  PROVE  DaemonInv'
  <1> USE DaemonAssumption DEF DaemonInv, EnsureDaemon, files, processes, commands,
          daemonHistory, Goes, Returns, Starts, Ends, UnderWay
  <1>1. DaemonTypeOK'
    BY DEF DaemonTypeOK, Actor, AnyPort
  <1>2. OwnerInv'
    BY DEF OwnerInv, OneOwner, Live, Serving
  <1>3. CommandInv'
    BY DEF CommandInv, DaemonTypeOK, Starting, Live
  <1>4. ASSUME ~disturbed' PROVE ProcessesLone'
    BY <1>4 DEF ProcessesLone, CommandsLone, CommandInv, DaemonTypeOK, Starting, Live, Serving
  <1>5. ASSUME ~disturbed' PROVE CommandsLone'
    <2>1. starters = {} /\ starters' = {c} /\ CommandsLone
      BY <1>5
    <2>2. \A d \in Cli : d # c => cli'[d] = cli[d] /\ ~UnderWay(d) /\ (d \in cut' <=> d \in cut)
      BY <2>1 DEF CommandInv, DaemonTypeOK
    <2>3. cli'[c] = "token"
      BY DEF DaemonTypeOK
    <2> QED BY <2>1, <2>2, <2>3 DEF CommandsLone, Live, Serving
  <1> QED BY <1>1, <1>2, <1>3, <1>4, <1>5

(* An answer to the probe is that of the daemon; silence means no daemon.  *)
LEMMA ProbeKeeps ==
  ASSUME DaemonInv, NEW c \in Cli, Probe(c)
  PROVE  DaemonInv'
  <1> USE DaemonAssumption DEF DaemonInv, Probe, files, processes, commands, daemonHistory,
          Goes, Returns, Starts, Ends, UnderWay
  <1>1. DaemonTypeOK'
    BY DEF DaemonTypeOK, Actor, AnyPort
  <1>2. OwnerInv'
    BY DEF OwnerInv, OneOwner, Live, Serving
  <1>3. CommandInv'
    BY DEF CommandInv, DaemonTypeOK, Starting, Live
  <1>4. ASSUME ~disturbed' PROVE ProcessesLone'
    BY <1>4 DEF ProcessesLone, CommandsLone, CommandInv, DaemonTypeOK, Starting, Live, Serving
  <1>5. ASSUME ~disturbed' PROVE CommandsLone'
    <2>1. ProcessesLone /\ CommandsLone /\ starters = {c}
      BY <1>5 DEF CommandInv, CommandsLone
    <2>2. \A d \in Cli : d # c => cli'[d] = cli[d] /\ ~UnderWay(d)
      BY <2>1 DEF CommandInv, DaemonTypeOK
    <2>3. \A p \in Pid : ~Starting(p)
      BY <2>1 DEF CommandInv, ProcessesLone, DaemonTypeOK
    <2>4. CASE IsOurs(port[c], token[c])
      <3>1. cli'[c] = "done" /\ token[c] = tokenFile /\ \E p \in Pid : Serving(p)
        BY <2>1, <2>4 DEF CommandsLone, IsOurs, DaemonTypeOK
      <3> QED BY <2>1, <2>2, <2>4, <3>1 DEF CommandsLone, Serving, Live
    <2>5. CASE ~IsOurs(port[c], token[c])
      <3>1. ASSUME NEW p \in Pid, Serving(p) PROVE FALSE
        BY <2>1, <2>5, <3>1 DEF IsOurs, CommandsLone, ProcessesLone, OwnerInv, Serving
      <3>2. \A p \in Pid : ~Live(p)
        BY <2>3, <3>1 DEF Live, Serving, Starting, DaemonTypeOK
      <3>3. cli'[c] = "spawn"
        BY <2>5 DEF DaemonTypeOK
      <3> QED BY <2>1, <2>2, <2>5, <3>2, <3>3 DEF CommandsLone, Serving, Live
    <2> QED BY <2>4, <2>5
  <1> QED BY <1>1, <1>2, <1>3, <1>4, <1>5

(* A child that serves took the token its command holds.                   *)
LEMMA PollDaemonKeeps ==
  ASSUME DaemonInv, NEW c \in Cli, PollDaemon(c)
  PROVE  DaemonInv'
  <1> USE DaemonAssumption DEF DaemonInv, PollDaemon, files, processes, commands, daemonHistory,
          Goes, Returns, Starts, Ends, UnderWay
  <1>1. DaemonTypeOK'
    <2>1. port[c] \in Port /\ child[c] \in Pid
      BY DEF CommandInv, DaemonTypeOK
    <2>2. pointer' \in [port : Port, pid : Pid]
      BY <2>1
    <2>3. AnyPort \in Port /\ 0 \in 0..MaxAttempts
      BY DEF AnyPort
    <2>4. starters' \subseteq Actor
      BY DEF DaemonTypeOK
    <2>5. /\ cli' \in [Cli -> {"idle", "token", "truncate", "write", "pointer", "probe", "spawn",
                        "poll", "done", "failed"}]
          /\ port' \in [Cli -> Port] /\ child' \in [Cli -> Pid \cup {None}]
          /\ attempts' \in [Cli -> 0..MaxAttempts]
      BY <2>3 DEF DaemonTypeOK
    <2> QED BY <2>2, <2>4, <2>5 DEF DaemonTypeOK
  <1>2. OwnerInv'
    BY DEF OwnerInv, OneOwner, Live, Serving
  <1>3. CommandInv'
    BY DEF CommandInv, DaemonTypeOK, Starting, Live
  <1> SUFFICES ASSUME ~disturbed PROVE ProcessesLone' /\ CommandsLone'
    BY <1>1, <1>2, <1>3
  <1>4. listener[port[c]] \in Pid /\ Serving(listener[port[c]])
    BY DEF IsOurs
  <1>5. listener[port[c]] = child[c] /\ \A p \in Pid : Live(p) => p = child[c]
    BY <1>4 DEF CommandsLone, Live, Serving
  <1>6. pointer' # None /\ pointer'.port = procPort[child[c]]
    <2>1. port[c] = procPort[child[c]]
      BY <1>4, <1>5 DEF CommandInv, Live, Serving
    <2>2. pointer' \in [port : Port, pid : Pid]
      BY DEF CommandInv, DaemonTypeOK
    <2> QED BY <2>1, <2>2
  <1>7. ProcessesLone'
    BY <1>4, <1>5, <1>6 DEF ProcessesLone, Serving, Live, Starting
  <1>8. \A d \in Cli : d # c => cli'[d] = cli[d] /\ ~UnderWay(d)
    BY DEF CommandInv, CommandsLone, DaemonTypeOK
  <1>9. CommandsLone'
    <2>1. cli'[c] = "done" /\ token'[c] = tokenFile' /\ starters' \subseteq starters
      BY DEF CommandsLone, DaemonTypeOK
    <2>2. \E p \in Pid : Serving(p)'
      BY <1>4 DEF Serving
    <2>3. \A a, b \in starters' : a = b
      BY <2>1 DEF CommandsLone
    <2>4. ASSUME NEW d \in Cli, d # c
          PROVE  /\ cli'[d] \in {"idle", "done", "failed"}
                 /\ cli'[d] = "done" /\ d \notin cut' => token'[d] = tokenFile'
                 /\ cli'[d] = "failed" => d \in cut'
      BY <1>8, <2>4 DEF CommandsLone, DaemonTypeOK
    <2> QED BY <2>1, <2>2, <2>3, <2>4 DEF CommandsLone, Serving
  <1> QED BY <1>7, <1>9

(* A daemon started by its command reads the token the command holds.      *)
LEMMA LoadTokenKeeps ==
  ASSUME DaemonInv, NEW p \in Pid, LoadToken(p)
  PROVE  DaemonInv'
  <1> USE DaemonAssumption DEF DaemonInv, LoadToken, files, processes, commands, daemonHistory,
          Goes, Advances, Starts, Ends, UnderWay
  <1>1. DaemonTypeOK'
    BY DEF DaemonTypeOK, Actor, AnyPort, Fresh
  <1>2. OwnerInv'
    BY DEF OwnerInv, OneOwner, Live, Serving, DaemonTypeOK, Fresh
  <1>3. CommandInv'
    BY DEF CommandInv, DaemonTypeOK, Starting, Live, Fresh
  <1> SUFFICES ASSUME ~disturbed' PROVE ProcessesLone' /\ CommandsLone'
    BY <1>1, <1>2, <1>3
  <1>4. ProcessesLone'
    BY DEF ProcessesLone, CommandsLone, CommandInv, OwnerInv, OneOwner, DaemonTypeOK, Starting, Live,
           Serving, Fresh
  <1>5. CommandsLone'
    BY DEF ProcessesLone, CommandsLone, CommandInv, OwnerInv, OneOwner, DaemonTypeOK, Starting, Live,
           Serving, Fresh
  <1> QED BY <1>4, <1>5

(* Only a daemon started by hand finds no token to read.                   *)
LEMMA MintTruncatesKeeps ==
  ASSUME DaemonInv, NEW p \in Pid, MintTruncates(p)
  PROVE  DaemonInv'
  <1> USE DaemonAssumption DEF DaemonInv, MintTruncates, files, processes, commands, daemonHistory,
          Goes, Advances, Starts, Ends, UnderWay
  <1>1. DaemonTypeOK'
    BY DEF DaemonTypeOK, Actor, AnyPort, Fresh
  <1>2. OwnerInv'
    BY DEF OwnerInv, OneOwner, Live, Serving, DaemonTypeOK, Fresh
  <1>3. CommandInv'
    BY DEF CommandInv, DaemonTypeOK, Starting, Live, Fresh
  <1> SUFFICES ASSUME ~disturbed' PROVE ProcessesLone' /\ CommandsLone'
    BY <1>1, <1>2, <1>3
  <1>4. ProcessesLone'
    BY DEF ProcessesLone, CommandsLone, CommandInv, OwnerInv, OneOwner, DaemonTypeOK, Starting, Live,
           Serving, Fresh
  <1>5. CommandsLone'
    BY DEF ProcessesLone, CommandsLone, CommandInv, OwnerInv, OneOwner, DaemonTypeOK, Starting, Live,
           Serving, Fresh
  <1> QED BY <1>4, <1>5

(* The token it minted is what the file then holds.                        *)
LEMMA MintWritesKeeps ==
  ASSUME DaemonInv, NEW p \in Pid, MintWrites(p)
  PROVE  DaemonInv'
  <1> USE DaemonAssumption DEF DaemonInv, MintWrites, files, processes, commands, daemonHistory,
          Goes, Advances, Starts, Ends, UnderWay
  <1>1. DaemonTypeOK'
    BY DEF DaemonTypeOK, Actor, AnyPort, Fresh
  <1>2. OwnerInv'
    BY DEF OwnerInv, OneOwner, Live, Serving, DaemonTypeOK, Fresh
  <1>3. CommandInv'
    BY DEF CommandInv, DaemonTypeOK, Starting, Live, Fresh
  <1> SUFFICES ASSUME ~disturbed' PROVE ProcessesLone' /\ CommandsLone'
    BY <1>1, <1>2, <1>3
  <1>4. ProcessesLone'
    BY DEF ProcessesLone, CommandsLone, CommandInv, OwnerInv, OneOwner, DaemonTypeOK, Starting, Live,
           Serving, Fresh
  <1>5. CommandsLone'
    BY DEF ProcessesLone, CommandsLone, CommandInv, OwnerInv, OneOwner, DaemonTypeOK, Starting, Live,
           Serving, Fresh
  <1> QED BY <1>4, <1>5

(* The owner writes the pointer before it binds the port.                  *)
LEMMA PublishKeeps ==
  ASSUME DaemonInv, NEW p \in Pid, Publish(p)
  PROVE  DaemonInv'
  <1> USE DaemonAssumption DEF DaemonInv, Publish, files, processes, commands, daemonHistory,
          Goes, Advances, Starts, Ends, UnderWay
  <1>1. DaemonTypeOK'
    BY DEF DaemonTypeOK, Actor, AnyPort, Fresh
  <1>2. OwnerInv'
    BY DEF OwnerInv, OneOwner, Live, Serving, DaemonTypeOK, Fresh
  <1>3. CommandInv'
    BY DEF CommandInv, DaemonTypeOK, Starting, Live, Fresh
  <1> SUFFICES ASSUME ~disturbed' PROVE ProcessesLone' /\ CommandsLone'
    BY <1>1, <1>2, <1>3
  <1>4. ProcessesLone'
    BY DEF ProcessesLone, CommandsLone, CommandInv, OwnerInv, OneOwner, DaemonTypeOK, Starting, Live,
           Serving, Fresh
  <1>5. CommandsLone'
    BY DEF ProcessesLone, CommandsLone, CommandInv, OwnerInv, OneOwner, DaemonTypeOK, Starting, Live,
           Serving, Fresh
  <1> QED BY <1>4, <1>5

(* A daemon started by hand counts as starting until it serves.            *)
LEMMA StartForegroundKeeps ==
  ASSUME DaemonInv, StartForeground
  PROVE  DaemonInv'
  <1> USE DaemonAssumption DEF DaemonInv, StartForeground, files, processes, commands, daemonHistory,
          Goes, Advances, Starts, Ends, UnderWay
  <1>1. DaemonTypeOK'
    BY DEF DaemonTypeOK, Actor, AnyPort, Fresh
  <1>2. OwnerInv'
    BY DEF OwnerInv, OneOwner, Live, Serving, DaemonTypeOK, Fresh
  <1>3. CommandInv'
    BY DEF CommandInv, DaemonTypeOK, Starting, Live, Fresh
  <1> SUFFICES ASSUME ~disturbed' PROVE ProcessesLone' /\ CommandsLone'
    BY <1>1, <1>2, <1>3
  <1>4. ProcessesLone'
    BY DEF ProcessesLone, CommandsLone, CommandInv, OwnerInv, OneOwner, DaemonTypeOK, Starting, Live,
           Serving, Fresh
  <1>5. CommandsLone'
    <2>0. starters = {} /\ ~disturbed
      OBVIOUS
    <2>1. starters = {} /\ CommandsLone /\ \E p \in Pid : starters' = {p}
      BY <2>0
    <2>2. \A c \in Cli : ~UnderWay(c)
      BY <2>1 DEF CommandInv
    <2>3. \A p \in Pid : Serving(p) => Serving(p)'
      BY DEF Serving, Fresh, DaemonTypeOK
    <2> QED BY <2>1, <2>2, <2>3 DEF CommandsLone, DaemonTypeOK
  <1> QED BY <1>4, <1>5

(* So does one that the start command leaves behind.                       *)
LEMMA StartBackgroundKeeps ==
  ASSUME DaemonInv, StartBackground
  PROVE  DaemonInv'
  <1> USE DaemonAssumption DEF DaemonInv, StartBackground, files, processes, commands, daemonHistory,
          Goes, Advances, Starts, Ends, UnderWay
  <1>1. DaemonTypeOK'
    BY DEF DaemonTypeOK, Actor, AnyPort, Fresh
  <1>2. OwnerInv'
    BY DEF OwnerInv, OneOwner, Live, Serving, DaemonTypeOK, Fresh
  <1>3. CommandInv'
    BY DEF CommandInv, DaemonTypeOK, Starting, Live, Fresh
  <1> SUFFICES ASSUME ~disturbed' PROVE ProcessesLone' /\ CommandsLone'
    BY <1>1, <1>2, <1>3
  <1>4. PICK p \in Pid :
          /\ Fresh(p)
          /\ proc' = [proc EXCEPT ![p] = "started"]
          /\ starters = {} /\ starters' = {p} /\ \A q \in Pid : ~Live(q)
    <2>1. PICK p \in Pid :
            /\ Fresh(p)
            /\ proc' = [proc EXCEPT ![p] = "started"]
            /\ starters' = starters \cup {p}
            /\ disturbed' = (disturbed \/ starters # {} \/ \E q \in Pid : Live(q))
      OBVIOUS
    <2>2. starters = {} /\ \A q \in Pid : ~Live(q)
      BY <2>1
    <2> QED BY <2>1, <2>2
  <1>5. \A c \in Cli : ~UnderWay(c)
    BY <1>4 DEF CommandInv
  <1>6. \A q \in Pid : q # p => proc'[q] \in {"unused", "dead"}
    BY <1>4 DEF Live, DaemonTypeOK
  <1>7. proc'[p] = "started"
    BY <1>4 DEF DaemonTypeOK
  <1>8. ProcessesLone'
    BY <1>4, <1>6, <1>7 DEF ProcessesLone, Starting
  <1>9. CommandsLone'
    BY <1>4, <1>5 DEF CommandsLone, Live, Serving, DaemonTypeOK
  <1> QED BY <1>8, <1>9

(* A neighbour takes the default port only, and only while it is free.     *)
LEMMA NeighbourBindsKeeps ==
  ASSUME DaemonInv, NeighbourBinds
  PROVE  DaemonInv'
  <1> USE DaemonAssumption DEF DaemonInv, NeighbourBinds, files, processes, commands, daemonHistory,
          Goes, Advances, Starts, Ends, UnderWay
  <1>1. DaemonTypeOK'
    BY DEF DaemonTypeOK, Actor, AnyPort, Fresh
  <1>2. OwnerInv'
    BY DEF OwnerInv, OneOwner, Live, Serving, DaemonTypeOK, Fresh
  <1>3. CommandInv'
    BY DEF CommandInv, DaemonTypeOK, Starting, Live, Fresh
  <1> SUFFICES ASSUME ~disturbed' PROVE ProcessesLone' /\ CommandsLone'
    BY <1>1, <1>2, <1>3
  <1>4. ProcessesLone'
    BY DEF ProcessesLone, CommandsLone, CommandInv, OwnerInv, OneOwner, DaemonTypeOK, Starting, Live,
           Serving, Fresh
  <1>5. CommandsLone'
    BY DEF ProcessesLone, CommandsLone, CommandInv, OwnerInv, OneOwner, DaemonTypeOK, Starting, Live,
           Serving, Fresh
  <1> QED BY <1>4, <1>5

(* A command spawns a child only where no process is alive.                *)
LEMMA SpawnDaemonKeeps ==
  ASSUME DaemonInv, NEW c \in Cli, SpawnDaemon(c)
  PROVE  DaemonInv'
  <1> USE DaemonAssumption DEF DaemonInv, files, processes, commands, daemonHistory,
          Goes, Advances, Starts, Ends, UnderWay
  <1>0. PICK pid \in Pid, p \in Port :
          /\ cli[c] = "spawn"
          /\ proc[pid] = "unused"
          /\ PreferredPort(c, p)
          /\ proc' = [proc EXCEPT ![pid] = "started"]
          /\ procPort' = [procPort EXCEPT ![pid] = p]
          /\ pointer' = [port |-> p, pid |-> pid]
          /\ port' = [port EXCEPT ![c] = p]
          /\ child' = [child EXCEPT ![c] = pid]
          /\ attempts' = [attempts EXCEPT ![c] = @ + 1]
          /\ cli' = [cli EXCEPT ![c] = "poll"]
          /\ UNCHANGED <<tokenFile, pidFile, lock, listener, procToken, token, daemonHistory>>
    BY DEF SpawnDaemon, Fresh
  <1>1. DaemonTypeOK'
    <2>1. attempts' \in [Cli -> 0..MaxAttempts]
      BY <1>0 DEF DaemonTypeOK, CommandInv
    <2> QED BY <1>0, <2>1 DEF DaemonTypeOK, Actor
  <1>2. OwnerInv'
    BY <1>0 DEF OwnerInv, OneOwner, Live, Serving, DaemonTypeOK
  <1>3. CommandInv'
    <2>1. attempts'[c] \in Nat /\ attempts'[c] >= 1 /\ (attempts'[c] >= 2 => p # DefaultPort)
      BY <1>0 DEF DaemonTypeOK, PreferredPort
    <2>2. /\ cli'[c] = "poll" /\ child'[c] = pid /\ pid \notin starters
          /\ proc'[pid] = "started" /\ procPort'[pid] = p /\ port'[c] = p
      BY <1>0 DEF DaemonTypeOK, CommandInv, Starting
    <2>3. \A d \in Cli : d # c =>
            /\ cli'[d] = cli[d] /\ child'[d] = child[d] /\ attempts'[d] = attempts[d]
            /\ port'[d] = port[d]
      BY <1>0 DEF DaemonTypeOK
    <2>4. \A q \in Pid : q # pid => proc'[q] = proc[q] /\ procPort'[q] = procPort[q]
      BY <1>0 DEF DaemonTypeOK
    <2>5. \A d \in Cli : d \in starters' <=> UnderWay(d)'
      BY <1>0, <2>2, <2>3 DEF CommandInv
    <2>6. \A q \in Pid : q \in starters' => Starting(q)'
      BY <1>0, <2>2, <2>4 DEF CommandInv, Starting
    <2>7. \A d \in Cli : d # c /\ cli[d] = "poll" => child[d] # pid
      BY <1>0 DEF CommandInv
    <2> QED BY <1>0, <2>1, <2>2, <2>3, <2>4, <2>5, <2>6, <2>7 DEF CommandInv, Live
  <1> SUFFICES ASSUME ~disturbed' PROVE ProcessesLone' /\ CommandsLone'
    BY <1>1, <1>2, <1>3
  <1>4. ProcessesLone'
    BY <1>0 DEF ProcessesLone, CommandsLone, CommandInv, OwnerInv, OneOwner, DaemonTypeOK, Starting,
           Live, Serving
  <1>5. CommandsLone'
    BY <1>0 DEF ProcessesLone, CommandsLone, CommandInv, OwnerInv, OneOwner, DaemonTypeOK, Starting,
           Live, Serving
  <1> QED BY <1>4, <1>5

(* Who dies leaves its ports and the lock; the others keep theirs.         *)
LEMMA DeathsKeep ==
  ASSUME DaemonTypeOK, OwnerInv, NEW gone \in SUBSET Pid, Dies(gone),
         pidFile' = pidFile \/ (pidFile' = None /\ \A p \in Pid : Serving(p) \/ proc[p] = "ready" => p \in gone)
  PROVE  /\ lock' \in Pid \cup {None}
         /\ listener' \in [Port -> Pid \cup {None, Neighbour}]
         /\ proc' \in [Pid -> {"unused", "started", "owner", "truncate", "write", "opened",
                         "ready", "serving", "dead"}]
         /\ procPort' \in [Pid -> Port]
         /\ procToken' \in [Pid -> Actor \cup {None}]
         /\ \A p \in Pid :
              IF p \in gone THEN ~Live(p)' /\ proc'[p] = IF Live(p) THEN "dead" ELSE proc[p]
              ELSE proc'[p] = proc[p] /\ procPort'[p] = procPort[p] /\ procToken'[p] = procToken[p]
         /\ \A p \in Pid : Live(p)' => p \notin gone /\ Live(p)
         /\ OwnerInv'
  <1> USE DaemonAssumption
  <1>1. AnyPort \in Port
    BY DEF AnyPort
  <1>2. /\ lock' \in Pid \cup {None}
        /\ listener' \in [Port -> Pid \cup {None, Neighbour}]
        /\ proc' \in [Pid -> {"unused", "started", "owner", "truncate", "write", "opened",
                        "ready", "serving", "dead"}]
        /\ procPort' \in [Pid -> Port]
        /\ procToken' \in [Pid -> Actor \cup {None}]
    BY <1>1 DEF Dies, DaemonTypeOK
  <1>3. \A p \in Pid :
          IF p \in gone THEN ~Live(p)' /\ proc'[p] = IF Live(p) THEN "dead" ELSE proc[p]
          ELSE proc'[p] = proc[p] /\ procPort'[p] = procPort[p] /\ procToken'[p] = procToken[p]
    BY DEF Dies, Live, DaemonTypeOK
  <1>4. \A p \in Pid : Live(p)' => p \notin gone /\ Live(p)
    BY <1>3 DEF Live
  <1>5. OwnerInv'
    <2>1. \A x \in Port : listener'[x] = IF listener[x] \in gone THEN None ELSE listener[x]
      BY DEF Dies
    <2>2. lock' = IF lock \in gone THEN None ELSE lock
      BY DEF Dies
    <2>3. OneOwner'
      BY <1>3, <1>4, <2>2 DEF OwnerInv, OneOwner, Live
    <2>4. \A p \in Pid : lock' = p => Live(p)' /\ proc'[p] # "started"
      BY <1>3, <2>2 DEF OwnerInv, Live
    <2>5. \A p \in Pid : Serving(p)' => listener'[procPort'[p]] = p
      BY <1>3, <2>1, <1>2 DEF OwnerInv, Serving, Live, DaemonTypeOK
    <2>6. \A x \in Port : listener'[x] \in Pid =>
            proc'[listener'[x]] = "serving" /\ procPort'[listener'[x]] = x
      <3> SUFFICES ASSUME NEW x \in Port, listener'[x] \in Pid
                   PROVE  proc'[listener'[x]] = "serving" /\ procPort'[listener'[x]] = x
        OBVIOUS
      <3>1. listener'[x] = listener[x] /\ listener[x] \notin gone
        BY <2>1
      <3>2. proc[listener[x]] = "serving" /\ procPort[listener[x]] = x
        BY <3>1 DEF OwnerInv, Serving
      <3> QED BY <1>3, <3>1, <3>2
    <2>7. \A x \in Port : listener'[x] = Neighbour => x = DefaultPort
      BY <2>1 DEF OwnerInv
    <2>8. \A p \in Pid : proc'[p] \in {"ready", "serving"} => pidFile' = p
      BY <1>3 DEF OwnerInv, Serving, Live
    <2> QED BY <2>3, <2>4, <2>5, <2>6, <2>7, <2>8 DEF OwnerInv, Serving
  <1> QED BY <1>2, <1>3, <1>4, <1>5

(* The lock goes to one process at a time; who does not get it dies.       *)
LEMMA AcquireKeeps ==
  ASSUME DaemonInv, NEW p \in Pid, Acquire(p)
  PROVE  DaemonInv'
  <1> USE DaemonAssumption DEF DaemonInv, files, processes, commands, daemonHistory,
          Goes, Advances, Starts, Ends, UnderWay
  <1>1. CASE lock = None
    <2>0. /\ proc[p] = "started" /\ proc' = [proc EXCEPT ![p] = "owner"] /\ lock' = p
          /\ UNCHANGED <<files, listener, procPort, procToken, commands, daemonHistory>>
      BY <1>1 DEF Acquire
    <2> USE <1>1, <2>0
    <2>1. DaemonTypeOK'
      BY DEF DaemonTypeOK
    <2>2. OwnerInv'
      BY DEF OwnerInv, OneOwner, Live, Serving, DaemonTypeOK
    <2>3. CommandInv'
      BY DEF CommandInv, DaemonTypeOK, Starting, Live
    <2> SUFFICES ASSUME ~disturbed PROVE ProcessesLone' /\ CommandsLone'
      BY <2>1, <2>2, <2>3
    <2>4. ProcessesLone'
      BY DEF ProcessesLone, DaemonTypeOK, Starting
    <2>5. CommandsLone'
      BY DEF CommandsLone, DaemonTypeOK, Live, Serving
    <2> QED BY <2>4, <2>5
  <1>2. CASE lock # None
    <2>0. /\ proc[p] = "started" /\ Dies({p}) /\ starters' = starters \ {p}
          /\ UNCHANGED <<disturbed, cut, files, commands>>
      BY <1>2 DEF Acquire
    <2>1. /\ lock' \in Pid \cup {None}
          /\ listener' \in [Port -> Pid \cup {None, Neighbour}]
          /\ proc' \in [Pid -> {"unused", "started", "owner", "truncate", "write", "opened",
                          "ready", "serving", "dead"}]
          /\ procPort' \in [Pid -> Port]
          /\ procToken' \in [Pid -> Actor \cup {None}]
          /\ \A q \in Pid :
               IF q = p THEN proc'[q] = "dead"
               ELSE proc'[q] = proc[q] /\ procPort'[q] = procPort[q] /\ procToken'[q] = procToken[q]
          /\ OwnerInv'
      <3>1. {p} \in SUBSET Pid /\ pidFile' = pidFile /\ Live(p)
        BY <2>0 DEF Live
      <3> HIDE DEF DaemonInv, files, processes, commands, daemonHistory, Goes, Advances, Starts,
               Ends, UnderWay
      <3> QED BY <2>0, <3>1, DeathsKeep DEF DaemonInv
    <2>2. DaemonTypeOK'
      BY <2>0, <2>1 DEF DaemonTypeOK
    <2>3. CommandInv'
      BY <2>0, <2>1 DEF CommandInv, Starting, Live, DaemonTypeOK
    <2> SUFFICES ASSUME ~disturbed PROVE ProcessesLone' /\ CommandsLone'
      BY <2>0, <2>1, <2>2, <2>3
    <2>4. ProcessesLone'
      BY <2>0, <2>1, ZenonT(60) DEF ProcessesLone, Starting, Live
    <2>5. \A c \in Cli : cli[c] = "poll" => child[c] # p
      BY <1>2, <2>0 DEF CommandsLone, OwnerInv, Live, DaemonTypeOK
    <2>6. \A q \in Pid : Serving(q) => Serving(q)'
      BY <2>0, <2>1 DEF Serving
    <2>7. CommandsLone'
      BY <2>0, <2>1, <2>5, <2>6 DEF CommandsLone, CommandInv, Live
    <2> QED BY <2>4, <2>7
  <1> QED BY <1>1, <1>2

(* Processes killed from outside: whatever a command was promised is off.  *)
LEMMA KillsKeep ==
  ASSUME DaemonInv, NEW gone \in SUBSET Pid, Dies(gone), CutBy(gone), UNCHANGED <<tokenFile, commands>>,
         pidFile' = pidFile \/ (pidFile' = None /\ \A p \in Pid : Serving(p) \/ proc[p] = "ready" => p \in gone),
         pointer' = pointer \/ (pointer' = None /\ \A p \in Pid : Serving(p) \/ proc[p] = "ready" => p \in gone)
  PROVE  DaemonInv'
  <1> USE DaemonAssumption
  <1>0. /\ cut' = {c \in Cli : cli[c] # "idle"} /\ starters' = starters \ gone
        /\ disturbed' = disturbed
    BY DEF CutBy
  <1>1. /\ lock' \in Pid \cup {None}
        /\ listener' \in [Port -> Pid \cup {None, Neighbour}]
        /\ proc' \in [Pid -> {"unused", "started", "owner", "truncate", "write", "opened",
                        "ready", "serving", "dead"}]
        /\ procPort' \in [Pid -> Port]
        /\ procToken' \in [Pid -> Actor \cup {None}]
        /\ \A p \in Pid :
             IF p \in gone THEN ~Live(p)' /\ proc'[p] = IF Live(p) THEN "dead" ELSE proc[p]
             ELSE proc'[p] = proc[p] /\ procPort'[p] = procPort[p] /\ procToken'[p] = procToken[p]
        /\ \A p \in Pid : Live(p)' => p \notin gone /\ Live(p)
        /\ OwnerInv'
    BY DeathsKeep DEF DaemonInv
  <1>2. DaemonTypeOK'
    BY <1>0, <1>1 DEF DaemonInv, DaemonTypeOK, commands
  <1>3. CommandInv'
    BY <1>0, <1>1 DEF DaemonInv, CommandInv, Starting, UnderWay, Live, DaemonTypeOK, commands
  <1> SUFFICES ASSUME ~disturbed PROVE ProcessesLone' /\ CommandsLone'
    BY <1>0, <1>1, <1>2, <1>3 DEF DaemonInv
  <1>4. ProcessesLone /\ CommandsLone /\ CommandInv
    BY DEF DaemonInv
  <1>5. \A p \in Pid : Starting(p)' \/ Serving(p)' => p \notin gone /\ proc'[p] = proc[p]
    BY <1>1 DEF Starting, Serving, Live
  <1>6. \A p \in Pid : proc'[p] \in {"ready", "serving"} => pointer' = pointer
    BY <1>1, <1>5 DEF Starting, Serving
  <1>7. ProcessesLone'
    BY <1>0, <1>1, <1>4, <1>5, <1>6 DEF ProcessesLone, Starting, Serving, commands
  <1>8. \A c \in Cli : cli'[c] \in {"done", "failed", "poll"} => c \in cut'
    BY <1>0 DEF commands
  <1>9. pointer' \in {pointer, None}
    OBVIOUS
  <1>10. CommandsLone'
    BY <1>0, <1>1, <1>4, <1>8, <1>9 DEF CommandsLone, commands
  <1> QED BY <1>7, <1>10

(* A process that is told to stop leaves its pointer behind.               *)
LEMMA CtrlCKeeps ==
  ASSUME DaemonInv, NEW p \in Pid, CtrlC(p) PROVE DaemonInv'
  <1>1. \A q \in Pid : Serving(q) \/ proc[q] = "ready" => q \in {p}
    BY DEF CtrlC, DaemonInv, OwnerInv, OneOwner, Serving, Live
  <1> QED BY <1>1, KillsKeep DEF CtrlC

(* So does one that is killed.                                             *)
LEMMA CrashKeeps ==
  ASSUME DaemonInv, NEW p \in Pid, DaemonCrash(p) PROVE DaemonInv'
  BY KillsKeep DEF DaemonCrash, files

(* The stop command ends every process it can find.                        *)
LEMMA StopKeeps ==
  ASSUME DaemonInv, DaemonStop PROVE DaemonInv'
  <1> DEFINE gone == (IF pointer = None THEN {} ELSE {pointer.pid}) \cup ({pidFile} \ {None})
  <1>1. gone \in SUBSET Pid
    BY DEF DaemonInv, DaemonTypeOK
  <1>2. \A q \in Pid : Serving(q) \/ proc[q] = "ready" => q \in gone
    BY DaemonAssumption DEF DaemonInv, OwnerInv, Serving
  <1>3. Dies(gone) /\ CutBy(gone) /\ pidFile' = None /\ pointer' = None
        /\ UNCHANGED <<tokenFile, commands>>
    BY DEF DaemonStop
  <1> HIDE DEF gone
  <1> QED BY <1>1, <1>2, <1>3, KillsKeep

(* Who binds its port serves; who finds it taken dies.                     *)
LEMMA BindKeeps ==
  ASSUME DaemonInv, NEW p \in Pid, Bind(p)
  PROVE  DaemonInv'
  <1> USE DaemonAssumption DEF DaemonInv, files, processes, commands, daemonHistory,
          Goes, Advances, Starts, Ends, UnderWay
  <1>1. CASE listener[procPort[p]] = None
    <2>0. /\ proc[p] = "ready" /\ proc' = [proc EXCEPT ![p] = "serving"]
          /\ listener' = [listener EXCEPT ![procPort[p]] = p]
          /\ starters' = starters \ {p}
          /\ UNCHANGED <<pidFile, lock, procPort, procToken, tokenFile, pointer, commands,
                         disturbed, cut>>
      BY <1>1 DEF Bind
    <2> USE <1>1, <2>0
    <2>1. DaemonTypeOK'
      BY DEF DaemonTypeOK
    <2>2. OwnerInv'
      BY DEF OwnerInv, OneOwner, Live, Serving, DaemonTypeOK
    <2>3. CommandInv'
      BY DEF CommandInv, DaemonTypeOK, Starting, Live
    <2> SUFFICES ASSUME ~disturbed PROVE ProcessesLone' /\ CommandsLone'
      BY <2>1, <2>2, <2>3
    <2>4. ProcessesLone'
      <3>1. proc'[p] = "serving" /\ \A q \in Pid : q # p => proc'[q] = proc[q]
        BY DEF DaemonTypeOK
      <3>2. ProcessesLone
        OBVIOUS
      <3> QED BY <3>1, <3>2 DEF ProcessesLone, Starting
    <2>5. CommandsLone'
      BY DEF CommandsLone, DaemonTypeOK, Live, Serving
    <2> QED BY <2>4, <2>5
  <1>2. CASE listener[procPort[p]] # None
    <2>0. /\ proc[p] = "ready" /\ Dies({p}) /\ pidFile' = None /\ starters' = starters \ {p}
          /\ UNCHANGED <<disturbed, cut, tokenFile, pointer, commands>>
      BY <1>2 DEF Bind
    <2>1. /\ lock' \in Pid \cup {None}
          /\ listener' \in [Port -> Pid \cup {None, Neighbour}]
          /\ proc' \in [Pid -> {"unused", "started", "owner", "truncate", "write", "opened",
                          "ready", "serving", "dead"}]
          /\ procPort' \in [Pid -> Port]
          /\ procToken' \in [Pid -> Actor \cup {None}]
          /\ \A q \in Pid :
               IF q = p THEN proc'[q] = "dead"
               ELSE proc'[q] = proc[q] /\ procPort'[q] = procPort[q] /\ procToken'[q] = procToken[q]
          /\ OwnerInv'
      <3>1. {p} \in SUBSET Pid /\ Live(p)
        BY <2>0 DEF Live
      <3>2. \A q \in Pid : Serving(q) \/ proc[q] = "ready" => q \in {p}
        BY <2>0 DEF OwnerInv, OneOwner, Serving, Live
      <3> HIDE DEF DaemonInv, files, processes, commands, daemonHistory, Goes, Advances, Starts,
               Ends, UnderWay
      <3> QED BY <2>0, <3>1, <3>2, DeathsKeep DEF DaemonInv
    <2>2. DaemonTypeOK'
      BY <2>0, <2>1 DEF DaemonTypeOK
    <2>3. CommandInv'
      BY <2>0, <2>1 DEF CommandInv, Starting, Live, DaemonTypeOK
    <2> SUFFICES ASSUME ~disturbed PROVE ProcessesLone' /\ CommandsLone'
      BY <2>0, <2>1, <2>2, <2>3
    <2>4. ProcessesLone'
      BY <2>0, <2>1 DEF ProcessesLone, Starting, Live
    <2>5. \A c \in Cli : cli[c] = "poll" /\ child[c] = p => attempts[c] = 1
      <3> SUFFICES ASSUME NEW c \in Cli, cli[c] = "poll", child[c] = p PROVE attempts[c] = 1
        OBVIOUS
      <3>1. procPort[p] = port[c] /\ attempts[c] \in Nat /\ attempts[c] >= 1
        BY <2>0 DEF CommandInv, Live, DaemonTypeOK
      <3>2. ASSUME listener[port[c]] \in Pid PROVE FALSE
        <4>1. Serving(listener[port[c]]) /\ port[c] \in Port
          BY <3>2 DEF OwnerInv, DaemonTypeOK
        <4>2. listener[port[c]] = child[c]
          BY <3>2, <4>1 DEF CommandsLone, Live, Serving
        <4> QED BY <2>0, <4>1, <4>2 DEF Serving
      <3>3. port[c] = DefaultPort
        BY <1>2, <3>1, <3>2 DEF OwnerInv, DaemonTypeOK
      <3> QED BY <3>1, <3>3 DEF CommandInv
    <2>6. \A q \in Pid : Serving(q) => Serving(q)'
      BY <2>0, <2>1 DEF Serving
    <2>7. CommandsLone'
      BY <2>0, <2>1, <2>5, <2>6 DEF CommandsLone, CommandInv, Live
    <2> QED BY <2>4, <2>7
  <1> QED BY <1>1, <1>2

(* A child that is not there yet is killed and tried again on another port.*)
LEMMA GiveUpKeeps ==
  ASSUME DaemonInv, NEW c \in Cli, GiveUp(c)
  PROVE  DaemonInv'
  <1> USE DaemonAssumption
  <1> DEFINE p == child[c]
  <1>0. /\ cli[c] = "poll" /\ ~IsOurs(port[c], token[c])
        /\ Dies({p})
        /\ cut' = IF proc[p] \in {"dead", "serving"} THEN cut ELSE cut \cup {c}
        /\ UNCHANGED <<files, token, disturbed>>
    BY DEF GiveUp
  <1>1. p \in Pid /\ p \notin starters /\ proc[p] # "unused" /\ (Live(p) => procPort[p] = port[c])
    BY <1>0 DEF DaemonInv, CommandInv
  <1>2. \/ /\ attempts[c] = MaxAttempts
           /\ cli' = [cli EXCEPT ![c] = "failed"]
           /\ port' = [port EXCEPT ![c] = AnyPort]
           /\ child' = [child EXCEPT ![c] = None]
           /\ attempts' = [attempts EXCEPT ![c] = 0]
           /\ starters' = starters \ {c}
        \/ /\ attempts[c] # MaxAttempts
           /\ cli' = [cli EXCEPT ![c] = "spawn"]
           /\ UNCHANGED <<port, child, attempts, starters>>
    BY DEF GiveUp, Goes, Returns
  <1> HIDE DEF p
  <1>3. /\ lock' \in Pid \cup {None}
        /\ listener' \in [Port -> Pid \cup {None, Neighbour}]
        /\ proc' \in [Pid -> {"unused", "started", "owner", "truncate", "write", "opened",
                        "ready", "serving", "dead"}]
        /\ procPort' \in [Pid -> Port]
        /\ procToken' \in [Pid -> Actor \cup {None}]
        /\ \A q \in Pid :
             IF q = p THEN ~Live(q)' /\ proc'[q] = "dead"
             ELSE proc'[q] = proc[q] /\ procPort'[q] = procPort[q] /\ procToken'[q] = procToken[q]
        /\ OwnerInv'
    <2>1. {p} \in SUBSET Pid /\ pidFile' = pidFile
      BY <1>0, <1>1 DEF files
    <2>2. ~Live(p) => proc[p] = "dead"
      BY <1>1 DEF Live
    <2> QED BY <1>0, <1>1, <2>1, <2>2, DeathsKeep DEF DaemonInv
  <1>4. DaemonTypeOK'
    <2>1. AnyPort \in Port /\ 0 \in 0..MaxAttempts
      BY DEF AnyPort
    <2>2. /\ cli' \in [Cli -> {"idle", "token", "truncate", "write", "pointer", "probe", "spawn",
                        "poll", "done", "failed"}]
          /\ port' \in [Cli -> Port] /\ child' \in [Cli -> Pid \cup {None}]
          /\ attempts' \in [Cli -> 0..MaxAttempts]
      BY <1>2, <2>1 DEF DaemonInv, DaemonTypeOK
    <2> QED BY <1>0, <1>2, <1>3, <2>2 DEF DaemonInv, DaemonTypeOK, files
  <1>5. \A d \in Cli : d # c => /\ cli'[d] = cli[d] /\ port'[d] = port[d] /\ child'[d] = child[d]
                                /\ attempts'[d] = attempts[d]
    BY <1>2 DEF DaemonInv, DaemonTypeOK
  <1>6. cli'[c] = IF attempts[c] = MaxAttempts THEN "failed" ELSE "spawn"
    BY <1>2 DEF DaemonInv, DaemonTypeOK
  <1>7. CommandInv'
    <2>1. CommandInv /\ attempts[c] \in 0..MaxAttempts
      BY DEF DaemonInv, DaemonTypeOK
    <2>2. \A d \in Cli : d \in starters' <=> UnderWay(d)'
      BY <1>0, <1>2, <1>5, <1>6, <2>1 DEF CommandInv, UnderWay
    <2>3. \A q \in Pid : q \in starters' => Starting(q)'
      BY <1>1, <1>2, <1>3, <2>1 DEF CommandInv, Starting
    <2>4. IF attempts[c] = MaxAttempts THEN attempts'[c] = 0 ELSE attempts'[c] < MaxAttempts
      BY <1>2, <2>1 DEF DaemonInv, DaemonTypeOK
    <2>5. \A q \in Pid : Live(q)' => Live(q) /\ q # p
      BY <1>3 DEF Live
    <2>6. \A d \in Cli : d # c /\ cli[d] = "poll" =>
            /\ child[d] \in Pid /\ child[d] \notin starters' /\ proc'[child[d]] # "unused"
            /\ proc'[child[d]] # "dead" => procPort'[child[d]] = port[d]
      <3> TAKE d \in Cli
      <3> HAVE d # c /\ cli[d] = "poll"
      <3>1. child[d] \in Pid /\ child[d] \notin starters /\ proc[child[d]] # "unused"
            /\ (Live(child[d]) => procPort[child[d]] = port[d])
        BY <2>1 DEF CommandInv
      <3>2. starters' \subseteq starters
        BY <1>2
      <3>3. /\ proc'[p] = "dead"
            /\ \A q \in Pid : q # p => proc'[q] = proc[q] /\ procPort'[q] = procPort[q]
        BY <1>1, <1>3
      <3> QED BY <3>1, <3>2, <3>3 DEF Live
    <2> QED BY <1>5, <1>6, <2>1, <2>2, <2>3, <2>4, <2>6 DEF CommandInv, Live
  <1> SUFFICES ASSUME ~disturbed PROVE ProcessesLone' /\ CommandsLone'
    BY <1>0, <1>3, <1>4, <1>7 DEF DaemonInv
  <1>8. ProcessesLone /\ CommandsLone /\ CommandInv /\ OwnerInv
    BY DEF DaemonInv
  <1>9. \A d \in Cli : d # c => ~UnderWay(d)
    BY <1>0, <1>8 DEF CommandInv, CommandsLone, UnderWay
  <1>10. ~Serving(p)
    <2> SUFFICES ASSUME Serving(p) PROVE FALSE
      OBVIOUS
    <2>1. procPort[p] = port[c] /\ listener[port[c]] = p
      BY <1>1, <1>8 DEF OwnerInv, Serving, Live
    <2>2. procToken[p] = token[c]
      BY <1>0, <1>1, <1>8 DEF ProcessesLone, CommandsLone, Serving
    <2> QED BY <1>0, <1>1, <2>1, <2>2 DEF IsOurs
  <1>11. \A q \in Pid : Live(q) => q = p
    BY <1>0, <1>8 DEF CommandsLone, p
  <1>12. \A q \in Pid : ~Live(q)' /\ ~Serving(q)
    BY <1>3, <1>10, <1>11 DEF Live, Serving
  <1>13. ProcessesLone'
    BY <1>12 DEF ProcessesLone, Starting, Live
  <1>14. cli'[c] = "failed" => c \in cut'
    <2> SUFFICES ASSUME attempts[c] = MaxAttempts PROVE c \in cut'
      BY <1>6
    <2>1. proc[p] = "dead" /\ c \notin cut => attempts[c] = 1
      BY <1>0, <1>8 DEF CommandsLone, p
    <2> QED BY <1>0, <1>10, <2>1 DEF Serving
  <1>15. cli'[c] = "spawn" => token'[c] = tokenFile' /\ tokenFile' # None
    BY <1>0, <1>8 DEF CommandsLone, files
  <1>16. \A a, b \in starters' : a = b
    BY <1>2, <1>8 DEF CommandsLone
  <1>17. \A d \in Cli : d # c =>
           /\ cli'[d] \in {"idle", "done", "failed"}
           /\ cli'[d] = "done" => d \in cut'
           /\ cli'[d] = "failed" => d \in cut'
    BY <1>0, <1>5, <1>8, <1>9, <1>12 DEF CommandsLone, UnderWay
  <1>18. CommandsLone'
    BY <1>6, <1>12, <1>14, <1>15, <1>16, <1>17 DEF CommandsLone
  <1> QED BY <1>13, <1>18

(* A command that nobody disturbs gets a daemon of its data directory that *)
(* takes its token, however many commands and processes there are and      *)
(* whatever crashes and neighbours came before or between.                 *)
THEOREM DaemonsAreFound == DaemonSpec => []LoneCommandsGetTheirDaemon
  <1>1. DaemonInit => DaemonInv
    BY DaemonStarts
  <1>2. ASSUME DaemonInv, [DaemonNext]_daemonVars PROVE DaemonInv'
    <2>1. CASE UNCHANGED daemonVars
      BY <1>2, <2>1 DEF daemonVars, files, processes, commands, daemonHistory, DaemonInv,
         DaemonTypeOK, OwnerInv, OneOwner, CommandInv, ProcessesLone, CommandsLone, Live,
         Serving, Starting, UnderWay
    <2>2. ASSUME NEW c \in Cli,
                 \/ EnsureDaemon(c) \/ ReadToken(c) \/ TruncateToken(c) \/ WriteToken(c)
                 \/ ReadPointer(c) \/ Probe(c) \/ SpawnDaemon(c) \/ PollDaemon(c) \/ GiveUp(c)
          PROVE  DaemonInv'
      BY <1>2, <2>2, EnsureDaemonKeeps, ReadTokenKeeps, TruncateTokenKeeps, WriteTokenKeeps,
         ReadPointerKeeps, ProbeKeeps, SpawnDaemonKeeps, PollDaemonKeeps, GiveUpKeeps
    <2>3. ASSUME NEW p \in Pid,
                 \/ Acquire(p) \/ LoadToken(p) \/ MintTruncates(p) \/ MintWrites(p)
                 \/ Publish(p) \/ Bind(p) \/ CtrlC(p) \/ DaemonCrash(p)
          PROVE  DaemonInv'
      BY <1>2, <2>3, AcquireKeeps, LoadTokenKeeps, MintTruncatesKeeps, MintWritesKeeps,
         PublishKeeps, BindKeeps, CtrlCKeeps, CrashKeeps
    <2>4. CASE StartForeground \/ StartBackground \/ NeighbourBinds \/ DaemonStop
      BY <1>2, <2>4, StartForegroundKeeps, StartBackgroundKeeps, NeighbourBindsKeeps, StopKeeps
    <2> QED BY <1>2, <2>1, <2>2, <2>3, <2>4 DEF DaemonNext
  <1>3. DaemonInv => LoneCommandsGetTheirDaemon
    <2> SUFFICES ASSUME DaemonInv PROVE LoneCommandsGetTheirDaemon
      OBVIOUS
    <2>1. ASSUME ~disturbed, NEW c \in Cli \ cut, cli[c] = "done"
          PROVE  pointer # None /\ IsOurs(pointer.port, token[c])
      <3>1. PICK p \in Pid : Serving(p)
        BY <2>1 DEF DaemonInv, CommandsLone
      <3>2. pointer # None /\ pointer.port = procPort[p] /\ procToken[p] = token[c]
        BY <2>1, <3>1 DEF DaemonInv, CommandsLone, ProcessesLone, Serving
      <3>3. listener[procPort[p]] = p
        BY <3>1 DEF DaemonInv, OwnerInv
      <3> QED BY <3>1, <3>2, <3>3 DEF IsOurs
    <2>2. ASSUME ~disturbed, NEW c \in Cli \ cut PROVE cli[c] # "failed"
      BY <2>2 DEF DaemonInv, CommandsLone
    <2> QED BY <2>1, <2>2 DEF LoneCommandsGetTheirDaemon, DaemonInv, OwnerInv
  <1> QED BY <1>1, <1>2, <1>3, PTL DEF DaemonSpec

-----------------------------------------------------------------------------
(* Frames on stdin *)

Token == {EndOfLine, Header("length"), Header("type")}
           \cup [kind : {"message"}, what : What, to : Nat]
Reply == [to : Nat, form : {"line", "framed"}]

(* Where the reader is in the stream: "told" and "length" are within a     *)
(* line, after what stands on it and before its end.                       *)
Mode == {"line", "told", "length", "headers", "body"}
ReadsOn(here, x, next) ==
    \/ here = "line" /\ x.kind = "eol" /\ next = "line"
    \/ here = "line" /\ x.kind \in {"message", "type"} /\ next = "told"
    \/ here = "told" /\ x.kind = "eol" /\ next = "line"
    \/ here = "line" /\ x.kind = "length" /\ next = "length"
    \/ here = "headers" /\ x.kind = "type" /\ next = "length"
    \/ here = "length" /\ x.kind = "eol" /\ next = "headers"
    \/ here = "headers" /\ x.kind = "eol" /\ next = "body"
    \/ here = "body" /\ x.kind = "message" /\ next = "line"

(* A reader that goes through all of the input from where it is finds a    *)
(* header, a blank line and a body where it expects them.                  *)
Reads(course) ==
    /\ course \in [1..(Len(input) + 1) -> Mode]
    /\ course[1] = reader /\ course[Len(input) + 1] = "line"
    /\ \A i \in 1..Len(input) : ReadsOn(course[i], input[i], course[i + 1])

Calls(x) == x.kind = "message" /\ x.what \in Answered
FormAt(mode) == IF mode = "line" THEN "line" ELSE "framed"
Due == (Len(replies) + 1)..Len(wanted)

(* What is asked for in the input is what has not been answered.           *)
Owes(course) ==
    /\ \A i \in 1..Len(input) : Calls(input[i]) =>
          \E k \in Due : wanted[k] = [to |-> input[i].to, form |-> FormAt(course[i])]
    /\ \A k \in Due : \E i \in 1..Len(input) : Calls(input[i]) /\ input[i].to = wanted[k].to

(* Messages are numbered as they were written.                             *)
InOrder ==
    /\ \A i \in 1..Len(input) : input[i].kind = "message" => input[i].to <= frames
    /\ \A i, j \in 1..Len(input) :
          i < j /\ input[i].kind = "message" /\ input[j].kind = "message"
            => input[i].to < input[j].to
    /\ \A k \in 1..Len(wanted) : wanted[k].to <= frames
    /\ \A k, l \in 1..Len(wanted) : k < l => wanted[k].to < wanted[l].to

FramesInv ==
    /\ astray \in BOOLEAN
    /\ ~astray =>
         /\ input \in Seq(Token) /\ wanted \in Seq(Reply) /\ replies \in Seq(Reply)
         /\ frames \in Nat /\ InOrder
         /\ Len(replies) <= Len(wanted) /\ replies = SubSeq(wanted, 1, Len(replies))
         /\ reader = "ended" => input = <<>> /\ closed /\ Len(replies) = Len(wanted)
         /\ reader # "ended" =>
              /\ reader \in {"line", "headers", "body"} /\ (reader # "line" => measured)
              /\ \E course : Reads(course) /\ Owes(course)

(* The parts of the stream.                                                *)
LEMMA Tokens ==
  /\ EndOfLine \in Token /\ EndOfLine.kind = "eol"
  /\ \A k \in {"length", "type"} : Header(k) \in Token /\ Header(k).kind = k
  /\ \A x \in Token : x.kind \in {"eol", "length", "type", "message"}
  /\ \A x \in Token : x.kind = "eol" <=> x = EndOfLine
  /\ \A x \in Token : x.kind = "length" <=> x = Header("length")
  /\ frames \in Nat => \A what \in What : Message(what) \in Token
  /\ \A what : /\ Message(what).kind = "message" /\ Message(what).what = what
               /\ Message(what).to = frames + 1
  BY DEF Token, EndOfLine, Header, Message

(* One sequence after another.                                             *)
LEMMA Joined ==
  ASSUME NEW S, NEW s \in Seq(S), NEW t \in Seq(S)
  PROVE  /\ s \o t \in Seq(S) /\ Len(s \o t) = Len(s) + Len(t)
         /\ \A i \in 1..Len(s) : (s \o t)[i] = s[i]
         /\ \A i \in 1..Len(t) : (s \o t)[Len(s) + i] = t[i]
  OBVIOUS

(* Three pairs of tokens, one after the other.                             *)
Pair(s, x, y) == s \in Seq(Token) /\ Len(s) = 2 /\ s[1] = x /\ s[2] = y
Pairs(s, a, b, c, d, e, f) ==
    /\ s \in Seq(Token) /\ Len(s) = 6
    /\ s[1] = a /\ s[2] = b /\ s[3] = c /\ s[4] = d /\ s[5] = e /\ s[6] = f

LEMMA JoinedPairs ==
  ASSUME NEW s, NEW t, NEW u, NEW a, NEW b, NEW c, NEW d, NEW e, NEW f,
         Pair(s, a, b), Pair(t, c, d), Pair(u, e, f)
  PROVE  Pairs(s \o t \o u, a, b, c, d, e, f)
  <1>1. s \in Seq(Token) /\ t \in Seq(Token) /\ u \in Seq(Token)
    BY DEF Pair
  <1>2. PICK st : st = s \o t
    OBVIOUS
  <1>3. /\ st \in Seq(Token) /\ Len(st) = Len(s) + Len(t)
        /\ \A i \in 1..Len(s) : st[i] = s[i]
        /\ \A i \in 1..Len(t) : st[Len(s) + i] = t[i]
    BY <1>1, <1>2, Joined
  <1>4. PICK all : all = st \o u
    OBVIOUS
  <1>5. /\ all \in Seq(Token) /\ Len(all) = Len(st) + Len(u)
        /\ \A i \in 1..Len(st) : all[i] = st[i]
        /\ \A i \in 1..Len(u) : all[Len(st) + i] = u[i]
    <2>1. st \in Seq(Token)
      BY <1>3
    <2> QED BY <1>1, <1>4, <2>1, Joined
  <1>6. Len(st) = 4 /\ st[1] = a /\ st[2] = b /\ st[3] = c /\ st[4] = d
    BY <1>3 DEF Pair
  <1>7. /\ Len(all) = 6 /\ all[1] = a /\ all[2] = b /\ all[3] = c /\ all[4] = d
        /\ all[5] = e /\ all[6] = f
    BY <1>5, <1>6 DEF Pair
  <1>8. Pairs(all, a, b, c, d, e, f)
    BY <1>5, <1>7 DEF Pairs
  <1> QED BY <1>2, <1>4, <1>8, Zenon

(* A line of headers is a header and its end.                              *)
LEMMA HeaderLines ==
  ASSUME NEW k \in {"length", "type"}
  PROVE  Pair(Line(k), Header(k), EndOfLine)
  <1>1. EndOfLine \in Token /\ Header(k) \in Token
    BY Tokens
  <1> HIDE DEF EndOfLine, Header, Token
  <1> QED BY <1>1 DEF Line, Pair

(* The end of a frame with headers.                                        *)
LEMMA BodyLines ==
  ASSUME frames \in Nat, NEW what \in What
  PROVE  Pair(<<EndOfLine, Message(what)>>, EndOfLine, Message(what))
  <1>1. EndOfLine \in Token /\ Message(what) \in Token
    BY Tokens
  <1> HIDE DEF EndOfLine, Message, Token
  <1> QED BY <1>1 DEF Pair

(* A frame in which the lines of its headers are h and g.                  *)
LEMMA FramedTokens ==
  ASSUME frames \in Nat, NEW what \in What,
         NEW h \in {"length", "type"}, NEW g \in {"length", "type"}
  PROVE  Pairs(Line(h) \o Line(g) \o <<EndOfLine, Message(what)>>,
               Header(h), EndOfLine, Header(g), EndOfLine, EndOfLine, Message(what))
  <1>1. Pair(Line(h), Header(h), EndOfLine)
    BY HeaderLines
  <1>2. Pair(Line(g), Header(g), EndOfLine)
    BY HeaderLines
  <1>3. Pair(<<EndOfLine, Message(what)>>, EndOfLine, Message(what))
    BY BodyLines
  <1> QED BY <1>1, <1>2, <1>3, JoinedPairs, Zenon

(* What is at most b, or the next.                                         *)
LEMMA NextIsMore ==
  ASSUME NEW a \in Int, NEW b \in Int
  PROVE  a <= b \/ a = b + 1 => a <= b + 1
  OBVIOUS

LEMMA LessThanNext ==
  ASSUME NEW a \in Int, NEW b \in Int, NEW c \in Int
  PROVE  a <= b /\ c = b + 1 => a < c
  OBVIOUS

(* One frame is written at the end: the reader's course goes on through it *)
(* and what it asks for is wanted last.                                    *)
LEMMA FrameIsWritten ==
  ASSUME FramesInv, ~astray, ~astray', astray' \in BOOLEAN, ~closed, frames' = frames + 1,
         UNCHANGED <<closed, reader, measured, replies>>,
         NEW w \in Seq(Token), NEW r \in [1..(Len(w) + 1) -> Mode], input' = input \o w,
         r[1] = "line", r[Len(w) + 1] = "line",
         \A i \in 1..Len(w) : ReadsOn(r[i], w[i], r[i + 1]),
         \A i \in 1..Len(w) : w[i].kind = "message" => w[i].to = frames + 1,
         \A i, j \in 1..Len(w) : w[i].kind = "message" /\ w[j].kind = "message" => i = j,
         NEW form \in {"line", "framed"}, NEW calls \in BOOLEAN,
         \A i \in 1..Len(w) : Calls(w[i]) => calls /\ form = FormAt(r[i]),
         calls => \E i \in 1..Len(w) : Calls(w[i]),
         wanted' = IF calls THEN Append(wanted, [to |-> frames + 1, form |-> form]) ELSE wanted
  PROVE  FramesInv'
  <1>1. /\ input \in Seq(Token) /\ wanted \in Seq(Reply) /\ replies \in Seq(Reply)
        /\ frames \in Nat /\ InOrder
        /\ Len(replies) <= Len(wanted) /\ replies = SubSeq(wanted, 1, Len(replies))
        /\ reader # "ended"
        /\ reader \in {"line", "headers", "body"} /\ (reader # "line" => measured)
    BY DEF FramesInv
  <1>2. PICK course : Reads(course) /\ Owes(course)
    BY <1>1 DEF FramesInv
  <1>3. PICK n, m : n = Len(input) /\ m = Len(w)
    OBVIOUS
  <1>4. n \in Nat /\ m \in Nat
    BY <1>1, <1>3
  <1>5. /\ input' \in Seq(Token) /\ Len(input') = n + m
        /\ \A i \in 1..n : input'[i] = input[i]
        /\ \A i \in 1..m : input'[n + i] = w[i]
    <2>1. /\ input \o w \in Seq(Token) /\ Len(input \o w) = Len(input) + Len(w)
          /\ \A i \in 1..Len(input) : (input \o w)[i] = input[i]
          /\ \A i \in 1..Len(w) : (input \o w)[Len(input) + i] = w[i]
      BY <1>1, Joined
    <2> QED BY <1>3, <2>1
  <1>6. \A i \in 1..(n + m) : i \in 1..n \/ (i - n \in 1..m /\ i = n + (i - n))
    BY <1>4, SMTT(60)
  <1>7. /\ wanted' \in Seq(Reply)
        /\ Len(wanted') = IF calls THEN Len(wanted) + 1 ELSE Len(wanted)
        /\ \A k \in 1..Len(wanted) : wanted'[k] = wanted[k]
        /\ calls => wanted'[Len(wanted) + 1] = [to |-> frames + 1, form |-> form]
    <2>1. [to |-> frames + 1, form |-> form] \in Reply
      BY <1>1 DEF Reply
    <2> QED BY <1>1, <2>1
  <1>8. replies = SubSeq(wanted', 1, Len(replies)) /\ Len(replies) <= Len(wanted')
    <2>1. /\ \A i \in 1..Len(replies) : replies[i] = wanted[i]
      BY <1>1
    <2>2. SubSeq(wanted', 1, Len(replies)) = SubSeq(wanted, 1, Len(replies))
      BY <1>1, <1>7
    <2> QED BY <1>1, <1>7, <2>2
  <1>9. InOrder'
    <2>1. \A i \in 1..Len(input') : input'[i].kind = "message" =>
             \/ i \in 1..n /\ input[i].kind = "message" /\ input'[i].to = input[i].to
                  /\ input'[i].to <= frames
             \/ i - n \in 1..m /\ w[i - n].kind = "message" /\ input'[i].to = frames + 1
      BY <1>1, <1>3, <1>5, <1>6 DEF InOrder
    <2>0. \A x \in Token : x.kind = "message" => x.to \in Nat
      BY DEF Token, EndOfLine, Header
    <2>t. \A i \in 1..Len(input') : input'[i].kind = "message" => input'[i].to \in Int
      BY <1>5, <2>0
    <2>2. ASSUME NEW i \in 1..Len(input'), input'[i].kind = "message"
          PROVE  input'[i].to <= frames + 1
      <3>1. input'[i].to <= frames \/ input'[i].to = frames + 1
        BY <2>1, <2>2
      <3>2. input'[i].to \in Int /\ frames \in Int
        BY <1>1, <2>t, <2>2
      <3> QED BY <3>1, <3>2, NextIsMore, Zenon
    <2>3. ASSUME NEW i \in 1..Len(input'), NEW j \in 1..Len(input'), i < j,
                 input'[i].kind = "message", input'[j].kind = "message"
          PROVE  input'[i].to < input'[j].to
      <3>1. i \in Int /\ j \in Int /\ n \in Int
        BY <1>4, <1>5
      <3>2. CASE j \in 1..n
        <4>1. i \in 1..n
          BY <2>3, <3>1, <3>2
        <4>2. input'[i] = input[i] /\ input'[j] = input[j]
          BY <1>5, <3>2, <4>1
        <4> QED BY <1>1, <1>3, <2>3, <3>2, <4>1, <4>2 DEF InOrder
      <3>3. CASE ~(j \in 1..n) /\ i \in 1..n
        <4>1. input'[j].to = frames + 1 /\ input'[i].to = input[i].to /\ input[i].kind = "message"
          BY <1>5, <2>1, <2>3, <3>3
        <4>2. input'[i].to <= frames
          BY <1>1, <1>3, <3>3, <4>1 DEF InOrder
        <4>3. input'[i].to \in Int /\ frames \in Int
          BY <1>1, <2>t, <2>3
        <4> QED BY <4>1, <4>2, <4>3
      <3>4. CASE ~(j \in 1..n) /\ ~(i \in 1..n)
        <4>1. i - n \in 1..m /\ j - n \in 1..m /\ w[i - n].kind = "message"
              /\ w[j - n].kind = "message"
          BY <2>1, <2>3, <3>4
        <4>2. i - n = j - n
          BY <1>3, <4>1
        <4> QED BY <2>3, <3>1, <4>2
      <3> QED BY <3>2, <3>3, <3>4
    <2>r. \A x \in Reply : x.to \in Nat
      BY DEF Reply
    <2>6. \A k \in 1..Len(wanted') : wanted'[k].to \in Int
      BY <1>7, <2>r
    <2>7. \A k \in 1..Len(wanted') :
             \/ k \in 1..Len(wanted) /\ wanted'[k] = wanted[k] /\ wanted'[k].to <= frames
             \/ k = Len(wanted) + 1 /\ wanted'[k].to = frames + 1
      <3> SUFFICES ASSUME NEW k \in 1..Len(wanted')
                   PROVE  \/ k \in 1..Len(wanted) /\ wanted'[k] = wanted[k]
                                /\ wanted'[k].to <= frames
                          \/ k = Len(wanted) + 1 /\ wanted'[k].to = frames + 1
        OBVIOUS
      <3>1. CASE k \in 1..Len(wanted)
        BY <1>1, <1>7, <3>1 DEF InOrder
      <3>2. CASE ~(k \in 1..Len(wanted))
        <4>1. k = Len(wanted) + 1 /\ calls
          BY <1>1, <1>7, <3>2
        <4> QED BY <1>7, <4>1
      <3> QED BY <3>1, <3>2
    <2>4. ASSUME NEW k \in 1..Len(wanted') PROVE wanted'[k].to <= frames + 1
      <3>1. wanted'[k].to \in Int /\ frames \in Int
        BY <1>1, <2>6
      <3>2. wanted'[k].to <= frames \/ wanted'[k].to = frames + 1
        BY <2>7
      <3> QED BY <3>1, <3>2, NextIsMore, Zenon
    <2>5. ASSUME NEW k \in 1..Len(wanted'), NEW l \in 1..Len(wanted'), k < l
          PROVE  wanted'[k].to < wanted'[l].to
      <3>1. wanted'[k].to \in Int /\ wanted'[l].to \in Int /\ frames \in Int
        BY <1>1, <2>6
      <3>2. Len(wanted) \in Nat /\ k \in Int /\ l \in Int
        BY <1>1, <1>7
      <3>3. CASE l \in 1..Len(wanted)
        <4>1. k \in 1..Len(wanted)
          BY <2>5, <3>2, <3>3
        <4>2. wanted'[k] = wanted[k] /\ wanted'[l] = wanted[l]
          BY <1>7, <3>3, <4>1
        <4> QED BY <1>1, <2>5, <3>3, <4>1, <4>2 DEF InOrder
      <3>4. CASE ~(l \in 1..Len(wanted))
        <4>1. l = Len(wanted) + 1 /\ wanted'[l].to = frames + 1
          BY <2>7, <3>4
        <4>2. k # Len(wanted) + 1
          BY <2>5, <3>2, <4>1
        <4>3. wanted'[k].to <= frames
          BY <2>7, <4>2
        <4> QED BY <3>1, <4>1, <4>3, LessThanNext, Zenon
      <3> QED BY <3>3, <3>4
    <2> QED BY <2>2, <2>3, <2>4, <2>5 DEF InOrder
  <1> DEFINE later == [i \in 1..(n + m + 1) |-> IF i \in 1..n THEN course[i] ELSE r[i - n]]
  <1>10. /\ \A i \in 1..n : later[i] = course[i]
         /\ \A i \in 1..(m + 1) : later[n + i] = r[i]
         /\ later \in [1..(n + m + 1) -> Mode]
    <2>1. \A i \in 1..n : later[i] = course[i]
      BY <1>4
    <2>2. \A i \in 1..(m + 1) : later[n + i] = r[i]
      BY <1>4
    <2>3. ASSUME NEW i \in 1..(n + m + 1) PROVE later[i] \in Mode
      <3>1. CASE i \in 1..n
        <4>1. course[i] \in Mode
          <5>1. i \in 1..(Len(input) + 1)
            BY <1>3, <1>4, <3>1
          <5> QED BY <1>2, <5>1 DEF Reads
        <4> HIDE DEF later, Mode
        <4> QED BY <2>1, <3>1, <4>1
      <3>2. CASE ~(i \in 1..n)
        <4>1. i - n \in 1..(m + 1)
          BY <1>4, <3>2, SMTT(60)
        <4>2. later[i] = r[i - n]
          BY <3>2
        <4> HIDE DEF later, Mode
        <4> QED BY <1>3, <4>1, <4>2
      <3> QED BY <3>1, <3>2
    <2>4. DOMAIN later = 1..(n + m + 1) /\ later = [i \in 1..(n + m + 1) |-> later[i]]
      OBVIOUS
    <2> HIDE DEF later
    <2> QED BY <2>1, <2>2, <2>3, <2>4
  <1> HIDE DEF later
  <1>11. course[n + 1] = "line" /\ course[1] = reader
    BY <1>2, <1>3 DEF Reads
  <1>12. \A i \in 1..(n + 1) : later[i] = course[i]
    BY <1>3, <1>4, <1>10, <1>11
  <1>13. Reads(later)'
    <2>1. later[1] = reader
      <3>1. 1 \in 1..(n + 1)
        BY <1>4
      <3> QED BY <1>11, <1>12, <3>1
    <2>2. later[n + m + 1] = "line"
      BY <1>3, <1>4, <1>10
    <2>3. ASSUME NEW i \in 1..n PROVE ReadsOn(later[i], input'[i], later[i + 1])
      <3>1. i \in 1..(n + 1) /\ i + 1 \in 1..(n + 1)
        BY <1>4
      <3>2. later[i] = course[i] /\ later[i + 1] = course[i + 1] /\ input'[i] = input[i]
        BY <1>5, <1>12, <3>1
      <3>3. ReadsOn(course[i], input[i], course[i + 1])
        BY <1>2, <1>3 DEF Reads
      <3> HIDE DEF ReadsOn
      <3> QED BY <3>2, <3>3, Zenon
    <2>4. ASSUME NEW i \in 1..m
          PROVE  ReadsOn(later[n + i], input'[n + i], later[n + (i + 1)])
      <3>1. i \in 1..(m + 1) /\ i + 1 \in 1..(m + 1) /\ i \in 1..Len(w)
        BY <1>3, <1>4
      <3>2. later[n + i] = r[i] /\ later[n + (i + 1)] = r[i + 1]
        BY <1>10, <3>1
      <3>3. input'[n + i] = w[i]
        BY <1>5
      <3> HIDE DEF ReadsOn
      <3> QED BY <3>1, <3>2, <3>3, Zenon
    <2>5. ASSUME NEW i \in 1..(n + m) PROVE ReadsOn(later[i], input'[i], later[i + 1])
      <3>1. CASE i \in 1..n
        BY <2>3, <3>1
      <3>2. CASE i - n \in 1..m
        <4>1. i \in Int /\ n \in Int
          BY <1>4
        <4>2. PICK k \in 1..m : k = i - n
          BY <3>2
        <4>3. i = n + k /\ i + 1 = n + (k + 1)
          BY <4>1, <4>2
        <4>4. ReadsOn(later[n + k], input'[n + k], later[n + (k + 1)])
          BY <2>4
        <4> HIDE DEF ReadsOn
        <4> QED BY <4>3, <4>4, Zenon
      <3> QED BY <1>6, <3>1, <3>2
    <2> QED BY <1>4, <1>5, <1>10, <2>1, <2>2, <2>5 DEF Reads
  <1>14. Owes(later)'
    <2>1. ASSUME NEW i \in 1..Len(input'), Calls(input'[i])
          PROVE  \E k \in Due' : wanted'[k] = [to |-> input'[i].to, form |-> FormAt(later[i])]
      <3>1. CASE i \in 1..n
        <4>1. Calls(input[i]) /\ later[i] = course[i] /\ input'[i] = input[i]
          BY <1>5, <1>10, <2>1, <3>1
        <4>2. PICK k \in Due : wanted[k] = [to |-> input[i].to, form |-> FormAt(course[i])]
          BY <1>2, <1>3, <3>1, <4>1 DEF Owes
        <4>3. k \in Due' /\ k \in 1..Len(wanted)
          BY <1>1, <1>7 DEF Due
        <4> QED BY <1>7, <4>1, <4>2, <4>3
      <3>2. CASE i - n \in 1..m
        <4>1. input'[i] = w[i - n] /\ later[i] = r[i - n]
          <5>1. i = n + (i - n) /\ i - n \in 1..(m + 1)
            BY <1>4, <3>2
          <5> QED BY <1>5, <1>10, <3>2, <5>1
        <4>2. calls /\ form = FormAt(later[i]) /\ input'[i].to = frames + 1
          BY <1>3, <2>1, <3>2, <4>1 DEF Calls
        <4>3. Len(wanted) + 1 \in Due'
          BY <1>1, <1>7, <4>2 DEF Due
        <4> QED BY <1>7, <4>2, <4>3
      <3> QED BY <1>5, <1>6, <3>1, <3>2
    <2>2. ASSUME NEW k \in Due'
          PROVE  \E i \in 1..Len(input') : Calls(input'[i]) /\ input'[i].to = wanted'[k].to
      <3>1. CASE k \in Due
        <4>1. PICK i \in 1..Len(input) : Calls(input[i]) /\ input[i].to = wanted[k].to
          BY <1>2, <3>1 DEF Owes
        <4>2. k \in 1..Len(wanted) /\ i \in 1..n /\ i \in 1..Len(input')
          BY <1>1, <1>3, <1>4, <1>5, <3>1 DEF Due
        <4> QED BY <1>5, <1>7, <4>1, <4>2
      <3>2. CASE ~(k \in Due)
        <4>1. calls /\ k = Len(wanted) + 1
          BY <1>1, <1>7, <3>2 DEF Due
        <4>2. PICK i \in 1..m : Calls(w[i])
          BY <1>3, <4>1
        <4>3. n + i \in 1..(n + m)
          BY <1>4
        <4>4. input'[n + i] = w[i] /\ Len(input') = n + m
          BY <1>5
        <4>5. w[i].to = frames + 1
          BY <1>3, <4>2 DEF Calls
        <4>6. wanted'[k].to = frames + 1
          BY <1>7, <4>1
        <4>7. Calls(input'[n + i]) /\ input'[n + i].to = wanted'[k].to
          BY <4>2, <4>4, <4>5, <4>6
        <4>8. n + i \in 1..Len(input')
          BY <4>3, <4>4
        <4> QED BY <4>7, <4>8
      <3> QED BY <3>1, <3>2
    <2> QED BY <2>1, <2>2 DEF Owes
  <1>15. \E c : Reads(c)' /\ Owes(c)'
    BY <1>13, <1>14, Zenon
  <1>16. reader' = reader /\ measured' = measured /\ replies' = replies
         /\ frames' \in Nat /\ astray' \in BOOLEAN
    BY <1>1
  <1>17. reader' # "ended" /\ reader' \in {"line", "headers", "body"}
         /\ (reader' # "line" => measured') /\ replies' \in Seq(Reply)
    BY <1>1, <1>16
  <1>18. Len(replies') <= Len(wanted') /\ replies' = SubSeq(wanted', 1, Len(replies'))
    BY <1>8, <1>16, Zenon
  <1> HIDE DEF InOrder, Reads, Owes, Token, Reply
  <1> QED BY <1>5, <1>7, <1>9, <1>15, <1>16, <1>17, <1>18, Zenon DEF FramesInv

(* The first end of a line ends what read_line returns.                    *)
LEMMA FirstLine ==
  ASSUME input \in Seq(Token), NEW n \in 1..Len(input), input[n] = EndOfLine,
         \A j \in 1..(n - 1) : input[j] # EndOfLine
  PROVE  /\ LineEnds # {} /\ LineRead = n
         /\ Text = SubSeq(input, 1, n - 1) /\ Rest = SubSeq(input, n + 1, Len(input))
  <1> HIDE DEF EndOfLine, Token
  <1>1. n \in LineEnds /\ LineEnds \subseteq Int
    BY DEF LineEnds
  <1>2. \A j \in LineEnds : n <= j
    BY DEF LineEnds
  <1>3. LineRead \in LineEnds /\ \A j \in LineEnds : LineRead <= j
    BY <1>1, <1>2 DEF LineRead
  <1>4. LineRead = n
    BY <1>1, <1>2, <1>3
  <1> QED BY <1>1, <1>4 DEF Text, Rest

(* A reader that has gone through the first n tokens reads on from there.  *)
LEMMA CourseGoesOn ==
  ASSUME input \in Seq(Token), NEW course, Reads(course), InOrder,
         NEW n \in Nat, n <= Len(input), UNCHANGED <<frames, wanted>>,
         input' = SubSeq(input, n + 1, Len(input)), reader' = course[n + 1]
  PROVE  /\ input' \in Seq(Token) /\ Len(input') = Len(input) - n
         /\ \A i \in 1..Len(input') : input'[i] = input[n + i]
         /\ InOrder'
         /\ \E later : Reads(later)' /\ \A i \in 1..(Len(input') + 1) : later[i] = course[n + i]
  <1> HIDE DEF Token
  <1>1. PICK m : m = Len(input) - n
    OBVIOUS
  <1>2. m \in Nat /\ Len(input) = n + m
    BY <1>1
  <1>3. input' \in Seq(Token) /\ Len(input') = m
    BY <1>1
  <1>4. \A i \in 1..m : input'[i] = input[n + i]
    BY <1>1
  <1>5. \A i \in 1..m : n + i \in 1..Len(input)
    BY <1>2
  <1>6. InOrder'
    <2>1. \A i, j \in 1..m : i < j => n + i < n + j
      BY <1>2
    <2>2. \A i \in 1..Len(input') : input'[i].kind = "message" => input'[i].to <= frames
      BY <1>3, <1>4, <1>5 DEF InOrder
    <2>3. \A i, j \in 1..Len(input') :
             i < j /\ input'[i].kind = "message" /\ input'[j].kind = "message"
               => input'[i].to < input'[j].to
      <3> SUFFICES ASSUME NEW i \in 1..Len(input'), NEW j \in 1..Len(input'), i < j,
                          input'[i].kind = "message", input'[j].kind = "message"
                   PROVE  input'[i].to < input'[j].to
        OBVIOUS
      <3>1. i \in 1..m /\ j \in 1..m
        BY <1>3
      <3>2. n + i < n + j /\ n + i \in 1..Len(input) /\ n + j \in 1..Len(input)
        BY <1>5, <2>1, <3>1
      <3>3. input'[i] = input[n + i] /\ input'[j] = input[n + j]
        BY <1>4, <3>1
      <3>4. input[n + i].to < input[n + j].to
        BY <3>2, <3>3, Zenon DEF InOrder
      <3> QED BY <3>3, <3>4, Zenon
    <2> QED BY <2>2, <2>3 DEF InOrder
  <1> DEFINE later == [i \in 1..(m + 1) |-> course[n + i]]
  <1>7. Reads(later)'
    <2>1. \A i \in 1..(m + 1) : n + i \in 1..(Len(input) + 1)
      BY <1>2
    <2>2. later \in [1..(m + 1) -> Mode]
      BY <2>1 DEF Reads
    <2>3. \A i \in 1..(m + 1) : later[i] = course[n + i]
      OBVIOUS
    <2> HIDE DEF later
    <2>4. later[1] = reader'
      <3>1. 1 \in 1..(m + 1)
        BY <1>2
      <3> QED BY <2>3, <3>1
    <2>5. later[m + 1] = "line"
      <3>1. m + 1 \in 1..(m + 1) /\ n + (m + 1) = Len(input) + 1
        BY <1>2
      <3>2. later[m + 1] = course[n + (m + 1)]
        BY <2>3, <3>1
      <3> QED BY <3>1, <3>2 DEF Reads
    <2>6. ASSUME NEW i \in 1..m PROVE ReadsOn(later[i], input'[i], later[i + 1])
      <3>1. i \in 1..(m + 1) /\ i + 1 \in 1..(m + 1) /\ n + (i + 1) = (n + i) + 1
        BY <1>2
      <3>2. later[i] = course[n + i] /\ later[i + 1] = course[(n + i) + 1]
        BY <2>3, <3>1
      <3>3. ReadsOn(course[n + i], input[n + i], course[(n + i) + 1])
        BY <1>5, Zenon DEF Reads
      <3> HIDE DEF ReadsOn
      <3> QED BY <1>4, <3>2, <3>3, Zenon
    <2> QED BY <1>3, <2>2, <2>4, <2>5, <2>6 DEF Reads
  <1>8. \A i \in 1..(Len(input') + 1) : later[i] = course[n + i]
    BY <1>3
  <1>9. Len(input') = Len(input) - n /\ \A i \in 1..Len(input') : input'[i] = input[n + i]
    BY <1>1, <1>3, <1>4
  <1> HIDE DEF later, Reads, InOrder
  <1> QED BY <1>3, <1>6, <1>7, <1>8, <1>9, Zenon

(* The first n tokens are read and none of them asks for an answer.        *)
LEMMA NothingAsked ==
  ASSUME FramesInv, ~astray, reader # "ended", UNCHANGED <<closed, frames, wanted, astray>>,
         replies' = replies,
         NEW course, Reads(course), Owes(course), NEW n \in Nat, n <= Len(input),
         \A i \in 1..n : ~Calls(input[i]),
         input' = SubSeq(input, n + 1, Len(input)), reader' = course[n + 1],
         reader' \in {"line", "headers", "body"}, reader' # "line" => measured'
  PROVE  FramesInv'
  <1>1. /\ input \in Seq(Token) /\ wanted \in Seq(Reply) /\ replies \in Seq(Reply)
        /\ frames \in Nat /\ InOrder
        /\ Len(replies) <= Len(wanted) /\ replies = SubSeq(wanted, 1, Len(replies))
    BY DEF FramesInv
  <1>2. /\ input' \in Seq(Token) /\ Len(input') = Len(input) - n
        /\ \A i \in 1..Len(input') : input'[i] = input[n + i]
        /\ InOrder'
        /\ \E later : Reads(later)' /\ \A i \in 1..(Len(input') + 1) : later[i] = course[n + i]
    BY <1>1, CourseGoesOn
  <1>3. PICK later : Reads(later)' /\ \A i \in 1..(Len(input') + 1) : later[i] = course[n + i]
    BY <1>2
  <1>4. Due' = Due
    BY DEF Due
  <1>5. \A i \in 1..Len(input') : n + i \in 1..Len(input) /\ later[i] = course[n + i]
    BY <1>1, <1>2, <1>3
  <1>6. Owes(later)'
    <2>1. ASSUME NEW i \in 1..Len(input'), Calls(input'[i])
          PROVE  \E k \in Due' : wanted'[k] = [to |-> input'[i].to, form |-> FormAt(later[i])]
      <3>1. input'[i] = input[n + i] /\ n + i \in 1..Len(input) /\ later[i] = course[n + i]
        BY <1>2, <1>5
      <3>2. \E k \in Due : wanted[k] = [to |-> input[n + i].to, form |-> FormAt(course[n + i])]
        BY <2>1, <3>1, Zenon DEF Owes
      <3> QED BY <1>4, <3>1, <3>2
    <2>2. ASSUME NEW k \in Due'
          PROVE  \E i \in 1..Len(input') : Calls(input'[i]) /\ input'[i].to = wanted'[k].to
      <3>1. PICK i \in 1..Len(input) : Calls(input[i]) /\ input[i].to = wanted[k].to
        BY <1>4, Zenon DEF Owes
      <3>2. PICK j \in 1..(Len(input) - n) : i = n + j
        <4>1. ~(i \in 1..n)
          BY <3>1
        <4>2. i - n \in 1..(Len(input) - n) /\ i = n + (i - n)
          BY <1>1, <4>1
        <4> QED BY <4>2
      <3>3. j \in 1..Len(input') /\ input'[j] = input[i]
        BY <1>2, <3>2
      <3> QED BY <3>1, <3>3
    <2> QED BY <2>1, <2>2 DEF Owes
  <1>7. \E c : Reads(c)' /\ Owes(c)'
    BY <1>3, <1>6, Zenon
  <1>8. wanted' = wanted /\ replies' = replies /\ frames' = frames /\ astray' = FALSE
        /\ reader' # "ended"
    BY <1>1 DEF FramesInv
  <1> HIDE DEF InOrder, Reads, Owes, Token, Reply
  <1>9. /\ wanted' \in Seq(Reply) /\ replies' \in Seq(Reply) /\ frames' \in Nat
        /\ Len(replies') <= Len(wanted') /\ replies' = SubSeq(wanted', 1, Len(replies'))
    BY <1>1, <1>8, Zenon
  <1> QED BY <1>2, <1>7, <1>8, <1>9, Zenon DEF FramesInv

(* The first n tokens are read, and the first of them alone asks for an    *)
(* answer, which it gets.                                                  *)
LEMMA FirstIsAnswered ==
  ASSUME FramesInv, ~astray, reader # "ended", UNCHANGED <<closed, frames, wanted, astray>>,
         NEW course, Reads(course), Owes(course), NEW n \in Nat, 1 <= n, n <= Len(input),
         Calls(input[1]), \A i \in 2..n : ~Calls(input[i]),
         replies' = Append(replies, [to |-> input[1].to, form |-> FormAt(course[1])]),
         input' = SubSeq(input, n + 1, Len(input)), reader' = course[n + 1],
         reader' \in {"line", "headers", "body"}, reader' # "line" => measured'
  PROVE  FramesInv'
  <1>1. /\ input \in Seq(Token) /\ wanted \in Seq(Reply) /\ replies \in Seq(Reply)
        /\ frames \in Nat /\ InOrder
        /\ Len(replies) <= Len(wanted) /\ replies = SubSeq(wanted, 1, Len(replies))
    BY DEF FramesInv
  <1>2. /\ input' \in Seq(Token) /\ Len(input') = Len(input) - n
        /\ \A i \in 1..Len(input') : input'[i] = input[n + i]
        /\ InOrder'
        /\ \E later : Reads(later)' /\ \A i \in 1..(Len(input') + 1) : later[i] = course[n + i]
    BY <1>1, CourseGoesOn
  <1>3. PICK later : Reads(later)' /\ \A i \in 1..(Len(input') + 1) : later[i] = course[n + i]
    BY <1>2
  <1>4. \A i \in 1..Len(input') : n + i \in 1..Len(input) /\ later[i] = course[n + i]
    <2>1. \A i \in 1..(Len(input) - n) :
             n + i \in 1..Len(input) /\ i \in 1..(Len(input) - n + 1)
      BY <1>1
    <2> QED BY <1>2, <1>3, <2>1, Zenon
  <1>5. 1 \in 1..Len(input)
    BY <1>1
  <1>6. PICK first \in Due : wanted[first] = [to |-> input[1].to, form |-> FormAt(course[1])]
    BY <1>5, Zenon DEF Owes
  <1>7. PICK q : q = Len(replies) + 1
    OBVIOUS
  <1>8. q \in Due /\ Due \subseteq 1..Len(wanted) /\ q \in Nat /\ \A k \in Due : q <= k
    BY <1>1, <1>6, <1>7 DEF Due
  <1>9. \A k \in 1..Len(wanted) : wanted[k].to \in Int
    <2>1. \A x \in Reply : x.to \in Int
      BY DEF Reply
    <2> QED BY <1>1, <2>1
  <1>10. \A i \in 1..Len(input) : Calls(input[i]) => input[i].to \in Int
    BY <1>1 DEF Calls, Token, EndOfLine, Header
  <1>11. \A i \in 1..Len(input) : Calls(input[i]) /\ i # 1 => input[1].to < input[i].to
    <2>1. \A i \in 1..Len(input) : i # 1 => 1 < i
      OBVIOUS
    <2>2. \A i \in 1..Len(input) : Calls(input[i]) => input[i].kind = "message"
      BY DEF Calls
    <2> QED BY <1>1, <1>5, <2>1, <2>2, Zenon DEF InOrder
  <1>12. first = q
    <2> SUFFICES ASSUME first # q PROVE FALSE
      OBVIOUS
    <2>1. q < first
      BY <1>8
    <2>2. wanted[q].to < wanted[first].to
      BY <1>1, <1>8, <2>1 DEF InOrder
    <2>3. PICK i \in 1..Len(input) : Calls(input[i]) /\ input[i].to = wanted[q].to
      BY <1>8, Zenon DEF Owes
    <2>4. i # 1 => input[1].to < input[i].to
      BY <1>11, <2>3
    <2>5. wanted[first].to = input[1].to
      BY <1>6
    <2>6. input[1].to \in Int /\ input[i].to \in Int
      BY <1>5, <1>10, <2>3
    <2> QED BY <2>2, <2>3, <2>4, <2>5, <2>6
  <1>13. replies' = Append(replies, wanted[q])
    BY <1>6, <1>12
  <1>14. /\ replies' \in Seq(Reply) /\ Len(replies') = q /\ q <= Len(wanted)
         /\ replies' = SubSeq(wanted, 1, q)
    <2>1. q \in 1..Len(wanted) /\ wanted[q] \in Reply
      BY <1>1, <1>8
    <2>2. replies' \in Seq(Reply) /\ Len(replies') = q /\ q <= Len(wanted)
      BY <1>1, <1>7, <1>13, <2>1
    <2>3. \A i \in 1..Len(replies) : replies[i] = wanted[i]
      BY <1>1
    <2>4. \A i \in 1..q : replies'[i] = wanted[i]
      BY <1>1, <1>7, <1>13, <2>3
    <2>5. SubSeq(wanted, 1, q) \in Seq(Reply) /\ Len(SubSeq(wanted, 1, q)) = q
          /\ \A i \in 1..q : SubSeq(wanted, 1, q)[i] = wanted[i]
      BY <1>1, <2>1
    <2> QED BY <2>2, <2>4, <2>5
  <1>15. \A k : k \in Due' <=> k \in Due /\ k # q
    BY <1>1, <1>7, <1>14 DEF Due
  <1>16. \A k \in Due : k # q => wanted[k].to # input[1].to
    <2> SUFFICES ASSUME NEW k \in Due, k # q PROVE wanted[k].to # input[1].to
      OBVIOUS
    <2>1. wanted[q].to < wanted[k].to
      BY <1>1, <1>8 DEF InOrder
    <2>2. wanted[q].to = input[1].to
      BY <1>6, <1>12
    <2>3. wanted[q].to \in Int /\ wanted[k].to \in Int
      BY <1>8, <1>9
    <2> QED BY <2>1, <2>2, <2>3
  <1>17. Owes(later)'
    <2>1. ASSUME NEW i \in 1..Len(input'), Calls(input'[i])
          PROVE  \E k \in Due' : wanted'[k] = [to |-> input'[i].to, form |-> FormAt(later[i])]
      <3>1. input'[i] = input[n + i] /\ n + i \in 1..Len(input) /\ later[i] = course[n + i]
        BY <1>2, <1>4
      <3>2. PICK k \in Due :
               wanted[k] = [to |-> input[n + i].to, form |-> FormAt(course[n + i])]
        BY <2>1, <3>1, Zenon DEF Owes
      <3>3. n + i # 1
        BY <1>2
      <3>4. input[1].to < input[n + i].to
        BY <1>11, <2>1, <3>1, <3>3
      <3>5. input[1].to \in Int /\ input[n + i].to \in Int
        BY <1>5, <1>10, <2>1, <3>1
      <3>6. wanted[k].to = input[n + i].to /\ wanted[q].to = input[1].to
        BY <1>6, <1>12, <3>2
      <3>7. k # q
        BY <3>4, <3>5, <3>6
      <3> QED BY <1>15, <3>1, <3>2, <3>7
    <2>2. ASSUME NEW k \in Due'
          PROVE  \E i \in 1..Len(input') : Calls(input'[i]) /\ input'[i].to = wanted'[k].to
      <3>1. k \in Due /\ k # q
        BY <1>15
      <3>2. PICK i \in 1..Len(input) : Calls(input[i]) /\ input[i].to = wanted[k].to
        BY <3>1, Zenon DEF Owes
      <3>3. i # 1
        BY <1>16, <3>1, <3>2
      <3>4. PICK j \in 1..(Len(input) - n) : i = n + j
        <4>1. ~(i \in 2..n)
          BY <3>2
        <4>2. i - n \in 1..(Len(input) - n) /\ i = n + (i - n)
          BY <1>1, <3>3, <4>1
        <4> QED BY <4>2
      <3>5. j \in 1..Len(input') /\ input'[j] = input[i]
        BY <1>2, <3>4
      <3> QED BY <3>2, <3>5
    <2> QED BY <2>1, <2>2 DEF Owes
  <1>18. \E c : Reads(c)' /\ Owes(c)'
    BY <1>3, <1>17, Zenon
  <1>19. wanted' = wanted /\ frames' = frames /\ astray' = FALSE /\ reader' # "ended"
    BY <1>1 DEF FramesInv
  <1> HIDE DEF InOrder, Reads, Owes, Token, Reply
  <1>20. /\ wanted' \in Seq(Reply) /\ frames' \in Nat
         /\ Len(replies') <= Len(wanted') /\ replies' = SubSeq(wanted', 1, Len(replies'))
    BY <1>1, <1>14, <1>19, Zenon
  <1> QED BY <1>2, <1>14, <1>18, <1>19, <1>20, Zenon DEF FramesInv

(* A stream with something in it has a first token.                        *)
LEMMA FirstOf ==
  ASSUME NEW S, NEW s \in Seq(S), s # <<>>
  PROVE  1 \in 1..Len(s) /\ s[1] \in S /\ SubSeq(s, 1, 0) = <<>> /\ SubSeq(s, 1, 1) = <<s[1]>>
  <1>1. Len(s) \in Nat /\ Len(s) # 0
    BY EmptySeq
  <1>2. 1 \in 1..Len(s) /\ s[1] \in S
    BY <1>1
  <1>3. SubSeq(s, 1, 1) = <<s[1]>>
    <2>1. SubSeq(s, 1, 1) \in Seq(S) /\ Len(SubSeq(s, 1, 1)) = 1 /\ SubSeq(s, 1, 1)[1] = s[1]
      BY <1>1, <1>2
    <2>2. <<s[1]>> \in Seq(S) /\ Len(<<s[1]>>) = 1 /\ <<s[1]>>[1] = s[1]
      BY <1>2
    <2>3. \A t \in Seq(S) : Len(t) = 1 /\ t[1] = s[1] => t = [i \in {1} |-> s[1]]
      OBVIOUS
    <2> QED BY <2>1, <2>2, <2>3, Zenon
  <1> QED BY <1>2, <1>3

(* A line in the stream: it is blank, or something and its end.            *)
LEMMA LinesRead ==
  ASSUME input \in Seq(Token), NEW course, Reads(course), input # <<>>,
         reader \in {"line", "headers"}
  PROVE  /\ LineEnds # {}
         /\ \/ /\ input[1].kind = "eol" /\ Text = <<>> /\ LineRead = 1
               /\ course[2] = IF reader = "line" THEN "line" ELSE "body"
            \/ /\ input[1].kind # "eol" /\ Text = <<input[1]>> /\ LineRead = 2
               /\ 2 <= Len(input) /\ input[2] = EndOfLine
               /\ course[3] = IF reader = "line" /\ input[1].kind # "length"
                              THEN "line" ELSE "headers"
         /\ Rest = SubSeq(input, LineRead + 1, Len(input))
         /\ reader = "line" => input[1].kind \in {"eol", "length", "type", "message"}
         /\ reader = "headers" => input[1].kind \in {"eol", "type"}
  <1>1. 1 \in 1..Len(input) /\ input[1] \in Token
    <2> HIDE DEF Token
    <2> QED BY FirstOf, Zenon
  <1>2. ReadsOn(reader, input[1], course[2])
    <2>1. ReadsOn(course[1], input[1], course[1 + 1])
      BY <1>1, Zenon DEF Reads
    <2> QED BY <2>1 DEF Reads
  <1>3. CASE input[1].kind = "eol"
    <2>1. input[1] = EndOfLine
      BY <1>1, <1>3, Tokens
    <2> HIDE DEF EndOfLine, Token
    <2>2. LineEnds # {} /\ LineRead = 1 /\ Text = SubSeq(input, 1, 1 - 1)
          /\ Rest = SubSeq(input, 1 + 1, Len(input))
      BY <1>1, <2>1, FirstLine
    <2>3. Text = <<>>
      BY <2>2
    <2> QED BY <1>2, <1>3, <2>2, <2>3 DEF ReadsOn
  <1>4. CASE input[1].kind # "eol"
    <2>1. course[2] \in {"told", "length"}
          /\ (course[2] = "told" <=> reader = "line" /\ input[1].kind # "length")
      BY <1>2, <1>4 DEF ReadsOn
    <2>2. 2 \in 1..Len(input)
      <3>1. course[Len(input) + 1] = "line"
        BY DEF Reads
      <3> QED BY <1>1, <2>1, <3>1
    <2>3. ReadsOn(course[2], input[2], course[3])
      <3>1. ReadsOn(course[2], input[2], course[2 + 1])
        BY <2>2, Zenon DEF Reads
      <3> QED BY <3>1
    <2>4. input[2].kind = "eol" /\ course[3] = IF course[2] = "told" THEN "line" ELSE "headers"
      BY <2>1, <2>3 DEF ReadsOn
    <2>5. input[2] = EndOfLine /\ input[1] # EndOfLine
      <3>1. input[2] \in Token
        BY <2>2
      <3> QED BY <1>4, <2>4, <3>1, Tokens
    <2> HIDE DEF EndOfLine, Token
    <2>6. LineEnds # {} /\ LineRead = 2 /\ Text = SubSeq(input, 1, 2 - 1)
          /\ Rest = SubSeq(input, 2 + 1, Len(input))
      <3>1. \A j \in 1..(2 - 1) : input[j] # EndOfLine
        BY <2>5
      <3> QED BY <2>2, <2>5, <3>1, FirstLine
    <2>7. Text = <<input[1]>>
      <3>1. 2 - 1 = 1
        OBVIOUS
      <3>2. SubSeq(input, 1, 1) = <<input[1]>>
        BY FirstOf, Zenon
      <3> QED BY <2>6, <3>1, <3>2, Zenon
    <2>8. LineRead + 1 = 3 /\ 2 <= Len(input)
      BY <2>2, <2>6
    <2>9. reader = "line" => input[1].kind \in {"eol", "length", "type", "message"}
      BY <1>2 DEF ReadsOn
    <2>10. reader = "headers" => input[1].kind \in {"eol", "type"}
      BY <1>2 DEF ReadsOn
    <2>11. Rest = SubSeq(input, LineRead + 1, Len(input))
      BY <2>6
    <2>12. course[3] = IF reader = "line" /\ input[1].kind # "length" THEN "line" ELSE "headers"
      BY <2>1, <2>4
    <2> QED BY <1>4, <2>5, <2>6, <2>7, <2>8, <2>9, <2>10, <2>11, <2>12
  <1> QED BY <1>3, <1>4

(* Nothing is left: nothing is asked for.                                  *)
LEMMA NothingLeft ==
  ASSUME FramesInv, ~astray, reader # "ended", input = <<>>
  PROVE  Len(replies) = Len(wanted) /\ reader = "line"
  <1>1. /\ wanted \in Seq(Reply) /\ replies \in Seq(Reply) /\ Len(replies) <= Len(wanted)
        /\ \E course : Reads(course) /\ Owes(course)
    BY DEF FramesInv
  <1>2. PICK course : Reads(course) /\ Owes(course)
    BY <1>1
  <1>3. Len(input) = 0
    OBVIOUS
  <1>4. reader = "line"
    BY <1>2, <1>3 DEF Reads
  <1>5. Due = {}
    <2>1. \A k \in Due : \E i \in 1..Len(input) : Calls(input[i])
      BY <1>2, Zenon DEF Owes
    <2> QED BY <1>3, <2>1
  <1>6. Len(replies) = Len(wanted)
    <2>1. Len(replies) \in Nat /\ Len(wanted) \in Nat
      BY <1>1
    <2>2. Len(replies) < Len(wanted) => Len(replies) + 1 \in (Len(replies) + 1)..Len(wanted)
      BY <2>1
    <2>3. ~(Len(replies) < Len(wanted))
      BY <1>5, <2>2, Zenon DEF Due
    <2> QED BY <1>1, <2>1, <2>3
  <1> QED BY <1>4, <1>6

(* A message is answered when something calls for it.                      *)
LEMMA Messages ==
  /\ \A x \in Token : x.kind = "message" => x.to \in Nat
  /\ \A x : Calls(x) <=> x.kind = "message" /\ x.what \in Answered
  /\ ~Calls(EndOfLine) /\ \A k \in {"length", "type"} : ~Calls(Header(k))
  BY DEF Calls, Token, EndOfLine, Header

(* The reader of lines.                                                    *)
LEMMA ReadLineKeepsFrames ==
  ASSUME FramesInv, ReadLine
  PROVE  FramesInv'
  <1>1. CASE astray
    BY <1>1 DEF FramesInv, ReadLine
  <1>2. CASE ~astray /\ input = <<>>
    <2>1. reader = "line" /\ CanReadLine
      BY DEF ReadLine
    <2>2. Len(replies) = Len(wanted)
      BY <1>2, <2>1, NothingLeft
    <2>3. LineEnds = {}
      BY <1>2 DEF LineEnds
    <2>4. closed /\ LineRead = 0 /\ Text = <<>> /\ Rest = <<>>
      BY <1>2, <2>1, <2>3 DEF CanReadLine, LineRead, Text, Rest
    <2>5. ~IsMessage(Text)
      BY <2>4 DEF IsMessage
    <2>6. /\ input' = <<>> /\ replies' = replies /\ reader' = "ended" /\ closed' = closed
          /\ frames' = frames /\ wanted' = wanted /\ astray' = astray
      BY <1>2, <2>4, <2>5 DEF ReadLine
    <2>7. InOrder'
      <3>1. InOrder
        BY <1>2 DEF FramesInv
      <3> QED BY <1>2, <2>6, <3>1 DEF InOrder
    <2> HIDE DEF InOrder, Token, Reply
    <2> QED BY <1>2, <2>1, <2>2, <2>4, <2>6, <2>7 DEF FramesInv
  <1>3. CASE ~astray /\ input # <<>>
    <2>1. reader = "line" /\ CanReadLine
      BY DEF ReadLine
    <2>2. input \in Seq(Token) /\ \E course : Reads(course) /\ Owes(course)
      BY <1>3, <2>1 DEF FramesInv
    <2>3. PICK course : Reads(course) /\ Owes(course)
      BY <2>2
    <2>4. /\ LineEnds # {}
          /\ \/ /\ input[1].kind = "eol" /\ Text = <<>> /\ LineRead = 1
                /\ course[2] = IF reader = "line" THEN "line" ELSE "body"
             \/ /\ input[1].kind # "eol" /\ Text = <<input[1]>> /\ LineRead = 2
                /\ 2 <= Len(input) /\ input[2] = EndOfLine
                /\ course[3] = IF reader = "line" /\ input[1].kind # "length"
                               THEN "line" ELSE "headers"
          /\ Rest = SubSeq(input, LineRead + 1, Len(input))
          /\ reader = "line" => input[1].kind \in {"eol", "length", "type", "message"}
      BY <1>3, <2>1, <2>2, <2>3, LinesRead, Zenon
    <2>5. /\ input' = Rest /\ UNCHANGED <<closed, frames, wanted, astray>>
          /\ replies' = IF IsMessage(Text) /\ Text[1].what \in Answered
                        THEN Append(replies, [to |-> Text[1].to, form |-> "line"]) ELSE replies
          /\ reader' = IF IsFramed(Text) THEN "headers" ELSE "line"
          /\ measured' = (IsFramed(Text) /\ Text[1].kind = "length")
      BY <1>3 DEF ReadLine, Handle
    <2>6. course[1] = "line" /\ 1 \in 1..Len(input) /\ input[1] \in Token /\ 1 <= Len(input)
      <3>1. 1 \in 1..Len(input) /\ input[1] \in Token
        BY <1>3, <2>2, FirstOf, Zenon
      <3> QED BY <2>1, <2>3, <3>1 DEF Reads
    <2> HIDE DEF Token, EndOfLine, Reads, Owes, Calls
    <2>7. CASE input[1].kind = "eol"
      <3>1. Text = <<>> /\ Rest = SubSeq(input, 1 + 1, Len(input)) /\ course[1 + 1] = "line"
        BY <2>1, <2>4, <2>7
      <3>2. ~IsMessage(Text) /\ ~IsFramed(Text)
        BY <3>1 DEF IsMessage, IsFramed
      <3>3. /\ input' = SubSeq(input, 1 + 1, Len(input)) /\ replies' = replies
            /\ reader' = "line" /\ reader' = course[1 + 1]
        BY <2>5, <3>1, <3>2
      <3>4. \A i \in 1..1 : ~Calls(input[i])
        BY <2>7, Messages
      <3> QED BY <1>3, <2>1, <2>3, <2>5, <2>6, <3>3, <3>4, NothingAsked
    <2>8. CASE input[1].kind # "eol"
      <3>1. /\ Text = <<input[1]>> /\ Rest = SubSeq(input, 2 + 1, Len(input)) /\ 2 <= Len(input)
            /\ input[2] = EndOfLine
            /\ course[2 + 1] = IF input[1].kind # "length" THEN "line" ELSE "headers"
        <4>1. /\ Text = <<input[1]>> /\ LineRead = 2 /\ 2 <= Len(input) /\ input[2] = EndOfLine
              /\ Rest = SubSeq(input, LineRead + 1, Len(input))
              /\ course[3] = IF input[1].kind # "length" THEN "line" ELSE "headers"
          BY <2>1, <2>4, <2>8, Zenon
        <4>2. 2 + 1 = 3
          OBVIOUS
        <4> QED BY <4>1, <4>2, Zenon
      <3>2. /\ IsMessage(Text) <=> input[1].kind = "message"
            /\ IsFramed(Text) <=> input[1].kind \in {"length", "badLength"}
            /\ Text[1] = input[1]
        BY <3>1 DEF IsMessage, IsFramed
      <3>3. /\ reader' = IF input[1].kind = "length" THEN "headers" ELSE "line"
            /\ measured' = (input[1].kind = "length")
        BY <2>1, <2>4, <2>5, <3>2
      <3>4. reader' = course[2 + 1] /\ reader' \in {"line", "headers", "body"}
            /\ (reader' # "line" => measured')
        BY <3>1, <3>3
      <3>5. input' = SubSeq(input, 2 + 1, Len(input))
        BY <2>5, <3>1
      <3>6. \A i \in 2..2 : ~Calls(input[i])
        BY <3>1, Messages
      <3>7. CASE Calls(input[1])
        <4>1. replies' = Append(replies, [to |-> input[1].to, form |-> "line"])
          BY <2>5, <3>2, <3>7, Messages
        <4>2. FormAt(course[1]) = "line"
          BY <2>6 DEF FormAt
        <4>3. replies' = Append(replies, [to |-> input[1].to, form |-> FormAt(course[1])])
          BY <4>1, <4>2, Zenon
        <4>4. reader # "ended" /\ 2 \in Nat /\ 1 <= 2
          BY <2>1
        <4> QED BY <1>3, <2>3, <2>5, <3>1, <3>4, <3>5, <3>6, <3>7, <4>3, <4>4, FirstIsAnswered, Zenon
      <3>8. CASE ~Calls(input[1])
        <4>1. replies' = replies
          BY <2>5, <3>2, <3>8, Messages
        <4>2. \A i \in 1..2 : ~Calls(input[i])
          BY <3>6, <3>8
        <4> QED BY <1>3, <2>1, <2>3, <2>5, <3>1, <3>4, <3>5, <4>1, <4>2, NothingAsked
      <3> QED BY <3>7, <3>8
    <2> QED BY <2>7, <2>8
  <1> QED BY <1>1, <1>2, <1>3 DEF FramesInv

(* The reader of headers.                                                  *)
LEMMA DrainHeadersKeepsFrames ==
  ASSUME FramesInv, DrainHeaders
  PROVE  FramesInv'
  <1>1. CASE astray
    BY <1>1 DEF FramesInv, DrainHeaders
  <1>2. CASE ~astray
    <2>1. /\ reader = "headers" /\ input' = Rest /\ replies' = replies
          /\ UNCHANGED <<closed, frames, wanted, astray>>
          /\ measured' = (measured \/ Text = <<Header("length")>>)
          /\ reader' = IF Text # <<>> THEN "headers" ELSE IF measured THEN "body" ELSE "line"
      BY DEF DrainHeaders
    <2>2. /\ input \in Seq(Token) /\ measured
          /\ \E course : Reads(course) /\ Owes(course)
      BY <1>2, <2>1 DEF FramesInv
    <2>3. PICK course : Reads(course) /\ Owes(course)
      BY <2>2
    <2>4. input # <<>>
      BY <1>2, <2>1, NothingLeft
    <2>5. /\ \/ /\ input[1].kind = "eol" /\ Text = <<>> /\ LineRead = 1
                /\ course[2] = IF reader = "line" THEN "line" ELSE "body"
             \/ /\ input[1].kind # "eol" /\ Text = <<input[1]>> /\ LineRead = 2
                /\ 2 <= Len(input) /\ input[2] = EndOfLine
                /\ course[3] = IF reader = "line" /\ input[1].kind # "length"
                               THEN "line" ELSE "headers"
          /\ Rest = SubSeq(input, LineRead + 1, Len(input))
          /\ reader = "headers" => input[1].kind \in {"eol", "type"}
      BY <2>1, <2>2, <2>3, <2>4, LinesRead, Zenon
    <2>6. 1 \in 1..Len(input) /\ 1 <= Len(input)
      <3>1. 1 \in 1..Len(input)
        BY <2>2, <2>4, FirstOf, Zenon
      <3> QED BY <3>1
    <2> HIDE DEF Token, EndOfLine, Reads, Owes, Calls
    <2>7. CASE input[1].kind = "eol"
      <3>1. Text = <<>> /\ Rest = SubSeq(input, 1 + 1, Len(input)) /\ course[1 + 1] = "body"
        BY <2>1, <2>5, <2>7
      <3>2. /\ input' = SubSeq(input, 1 + 1, Len(input)) /\ measured'
            /\ reader' = "body" /\ reader' = course[1 + 1]
        BY <2>1, <2>2, <3>1
      <3>3. \A i \in 1..1 : ~Calls(input[i])
        BY <2>7, Messages
      <3> QED BY <1>2, <2>1, <2>3, <2>6, <3>2, <3>3, NothingAsked
    <2>8. CASE input[1].kind # "eol"
      <3>1. /\ Text = <<input[1]>> /\ Rest = SubSeq(input, 2 + 1, Len(input)) /\ 2 <= Len(input)
            /\ input[2] = EndOfLine /\ course[2 + 1] = "headers" /\ input[1].kind = "type"
        <4>1. /\ Text = <<input[1]>> /\ LineRead = 2 /\ 2 <= Len(input) /\ input[2] = EndOfLine
              /\ Rest = SubSeq(input, LineRead + 1, Len(input)) /\ course[3] = "headers"
          BY <2>1, <2>5, <2>8, Zenon
        <4>2. 2 + 1 = 3
          OBVIOUS
        <4>3. input[1].kind = "type"
          BY <2>1, <2>5, <2>8
        <4> QED BY <4>1, <4>2, <4>3, Zenon
      <3>2. Text # <<>>
        BY <3>1
      <3>3. /\ input' = SubSeq(input, 2 + 1, Len(input)) /\ measured'
            /\ reader' = "headers" /\ reader' = course[2 + 1]
        BY <2>1, <2>2, <3>1, <3>2
      <3>4. \A i \in 1..2 : ~Calls(input[i])
        BY <3>1, Messages
      <3> QED BY <1>2, <2>1, <2>3, <3>1, <3>3, <3>4, NothingAsked
    <2> QED BY <2>7, <2>8
  <1> QED BY <1>1, <1>2

(* The reader of a body.                                                   *)
LEMMA DrainBodyKeepsFrames ==
  ASSUME FramesInv, DrainBody
  PROVE  FramesInv'
  <1>1. CASE astray
    BY <1>1 DEF FramesInv, DrainBody
  <1>2. CASE ~astray
    <2>1. /\ reader = "body" /\ input # <<>> /\ input' = Tail(input) /\ reader' = "line"
          /\ UNCHANGED <<closed, measured, frames, wanted, astray>>
          /\ replies' = IF Head(input).what \in Answered
                        THEN Append(replies, [to |-> Head(input).to, form |-> "framed"])
                        ELSE replies
      BY DEF DrainBody, Handle
    <2>2. input \in Seq(Token) /\ \E course : Reads(course) /\ Owes(course)
      BY <1>2, <2>1 DEF FramesInv
    <2>3. PICK course : Reads(course) /\ Owes(course)
      BY <2>2
    <2>4. 1 \in 1..Len(input) /\ 1 <= Len(input)
      <3>1. 1 \in 1..Len(input)
        BY <2>1, <2>2, FirstOf, Zenon
      <3> QED BY <3>1
    <2>5. ReadsOn("body", input[1], course[1 + 1]) /\ course[1] = "body"
      BY <2>1, <2>3, <2>4 DEF Reads
    <2>6. input[1].kind = "message" /\ course[1 + 1] = "line"
      BY <2>5 DEF ReadsOn
    <2> HIDE DEF Token, Reads, Owes, Calls
    <2>7. Head(input) = input[1] /\ input' = SubSeq(input, 1 + 1, Len(input))
      BY <2>1, <2>2
    <2>8. CASE Calls(input[1])
      <3>1. FormAt(course[1]) = "framed"
        BY <2>5 DEF FormAt
      <3>2. replies' = Append(replies, [to |-> input[1].to, form |-> FormAt(course[1])])
        BY <2>1, <2>7, <2>8, <3>1, Messages, Zenon
      <3>3. \A i \in 2..1 : ~Calls(input[i])
        OBVIOUS
      <3>4. /\ reader # "ended" /\ 1 \in Nat /\ 1 <= 1 /\ reader' = course[1 + 1]
            /\ reader' \in {"line", "headers", "body"} /\ (reader' # "line" => measured')
        BY <2>1, <2>6
      <3> QED BY <1>2, <2>1, <2>3, <2>4, <2>7, <2>8, <3>2, <3>3, <3>4, FirstIsAnswered, Zenon
    <2>9. CASE ~Calls(input[1])
      <3>1. replies' = replies
        BY <2>1, <2>6, <2>7, <2>9, Messages
      <3>2. \A i \in 1..1 : ~Calls(input[i])
        BY <2>9
      <3> QED BY <1>2, <2>1, <2>3, <2>4, <2>6, <2>7, <3>1, <3>2, NothingAsked
    <2> QED BY <2>8, <2>9
  <1> QED BY <1>1, <1>2

(* What the client writes is read to its end, from a line to a line.       *)
LEMMA WriteKeepsFrames ==
  ASSUME FramesInv, Write
  PROVE  FramesInv'
  <1>1. PICK form \in {"line", "length", "typeFirst", "badLength", "blank"}, what \in What :
           /\ ~closed /\ input' = input \o Written(form, what) /\ frames' = frames + 1
           /\ wanted' = IF form # "blank" /\ what \in Answered
                        THEN Append(wanted, [to |-> frames', form |-> Form(form)]) ELSE wanted
           /\ astray' = (astray \/ form = "badLength")
           /\ UNCHANGED <<closed, reader, measured, replies>>
    BY DEF Write
  <1>2. astray' \in BOOLEAN
    BY <1>1 DEF FramesInv
  <1>3. CASE astray'
    BY <1>2, <1>3 DEF FramesInv
  <1>4. CASE ~astray'
    <2>1. ~astray /\ form # "badLength"
      BY <1>1, <1>4
    <2>2. frames \in Nat
      BY <2>1 DEF FramesInv
    <2>3. /\ Message(what) \in Token /\ EndOfLine \in Token
          /\ Message(what).kind = "message" /\ EndOfLine.kind = "eol"
          /\ Message(what).to = frames + 1 /\ (Calls(Message(what)) <=> what \in Answered)
          /\ ~Calls(EndOfLine)
          /\ \A k \in {"length", "type"} : Header(k).kind = k /\ ~Calls(Header(k))
      BY <2>2, Tokens, Messages
    <2> HIDE DEF Token, EndOfLine, Message, Header, Calls, What, Answered, FramesInv
    <2>4. CASE form = "blank"
      <3>1. PICK w : w = <<EndOfLine>>
        OBVIOUS
      <3>2. w \in Seq(Token) /\ Len(w) = 1 /\ w[1] = EndOfLine
        BY <2>3, <3>1
      <3>3. input' = input \o w /\ wanted' = wanted
        BY <1>1, <2>4, <3>1 DEF Written
      <3>4. PICK r : r = [i \in 1..2 |-> "line"]
        OBVIOUS
      <3>5. r \in [1..(Len(w) + 1) -> Mode] /\ r[1] = "line" /\ r[2] = "line"
        BY <3>2, <3>4 DEF Mode
      <3>6. /\ r[Len(w) + 1] = "line" /\ \A i \in 1..Len(w) : ReadsOn(r[i], w[i], r[i + 1])
            /\ \A i \in 1..Len(w) : w[i].kind # "message" /\ ~Calls(w[i])
        BY <2>3, <3>2, <3>5 DEF ReadsOn
      <3> QED BY <1>1, <1>2, <1>4, <2>1, <3>2, <3>3, <3>5, <3>6, FrameIsWritten
    <2>5. CASE form = "line"
      <3>1. PICK w : w = <<Message(what), EndOfLine>>
        OBVIOUS
      <3>2. w \in Seq(Token) /\ Len(w) = 2 /\ w[1] = Message(what) /\ w[2] = EndOfLine
        BY <2>3, <3>1
      <3>3. input' = input \o w
        BY <1>1, <2>5, <3>1 DEF Written
      <3>4. PICK r : r = [i \in 1..3 |-> IF i = 2 THEN "told" ELSE "line"]
        OBVIOUS
      <3>5. r \in [1..(Len(w) + 1) -> Mode] /\ r[1] = "line" /\ r[2] = "told" /\ r[3] = "line"
        BY <3>2, <3>4 DEF Mode
      <3>6. /\ r[Len(w) + 1] = "line" /\ \A i \in 1..Len(w) : ReadsOn(r[i], w[i], r[i + 1])
            /\ \A i \in 1..Len(w) : w[i].kind = "message" => w[i].to = frames + 1 /\ i = 1
        BY <2>3, <3>2, <3>5 DEF ReadsOn
      <3>7. PICK calls \in BOOLEAN : calls <=> what \in Answered
        OBVIOUS
      <3>8. \A i \in 1..Len(w) : Calls(w[i]) => calls /\ "line" = FormAt(r[i])
        BY <2>3, <3>2, <3>5, <3>7 DEF FormAt
      <3>9. calls => \E i \in 1..Len(w) : Calls(w[i])
        BY <2>3, <3>2, <3>7
      <3>10. wanted' = IF calls THEN Append(wanted, [to |-> frames + 1, form |-> "line"]) ELSE wanted
        BY <1>1, <2>5, <3>7 DEF Form
      <3> QED BY <1>1, <1>2, <1>4, <2>1, <3>2, <3>3, <3>5, <3>6, <3>8, <3>9, <3>10, FrameIsWritten
    <2>6. ASSUME NEW h \in {"length", "type"}, NEW g \in {"length", "type"}, h # g,
                 input' = input \o (Line(h) \o Line(g) \o <<EndOfLine, Message(what)>>),
                 form \in {"length", "typeFirst"}
          PROVE  FramesInv'
      <3>1. PICK w : w = Line(h) \o Line(g) \o <<EndOfLine, Message(what)>>
        OBVIOUS
      <3>2. Pairs(w, Header(h), EndOfLine, Header(g), EndOfLine, EndOfLine, Message(what))
        BY <2>2, <3>1, FramedTokens, Zenon
      <3>3. /\ w \in Seq(Token) /\ Len(w) = 6 /\ w[1] = Header(h) /\ w[2] = EndOfLine
            /\ w[3] = Header(g) /\ w[4] = EndOfLine /\ w[5] = EndOfLine /\ w[6] = Message(what)
        BY <3>2 DEF Pairs
      <3>4. input' = input \o w
        BY <2>6, <3>1, Zenon
      <3>5. PICK r :
               r = [i \in 1..7 |-> CASE i = 1 \/ i = 7 -> "line"
                                     [] i = 2 -> IF h = "length" THEN "length" ELSE "told"
                                     [] i = 3 -> IF h = "length" THEN "headers" ELSE "line"
                                     [] i = 4 -> "length"
                                     [] i = 5 -> "headers"
                                     [] i = 6 -> "body"]
        OBVIOUS
      <3>6. /\ r[1] = "line" /\ r[2] = (IF h = "length" THEN "length" ELSE "told")
            /\ r[3] = (IF h = "length" THEN "headers" ELSE "line")
            /\ r[4] = "length" /\ r[5] = "headers" /\ r[6] = "body" /\ r[7] = "line"
        BY <3>5
      <3>7. r \in [1..7 -> Mode]
        <4>1. \A i \in 1..7 : i = 1 \/ i = 2 \/ i = 3 \/ i = 4 \/ i = 5 \/ i = 6 \/ i = 7
          OBVIOUS
        <4>2. \A i \in 1..7 : r[i] \in Mode
          BY <3>6, <4>1 DEF Mode
        <4> HIDE DEF Mode
        <4> QED BY <3>5, <4>2
      <3>8. /\ ReadsOn(r[1], w[1], r[2]) /\ ReadsOn(r[2], w[2], r[3])
            /\ ReadsOn(r[3], w[3], r[4]) /\ ReadsOn(r[4], w[4], r[5])
            /\ ReadsOn(r[5], w[5], r[6]) /\ ReadsOn(r[6], w[6], r[7])
        BY <2>3, <2>6, <3>3, <3>6 DEF ReadsOn
      <3>9. \A i \in 1..6 : \/ i = 1 /\ i + 1 = 2
                            \/ i = 2 /\ i + 1 = 3
                            \/ i = 3 /\ i + 1 = 4
                            \/ i = 4 /\ i + 1 = 5
                            \/ i = 5 /\ i + 1 = 6
                            \/ i = 6 /\ i + 1 = 7
        OBVIOUS
      <3>10. \A i \in 1..6 : ReadsOn(r[i], w[i], r[i + 1])
        <4> HIDE DEF ReadsOn
        <4> QED BY <3>8, <3>9, Zenon
      <3>11. \A i \in 1..6 : /\ w[i].kind = "message" => w[i].to = frames + 1 /\ i = 6
                             /\ Calls(w[i]) => what \in Answered /\ i = 6
        BY <2>3, <3>3, <3>9
      <3>12. PICK calls \in BOOLEAN : calls <=> what \in Answered
        OBVIOUS
      <3>13. \A i \in 1..6 : Calls(w[i]) => calls /\ "framed" = FormAt(r[i])
        BY <3>6, <3>11, <3>12 DEF FormAt
      <3>14. calls => \E i \in 1..6 : Calls(w[i])
        BY <2>3, <3>3, <3>12
      <3>15. wanted' = IF calls THEN Append(wanted, [to |-> frames + 1, form |-> "framed"])
                       ELSE wanted
        BY <1>1, <2>6, <3>12 DEF Form
      <3>16. Len(w) = 6 /\ Len(w) + 1 = 7
        BY <3>3
      <3>17. \A i, j \in 1..Len(w) : w[i].kind = "message" /\ w[j].kind = "message" => i = j
        BY <3>11, <3>16
      <3>18. /\ r \in [1..(Len(w) + 1) -> Mode] /\ r[Len(w) + 1] = "line"
             /\ \A i \in 1..Len(w) : ReadsOn(r[i], w[i], r[i + 1])
             /\ \A i \in 1..Len(w) : w[i].kind = "message" => w[i].to = frames + 1
             /\ \A i \in 1..Len(w) : Calls(w[i]) => calls /\ "framed" = FormAt(r[i])
             /\ calls => \E i \in 1..Len(w) : Calls(w[i])
        BY <3>6, <3>7, <3>10, <3>11, <3>13, <3>14, <3>16, Zenon
      <3>19. "framed" \in {"line", "framed"}
        OBVIOUS
      <3> HIDE DEF ReadsOn, Mode
      <3> QED BY <1>1, <1>2, <1>4, <2>1, <3>3, <3>4, <3>6, <3>15, <3>17, <3>18, <3>19,
                 FrameIsWritten, Zenon
    <2>7. CASE form = "length"
      <3>1. input' = input \o (Line("length") \o Line("type") \o <<EndOfLine, Message(what)>>)
        BY <1>1, <2>7, Zenon DEF Written
      <3> QED BY <2>6, <2>7, <3>1
    <2>8. CASE form = "typeFirst"
      <3>1. input' = input \o (Line("type") \o Line("length") \o <<EndOfLine, Message(what)>>)
        BY <1>1, <2>8, Zenon DEF Written
      <3> QED BY <2>6, <2>8, <3>1
    <2> QED BY <1>1, <2>1, <2>4, <2>5, <2>7, <2>8
  <1> QED BY <1>2, <1>3, <1>4

(* On stdin and stdout every request is answered once, in its own form and *)
(* in the order of the requests, and none is left out when the client      *)
(* closes its end, as long as every length could be read: stdio_loop.      *)
THEOREM FramesGetAnswers == StdioSpec => []FramesAreAnswered
  <1>1. StdioInit => FramesInv
    <2> SUFFICES ASSUME StdioInit PROVE FramesInv
      OBVIOUS
    <2>1. /\ input = <<>> /\ wanted = <<>> /\ replies = <<>> /\ frames = 0 /\ astray = FALSE
          /\ reader = "line" /\ Len(input) = 0 /\ Len(wanted) = 0 /\ Len(replies) = 0
      BY DEF StdioInit
    <2>2. InOrder
      BY <2>1 DEF InOrder
    <2>3. PICK course : course = [i \in 1..1 |-> "line"]
      OBVIOUS
    <2>4. Reads(course)
      BY <2>1, <2>3 DEF Reads, Mode
    <2>5. Owes(course)
      BY <2>1 DEF Owes, Due
    <2>6. \E c : Reads(c) /\ Owes(c)
      BY <2>4, <2>5, Zenon
    <2>7. input \in Seq(Token) /\ wanted \in Seq(Reply) /\ replies \in Seq(Reply)
          /\ Len(replies) <= Len(wanted) /\ replies = SubSeq(wanted, 1, Len(replies))
      BY <2>1
    <2> HIDE DEF InOrder, Reads, Owes, Token, Reply
    <2> QED BY <2>1, <2>2, <2>6, <2>7 DEF FramesInv
  <1>2. FramesInv /\ [StdioNext]_stdioVars => FramesInv'
    <2> SUFFICES ASSUME FramesInv, [StdioNext]_stdioVars PROVE FramesInv'
      OBVIOUS
    <2>1. ASSUME CloseStdin \/ UNCHANGED stdioVars PROVE FramesInv'
      <3>1. UNCHANGED <<input, reader, measured, replies, frames, wanted, astray>>
            /\ (closed => closed')
        BY <2>1 DEF CloseStdin, stdioVars
      <3>2. InOrder' <=> InOrder
        BY <3>1 DEF InOrder
      <3>3. \A c : (Reads(c) /\ Owes(c)) => (Reads(c)' /\ Owes(c)')
        BY <3>1 DEF Reads, Owes, Due
      <3> HIDE DEF InOrder, Reads, Owes, Token, Reply
      <3>4. (\E c : Reads(c) /\ Owes(c)) => \E c : Reads(c)' /\ Owes(c)'
        BY <3>3, Zenon
      <3> QED BY <3>1, <3>2, <3>4 DEF FramesInv
    <2> QED BY <2>1, WriteKeepsFrames, ReadLineKeepsFrames, DrainHeadersKeepsFrames,
               DrainBodyKeepsFrames DEF StdioNext
  <1>3. FramesInv => FramesAreAnswered
    <2> SUFFICES ASSUME FramesInv, ~astray
                 PROVE  /\ replies = SubSeq(wanted, 1, Len(replies))
                        /\ reader = "ended" \/ (reader = "line" /\ input = <<>>)
                             => replies = wanted
      BY DEF FramesAreAnswered
    <2>1. /\ wanted \in Seq(Reply) /\ replies \in Seq(Reply)
          /\ replies = SubSeq(wanted, 1, Len(replies))
          /\ reader = "ended" => Len(replies) = Len(wanted)
      BY DEF FramesInv
    <2>2. reader = "line" /\ input = <<>> => Len(replies) = Len(wanted)
      BY NothingLeft
    <2>3. SubSeq(wanted, 1, Len(wanted)) = wanted
      <3> HIDE DEF Reply
      <3> QED BY <2>1
    <2>4. Len(replies) = Len(wanted) => replies = wanted
      BY <2>1, <2>3, Zenon
    <2> QED BY <2>1, <2>2, <2>4, Zenon
  <1> QED BY <1>1, <1>2, <1>3, PTL DEF StdioSpec

=============================================================================
