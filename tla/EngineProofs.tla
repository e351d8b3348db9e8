----------------------------- MODULE EngineProofs -----------------------------
(***************************************************************************)
(* Theorems about the engine: how a call gets the token of an OAuth        *)
(* connection, what a code-mode script is reported to have done, whose     *)
(* answers an upstream MCP server's are, which built-in tool a call runs,  *)
(* with which arguments and whose consent, and which errors say that a     *)
(* scope is missing.                                                       *)
(***************************************************************************)
EXTENDS CodeMode, OAuth, McpUpstream, CoreTools, Challenges, FiniteSetTheorems,
        SequenceTheorems, WellFoundedInduction, TLAPS

-----------------------------------------------------------------------------
(* OAuth *)

(* A stage of the chain is reached only while nothing has refused, and the *)
(* later ones only past a server with the profile and for an ID-JAG.       *)
PrepareInv ==
    /\ stage \in {"idle", "discover", "exchange", "redeem", "fallback", "done"}
    /\ stage # "done" => ~refused /\ result = "none"
    /\ stage \in {"exchange", "redeem"} => advertised
    /\ stage = "redeem" => redeemed = "id-jag"
    /\ refused \in BOOLEAN /\ tried \in Nat
    /\ RefusalIsFinal

(* A candidate that is asked answers, cannot be reached or names nothing.  *)
LEMMA FetchKeeps ==
  ASSUME PrepareInv, FetchMetadata
  PROVE  PrepareInv'
  <1> USE CandidatesAssumption DEF PrepareInv, RefusalIsFinal
  <1>1. PICK said \in MetadataReply :
          LET answer == Fetched(said) IN
          /\ stage = "discover"
          /\ CASE answer = "nothing" /\ tried + 1 < Candidates -> GoTo("discover")
               [] answer = "nothing" /\ tried + 1 >= Candidates -> TryFillToken("unsupported")
               [] OTHER -> TryFillToken(answer)
          /\ tried' = tried + 1
          /\ advertised' = (answer = "id-jag")
          /\ refused' = (answer = "unavailable")
          /\ UNCHANGED <<granted, redeemed, asked>>
    BY DEF FetchMetadata
  <1>2. Fetched(said) \in {"unavailable", "nothing", "id-jag", "unsupported"}
    BY DEF Fetched
  <1>3. CASE Fetched(said) = "nothing"
    BY <1>1, <1>3 DEF TryFillToken, AfterEmaError, GoTo, PrepareReturns
  <1>4. CASE Fetched(said) # "nothing"
    <2>1. /\ TryFillToken(Fetched(said))
          /\ stage = "discover" /\ tried' = tried + 1
          /\ refused' = (Fetched(said) = "unavailable")
          /\ advertised' = (Fetched(said) = "id-jag")
      BY <1>1, <1>4
    <2>2. CASE Fetched(said) = "id-jag"
      <3>1. stage' = "exchange" /\ refused' = FALSE /\ advertised' = TRUE /\ result' = result
        BY <2>1, <2>2 DEF TryFillToken, RunEnterprise, GoTo
      <3> QED BY <2>1, <3>1
    <2>3. CASE Fetched(said) = "unavailable"
      <3>1. stage' = "done" /\ refused' = TRUE /\ result' = "refused"
        BY <2>1, <2>3 DEF TryFillToken, AfterEmaError, PrepareReturns
      <3> QED BY <2>1, <3>1
    <2>4. CASE Fetched(said) = "unsupported"
      <3>1. stage' = "fallback" /\ refused' = FALSE /\ result' = result
        BY <2>1, <2>4 DEF TryFillToken, AfterEmaError, GoTo
      <3> QED BY <2>1, <3>1
    <2> QED BY <1>2, <1>4, <2>2, <2>3, <2>4
  <1> QED BY <1>3, <1>4

(* Whatever the identity provider says that is no ID-JAG ends the chain.   *)
LEMMA ExchangeKeeps ==
  ASSUME PrepareInv, Exchange
  PROVE  PrepareInv'
  <1> USE DEF PrepareInv, RefusalIsFinal
  <1>1. PICK said \in TokenReply, reached \in BOOLEAN, named \in (SUBSET OScope) \cup {Unnamed} :
          LET err == CASE ~reached -> "unavailable"
                       [] reached /\ said.success -> ParseIdJagBody(said)
                       [] OTHER -> ExchangeFailure(said) IN
          /\ stage = "exchange"
          /\ IF err = "none" THEN GoTo("redeem") ELSE AfterEmaError(err)
          /\ refused' = (~reached \/ ~said.success \/ ~said.token \/ said.types # "id-jag")
          /\ redeemed' = IF err = "none" THEN said.types ELSE redeemed
          /\ UNCHANGED <<tried, advertised, asked>>
    BY DEF Exchange
  <1>2. ExchangeFailure(said) \in {"subject_token_rejected", "unavailable", "policy_denied"}
    BY DEF ExchangeFailure
  <1>3. said.success \in BOOLEAN /\ said.token \in BOOLEAN
    BY <1>1 DEF TokenReply
  <1>4. CASE reached /\ said.success /\ said.token /\ said.types = "id-jag"
    BY <1>1, <1>4 DEF ParseIdJagBody, GoTo
  <1>5. CASE ~(reached /\ said.success /\ said.token /\ said.types = "id-jag")
    <2>1. AfterEmaError("unavailable") \/ AfterEmaError(ExchangeFailure(said))
      BY <1>1, <1>2, <1>3, <1>5 DEF ParseIdJagBody
    <2>2. refused' = TRUE /\ stage = "exchange" /\ UNCHANGED <<tried, advertised, asked>>
      BY <1>1, <1>3, <1>5
    <2> QED BY <1>2, <2>1, <2>2 DEF AfterEmaError, PrepareReturns
  <1> QED BY <1>4, <1>5

(* So does whatever the resource's server says that is no token.           *)
LEMMA RedeemKeeps ==
  ASSUME PrepareInv, Redeem
  PROVE  PrepareInv'
  <1> USE DEF PrepareInv, RefusalIsFinal
  <1>1. PICK said \in TokenReply, reached \in BOOLEAN :
          LET err == CASE ~reached -> "unavailable"
                       [] reached /\ said.success -> IF said.token THEN "none" ELSE "unavailable"
                       [] OTHER -> RedemptionFailure(said) IN
          /\ stage = "redeem"
          /\ asked' = granted
          /\ IF err = "none" THEN PrepareReturns("enterprise_token") ELSE AfterEmaError(err)
          /\ refused' = (refused \/ err # "none")
          /\ UNCHANGED <<tried, granted, advertised, redeemed>>
    BY DEF Redeem
  <1>2. RedemptionFailure(said) \in {"unavailable", "redemption_rejected"}
    BY DEF RedemptionFailure
  <1>3. CASE reached /\ said.success /\ said.token
    <2>1. /\ PrepareReturns("enterprise_token") /\ refused' = refused
          /\ asked' = granted' /\ UNCHANGED <<tried, advertised, redeemed>>
      BY <1>1, <1>3
    <2> QED BY <1>1, <2>1 DEF PrepareReturns
  <1>4. CASE ~(reached /\ said.success /\ said.token)
    <2>1. PICK err \in {"unavailable", "redemption_rejected"} :
            AfterEmaError(err) /\ refused' = TRUE
      BY <1>1, <1>2, <1>4
    <2> QED BY <1>1, <2>1 DEF AfterEmaError, PrepareReturns
  <1> QED BY <1>3, <1>4

(* A refusal ends the call: no weaker grant and no person is asked in its  *)
(* place, and an enterprise token comes from an ID-JAG that a server with  *)
(* the profile redeemed, for no scope that was struck off.                 *)
THEOREM RefusalsAreFinal == PrepareSpec => []RefusalIsFinal
  <1>1. PrepareInit => PrepareInv
    <2> SUFFICES ASSUME PrepareInit PROVE PrepareInv
      OBVIOUS
    <2>1. refused \in BOOLEAN /\ tried \in Nat
      BY DEF PrepareInit
    <2> QED BY <2>1 DEF PrepareInit, PrepareInv, RefusalIsFinal
  <1>2. ASSUME PrepareInv, [PrepareNext]_prepareVars PROVE PrepareInv'
    <2> USE DEF PrepareInv, RefusalIsFinal
    <2>1. CASE Prepare
      BY <1>2, <2>1 DEF Prepare, PrepareReturns, GoTo
    <2>2. CASE ClientCredentials
      BY <1>2, <2>2 DEF ClientCredentials, PrepareReturns
    <2>3. CASE AskAPerson
      BY <1>2, <2>3 DEF AskAPerson, PrepareReturns
    <2>4. CASE UNCHANGED prepareVars
      BY <1>2, <2>4 DEF prepareVars
    <2> QED BY <1>2, <2>1, <2>2, <2>3, <2>4, FetchKeeps, ExchangeKeeps, RedeemKeeps
            DEF PrepareNext
  <1>3. PrepareInv => RefusalIsFinal
    BY DEF PrepareInv
  <1> QED BY <1>1, <1>2, <1>3, PTL DEF PrepareSpec

-----------------------------------------------------------------------------
(* Code mode *)

(* In a running script the clock counts what bytecode has taken since a    *)
(* tool came back, no tool comes back after the deadline, and the slot     *)
(* holds a pause as soon as there is one.                                  *)
ScriptInv ==
    /\ CodeModeTypeOK
    /\ script # "ended" => reply = NoReply
    /\ kernel = "js" /\ script = "running" => compute = now - lastReturn
    /\ lastReturn <= OuterTimeout
    /\ kernel = "js" => (paused = NoCall <=> pauses = {})
    /\ kernel = "native" /\ script # "ended" => pauses = {}
    /\ kernel = "native" /\ script = "waiting" => inFlight \in ToolCall
    /\ ScriptsAreReported

(* What a script waits for, or does without a tool, says nothing yet.      *)
LEMMA ScriptGoesOn ==
  ASSUME ScriptInv, Issue \/ Await \/ BridgeTakes \/ BridgeRefuses \/ NativeCalls
                      \/ NativeCompletes \/ Wait
  PROVE  ScriptInv'
  <1> USE CodeModeAssumption DEF ScriptInv, CodeModeTypeOK, ScriptsAreReported,
        PauseIsReported, TimeoutsAreTheScripts, clockVars, NoReply, Form
  <1>1. CASE Issue
    BY <1>1 DEF Issue
  <1>2. CASE Await
    BY <1>2 DEF Await
  <1>3. CASE BridgeTakes
    BY <1>3 DEF BridgeTakes
  <1>4. CASE BridgeRefuses
    BY <1>4 DEF BridgeRefuses, Resume
  <1>5. CASE NativeCalls
    BY <1>5 DEF NativeCalls
  <1>6. CASE NativeCompletes
    BY <1>6 DEF NativeCompletes
  <1>7. CASE Wait
    BY <1>7 DEF Wait
  <1> QED BY <1>1, <1>2, <1>3, <1>4, <1>5, <1>6, <1>7

(* Bytecode that no call is served beside runs for less than the timeout   *)
(* when it is let go on.                                                   *)
LEMMA ComputeKeeps ==
  ASSUME ScriptInv, Compute
  PROVE  ScriptInv'
  <1> USE CodeModeAssumption DEF ScriptInv, CodeModeTypeOK, ScriptsAreReported,
        PauseIsReported, TimeoutsAreTheScripts, NoReply, Compute, Expired
  <1>1. ~busyInFlight' => now' <= OuterTimeout + Timeout
    <2>1. ~busyInFlight' => ~busyInFlight /\ inFlight = NoCall
      OBVIOUS
    <2> QED BY <2>1
  <1>2. busyInFlight' \in BOOLEAN
    OBVIOUS
  <1> QED BY <1>1, <1>2

(* A call that pauses fills the slot; only a native call loses its pause.  *)
LEMMA PausesKeep ==
  ASSUME ScriptInv, BridgeReturns \/ NativePauses
  PROVE  ScriptInv'
  <1> USE CodeModeAssumption DEF ScriptInv, CodeModeTypeOK, ScriptsAreReported,
        PauseIsReported, TimeoutsAreTheScripts, clockVars, NoReply
  <1>1. CASE BridgeReturns
    BY <1>1, SMTT(60) DEF BridgeReturns, Resume
  <1>2. CASE NativePauses
    BY <1>2 DEF NativePauses, Answer, PausedReply
  <1> QED BY <1>1, <1>2

(* The end of a script reports the pause there is, and the interrupt or an *)
(* error that speaks of one, before anything else.                         *)
LEMMA EndsKeep ==
  ASSUME ScriptInv, EvalEnds \/ Interrupt \/ NativeEnds \/ NativeFails \/ DeadlineFires
  PROVE  ScriptInv'
  <1> USE CodeModeAssumption DEF ScriptInv, CodeModeTypeOK, ScriptsAreReported,
        PauseIsReported, TimeoutsAreTheScripts, clockVars, NoReply, Reply, Answer, PausedReply
  <1>1. CASE EvalEnds
    BY <1>1 DEF EvalEnds, Expired
  <1>2. CASE Interrupt
    BY <1>2 DEF Interrupt, Expired
  <1>3. CASE NativeEnds
    BY <1>3 DEF NativeEnds
  <1>4. CASE NativeFails
    BY <1>4 DEF NativeFails
  <1>5. CASE DeadlineFires
    BY <1>5 DEF DeadlineFires
  <1> QED BY <1>1, <1>2, <1>3, <1>4, <1>5

(* A script's reply is its latest pause, unless the outer deadline cuts it *)
(* or a native statement needs a value; and it is said to have timed out   *)
(* only after a whole timeout of its own, however long its tools took.     *)
THEOREM ScriptsEndAsReported == CodeModeSpec => []ScriptsAreReported
  <1>1. CodeModeInit => ScriptInv
    <2> SUFFICES ASSUME CodeModeInit PROVE ScriptInv
      OBVIOUS
    <2>1. reply = NoReply /\ NoReply.kind = "none" /\ NoReply.call = NoCall
      BY DEF CodeModeInit, NoReply
    <2>2. CodeModeTypeOK
      <3>1. now \in Nat /\ lastReturn \in 0..now /\ compute \in 0..now /\ calls \in Nat
        BY DEF CodeModeInit
      <3>2. reply \in [kind : {"none", "value", "error", "timed_out", "deadline", "paused"},
                       call : pauses \cup {NoCall}]
        BY DEF CodeModeInit, NoReply
      <3>3. /\ queue \in Seq(ToolCall) /\ issued \subseteq ToolCall /\ form \in Form
            /\ inFlight \in ToolCall \cup {NoCall}
        BY DEF CodeModeInit, Form
      <3>4. busyInFlight \in BOOLEAN
        BY DEF CodeModeInit
      <3> QED BY <3>1, <3>2, <3>3, <3>4 DEF CodeModeInit, CodeModeTypeOK
    <2> QED BY CodeModeAssumption, <2>1, <2>2 DEF CodeModeInit, ScriptInv, ScriptsAreReported,
               PauseIsReported, TimeoutsAreTheScripts
  <1>2. ASSUME ScriptInv, [CodeModeNext]_codeVars PROVE ScriptInv'
    <2>1. CASE UNCHANGED codeVars
      BY <1>2, <2>1 DEF codeVars, scriptVars, clockVars, ScriptInv, CodeModeTypeOK,
         ScriptsAreReported, PauseIsReported, TimeoutsAreTheScripts
    <2> QED BY <1>2, <2>1, ScriptGoesOn, ComputeKeeps, PausesKeep, EndsKeep DEF CodeModeNext
  <1>3. ScriptInv => ScriptsAreReported
    BY DEF ScriptInv
  <1> QED BY <1>1, <1>2, <1>3, PTL DEF CodeModeSpec

-----------------------------------------------------------------------------
(* Upstream MCP servers *)

InitializeFrame == [frame |-> "initialize", last |-> TRUE]

(* Where the handshake with a child that only answers stands: in the pipe  *)
(* to it, with it, in the pipe from it, or gone.                           *)
Handshake ==
    \/ stdin = <<InitializeFrame>> /\ owed = <<>> /\ stdout = <<>>
    \/ stdin = <<>> /\ owed = <<"initialize">> /\ stdout = <<>>
    \/ stdin = <<>> /\ owed = <<>> /\ stdout \in {<<>>, <<"welcome">>}

(* Once the answer to initialize is read, nothing of it is under way.      *)
HandshakeOver ==
    /\ \A i \in 1..Len(stdin) : stdin[i].frame # "initialize"
    /\ \A i \in 1..Len(owed) : owed[i] = "tools_call"
    /\ \A i \in 1..Len(stdout) : stdout[i] \in {"result", "tool_error", "rpc_error"}

UpstreamInv ==
    /\ UpstreamTypeOK
    /\ step \in {"idle", "http"} => child = "none" /\ outcome = "none"
    /\ step \in Writing \cup Reading => child # "none" /\ outcome = "none"
    /\ step \in Writing => unwritten >= 1
    /\ step \in {"idle", "write_initialize"} /\ ~chatty =>
         stdin = <<>> /\ owed = <<>> /\ stdout = <<>>
    /\ step = "write_initialize" => unwritten = 1
    /\ step = "read_welcome" /\ ~chatty => Handshake
    /\ step \in {"write_initialized", "write_request", "read_reply"} /\ ~chatty => HandshakeOver
    /\ RepliesAreTheServers

(* What the child does with its pipes leaves the rest of the request alone.*)
LEMMA ChildKeepsAll ==
  ASSUME UpstreamInv,
         stdin' \in Seq([frame : Frames, last : BOOLEAN]), Len(stdin') <= PipeSize,
         stdout' \in Seq(Replies), Len(stdout') <= PipeSize,
         owed' \in Seq(Frames \ {"initialized"}),
         child = "alive", child' \in {"alive", "dead"}, chatty' \in BOOLEAN, chatty => chatty',
         step \in {"idle", "write_initialize"} /\ ~chatty' =>
           stdin' = <<>> /\ owed' = <<>> /\ stdout' = <<>>,
         step = "read_welcome" /\ ~chatty' => Handshake',
         step \in {"write_initialized", "write_request", "read_reply"} /\ ~chatty' =>
           HandshakeOver',
         UNCHANGED <<step, unwritten, waited, outcome>>
  PROVE  UpstreamInv'
  <1> USE DEF UpstreamInv
  <1>1. UpstreamTypeOK'
    BY DEF UpstreamTypeOK
  <1>2. RepliesAreTheServers'
    BY DEF RepliesAreTheServers
  <1>3. step \notin {"idle", "http"}
    OBVIOUS
  <1> QED BY <1>1, <1>2, <1>3 DEF Writing, Reading

(* The child takes a frame out of one pipe and puts its answer into the    *)
(* other, in the order of the requests.                                    *)
LEMMA ChildKeeps ==
  ASSUME UpstreamInv, ChildReads \/ ChildAnswers \/ ChildNotifies \/ ChildDies
  PROVE  UpstreamInv'
  <1>0. /\ stdin \in Seq([frame : Frames, last : BOOLEAN]) /\ Len(stdin) <= PipeSize
        /\ stdout \in Seq(Replies) /\ Len(stdout) <= PipeSize
        /\ owed \in Seq(Frames \ {"initialized"}) /\ chatty \in BOOLEAN
        /\ step \in {"idle", "write_initialize"} /\ ~chatty =>
             stdin = <<>> /\ owed = <<>> /\ stdout = <<>>
        /\ step = "read_welcome" /\ ~chatty => Handshake
        /\ step \in {"write_initialized", "write_request", "read_reply"} /\ ~chatty =>
             HandshakeOver
    BY DEF UpstreamInv, UpstreamTypeOK
  <1>1. CASE ChildReads
    <2>1. /\ child = "alive" /\ stdin # <<>> /\ stdin' = Tail(stdin)
          /\ owed' = IF Head(stdin).last /\ Head(stdin).frame # "initialized"
                     THEN Append(owed, Head(stdin).frame) ELSE owed
          /\ UNCHANGED <<step, unwritten, stdout, child, waited, outcome, chatty>>
      BY <1>1 DEF ChildReads
    <2>2. Head(stdin) \in [frame : Frames, last : BOOLEAN] /\ Head(stdin) = stdin[1]
          /\ Len(stdin) >= 1
      <3>1. Len(stdin) \in Nat /\ Len(stdin) # 0 /\ Head(stdin) = stdin[1]
        BY <1>0, <2>1
      <3>2. 1 \in 1..Len(stdin)
        BY <3>1
      <3>3. stdin[1] \in [frame : Frames, last : BOOLEAN]
        <4> DEFINE piece == [frame : Frames, last : BOOLEAN]
        <4>1. stdin \in Seq(piece)
          BY <1>0
        <4> HIDE DEF piece
        <4>2. stdin[1] \in piece
          BY <3>2, <4>1
        <4> QED BY <4>2 DEF piece
      <3> QED BY <3>1, <3>2, <3>3
    <2>3. stdin' \in Seq([frame : Frames, last : BOOLEAN]) /\ Len(stdin') = Len(stdin) - 1
          /\ \A i \in 1..Len(stdin') : stdin'[i] = stdin[i + 1]
      BY <1>0, <2>1
    <2>4. owed' \in Seq(Frames \ {"initialized"})
      BY <1>0, <2>1, <2>2 DEF Frames
    <2>5. Handshake => Handshake'
      <3> SUFFICES ASSUME Handshake PROVE Handshake'
        OBVIOUS
      <3>1. stdin = <<InitializeFrame>> /\ owed = <<>> /\ stdout = <<>>
        BY <2>1 DEF Handshake
      <3>2. stdin' = <<>> /\ Head(stdin) = InitializeFrame
        BY <2>1, <3>1
      <3>3. owed' = <<"initialize">>
        BY <2>1, <3>1, <3>2 DEF InitializeFrame
      <3> QED BY <2>1, <3>1, <3>2, <3>3 DEF Handshake
    <2>6. HandshakeOver => HandshakeOver'
      <3> SUFFICES ASSUME HandshakeOver PROVE HandshakeOver'
        OBVIOUS
      <3>1. \A i \in 1..Len(stdin') : stdin'[i].frame # "initialize"
        BY <1>0, <2>3 DEF HandshakeOver
      <3>2. Head(stdin).frame \in {"initialized", "tools_call"}
        BY <2>2 DEF HandshakeOver, Frames
      <3>3. \A i \in 1..Len(owed') : owed'[i] = "tools_call"
        BY <1>0, <2>1, <3>2 DEF HandshakeOver
      <3> QED BY <2>1, <3>1, <3>3 DEF HandshakeOver
    <2>7. Len(stdin') <= PipeSize
      BY <1>0, <2>3, UpstreamAssumption
    <2> QED BY <1>0, <2>1, <2>3, <2>4, <2>5, <2>6, <2>7, ChildKeepsAll
  <1>2. CASE ChildAnswers
    <2>1. PICK answer \in {"welcome", "result", "tool_error", "rpc_error"} :
            /\ child = "alive" /\ owed # <<>>
            /\ answer = "welcome" <=> Head(owed) = "initialize"
            /\ Len(stdout) < PipeSize
            /\ stdout' = Append(stdout, answer)
            /\ owed' = Tail(owed)
            /\ UNCHANGED <<step, unwritten, stdin, child, waited, outcome, chatty>>
      BY <1>2 DEF ChildAnswers
    <2>2. stdout' \in Seq(Replies) /\ Len(stdout') <= PipeSize
      BY <1>0, <2>1, UpstreamAssumption DEF Replies
    <2>3. owed' \in Seq(Frames \ {"initialized"}) /\ Len(owed) >= 1 /\ Head(owed) = owed[1]
          /\ Len(owed') = Len(owed) - 1 /\ \A i \in 1..Len(owed') : owed'[i] = owed[i + 1]
      BY <1>0, <2>1
    <2>4. Handshake => Handshake'
      <3> SUFFICES ASSUME Handshake PROVE Handshake'
        OBVIOUS
      <3>1. stdin = <<>> /\ owed = <<"initialize">> /\ stdout = <<>>
        BY <2>1 DEF Handshake
      <3>2. owed' = <<>> /\ answer = "welcome"
        BY <2>1, <3>1
      <3>3. stdout' = <<"welcome">>
        BY <2>1, <3>1, <3>2
      <3> QED BY <2>1, <3>1, <3>2, <3>3 DEF Handshake
    <2>5. HandshakeOver => HandshakeOver'
      <3> SUFFICES ASSUME HandshakeOver PROVE HandshakeOver'
        OBVIOUS
      <3>1. answer \in {"result", "tool_error", "rpc_error"}
        BY <2>1, <2>3 DEF HandshakeOver
      <3>2. \A i \in 1..Len(stdout') : stdout'[i] \in {"result", "tool_error", "rpc_error"}
        BY <1>0, <2>1, <3>1 DEF HandshakeOver
      <3>3. \A i \in 1..Len(owed') : owed'[i] = "tools_call"
        BY <2>3 DEF HandshakeOver
      <3> QED BY <2>1, <3>2, <3>3 DEF HandshakeOver
    <2> QED BY <1>0, <2>1, <2>2, <2>3, <2>4, <2>5, ChildKeepsAll
  <1>3. CASE ChildNotifies
    <2>1. stdout' \in Seq(Replies) /\ Len(stdout') <= PipeSize
      BY <1>0, <1>3, UpstreamAssumption DEF ChildNotifies, Replies
    <2>2. chatty' = TRUE /\ child = "alive"
          /\ UNCHANGED <<step, unwritten, stdin, child, owed, waited, outcome>>
      BY <1>3 DEF ChildNotifies
    <2> QED BY <1>0, <2>1, <2>2, ChildKeepsAll
  <1>4. CASE ChildDies
    <2>1. /\ child = "alive" /\ child' = "dead" /\ stdin' = <<>> /\ owed' = <<>>
          /\ UNCHANGED <<step, unwritten, stdout, waited, outcome, chatty>>
      BY <1>4 DEF ChildDies
    <2>2. stdin' \in Seq([frame : Frames, last : BOOLEAN]) /\ Len(stdin') <= PipeSize
          /\ owed' \in Seq(Frames \ {"initialized"})
      BY <2>1, UpstreamAssumption
    <2>3. Handshake => Handshake'
      BY <2>1 DEF Handshake
    <2>4. HandshakeOver => HandshakeOver'
      BY <2>1 DEF HandshakeOver
    <2> QED BY <1>0, <2>1, <2>2, <2>3, <2>4, ChildKeepsAll
  <1> QED BY <1>1, <1>2, <1>3, <1>4

(* A request that ends drops the pipes, and is no success of null that a   *)
(* child's answers do not explain.                                         *)
LEMMA EndKeeps ==
  ASSUME UpstreamInv, NEW o, o = "null" => chatty, EndRequest(o), UNCHANGED chatty,
         waited' \in 0..ReadTimeout
  PROVE  UpstreamInv'
  <1>1. /\ step' = "done" /\ outcome' = o
        /\ child' = IF child = "alive" THEN "dead" ELSE child
        /\ stdin' = <<>> /\ stdout' = <<>> /\ owed' = <<>> /\ unwritten' = 0
    BY DEF EndRequest
  <1>2. UpstreamTypeOK'
    <2>1. /\ stdin' \in Seq([frame : Frames, last : BOOLEAN]) /\ Len(stdin') <= PipeSize
          /\ stdout' \in Seq(Replies) /\ Len(stdout') <= PipeSize
          /\ owed' \in Seq(Frames \ {"initialized"}) /\ unwritten' \in 0..RequestSize
      BY <1>1, UpstreamAssumption
    <2> QED BY <1>1, <2>1 DEF UpstreamInv, UpstreamTypeOK
  <1> QED BY <1>1, <1>2 DEF UpstreamInv, RepliesAreTheServers, Writing, Reading

(* The frame that initialize waits for is the answer to it, and the frame  *)
(* taken for the reply of a child that only answers is its answer.         *)
LEMMA ReadKeeps ==
  ASSUME UpstreamInv, ReadFrame
  PROVE  UpstreamInv'
  <1>0. stdout # <<>> /\ stdout \in Seq(Replies) /\ UNCHANGED <<waited, chatty>>
        /\ step \in Reading
    BY DEF ReadFrame, UpstreamInv, UpstreamTypeOK
  <1>1. CASE step = "read_welcome"
    <2>1. /\ step' = "write_initialized" /\ unwritten' = 1 /\ stdout' = Tail(stdout)
          /\ UNCHANGED <<stdin, child, owed, outcome, waited, chatty>>
      BY <1>1 DEF ReadFrame
    <2>2. stdout' \in Seq(Replies) /\ Len(stdout') = Len(stdout) - 1
      BY <1>0, <2>1
    <2>3. ~chatty => HandshakeOver'
      <3> SUFFICES ASSUME ~chatty PROVE HandshakeOver'
        OBVIOUS
      <3>1. stdin = <<>> /\ owed = <<>> /\ stdout = <<"welcome">>
        BY <1>0, <1>1 DEF UpstreamInv, Handshake
      <3>2. stdout' = <<>>
        BY <2>1, <3>1
      <3> QED BY <2>1, <3>1, <3>2 DEF HandshakeOver
    <2>4. UpstreamTypeOK'
      BY <2>1, <2>2, UpstreamAssumption DEF UpstreamInv, UpstreamTypeOK, Writing, Reading
    <2> QED BY <1>1, <2>1, <2>3, <2>4 DEF UpstreamInv, RepliesAreTheServers, Writing, Reading
  <1>2. CASE step = "read_reply"
    <2>1. EndRequest(OutcomeOf(Head(stdout)))
      BY <1>2 DEF ReadFrame
    <2>2. ~chatty => OutcomeOf(Head(stdout)) # "null"
      <3> SUFFICES ASSUME ~chatty PROVE OutcomeOf(Head(stdout)) # "null"
        OBVIOUS
      <3>1. Head(stdout) \in {"result", "tool_error", "rpc_error"}
        BY <1>0, <1>2 DEF UpstreamInv, HandshakeOver
      <3> QED BY <3>1 DEF OutcomeOf
    <2> QED BY <1>0, <2>1, <2>2, EndKeeps DEF UpstreamInv, UpstreamTypeOK
  <1> QED BY <1>0, <1>1, <1>2 DEF Reading

(* The plugin writes its frames one after the other.                       *)
LEMMA WriteKeeps ==
  ASSUME UpstreamInv, WriteFrame
  PROVE  UpstreamInv'
  <1>1. CASE child = "dead"
    <2>1. EndRequest("retryable_error") /\ UNCHANGED chatty /\ waited' = 0
      BY <1>1 DEF WriteFrame
    <2> QED BY <2>1, EndKeeps, UpstreamAssumption
  <1>2. CASE child # "dead"
    <2> DEFINE piece == [frame |-> FrameOf(step), last |-> unwritten = 1]
    <2>0. /\ stdin \in Seq([frame : Frames, last : BOOLEAN]) /\ Len(stdin) \in Nat
          /\ unwritten \in 0..RequestSize /\ unwritten >= 1 /\ step \in Writing
      BY DEF UpstreamInv, UpstreamTypeOK, WriteFrame
    <2>1. /\ Len(stdin) < PipeSize /\ stdin' = Append(stdin, piece)
          /\ IF unwritten > 1 THEN unwritten' = unwritten - 1 /\ UNCHANGED step
             ELSE CASE step = "write_initialize" -> step' = "read_welcome" /\ unwritten' = 0
                    [] step = "write_initialized" ->
                         step' = "write_request" /\ unwritten' = RequestSize
                    [] step = "write_request" -> step' = "read_reply" /\ unwritten' = 0
          /\ UNCHANGED <<stdout, child, owed, outcome, chatty>> /\ waited' = 0
      BY <1>2 DEF WriteFrame
    <2>2. piece \in [frame : Frames, last : BOOLEAN]
          /\ (step # "write_initialize" => piece.frame # "initialize")
      BY <2>0 DEF FrameOf, Frames, Writing
    <2> HIDE DEF piece
    <2>3. /\ stdin' \in Seq([frame : Frames, last : BOOLEAN]) /\ Len(stdin') = Len(stdin) + 1
          /\ stdin'[Len(stdin) + 1] = piece
          /\ \A i \in 1..Len(stdin) : stdin'[i] = stdin[i]
      BY <2>0, <2>1, <2>2
    <2>4. Len(stdin') <= PipeSize
      BY <2>0, <2>1, <2>3, UpstreamAssumption
    <2>5. CASE step = "write_initialize"
      <3>1. unwritten = 1 /\ step' = "read_welcome" /\ unwritten' = 0
        BY <2>1, <2>5 DEF UpstreamInv
      <3>2. ~chatty => Handshake'
        <4> SUFFICES ASSUME ~chatty PROVE Handshake'
          OBVIOUS
        <4>1. piece = InitializeFrame /\ stdin = <<>> /\ owed = <<>> /\ stdout = <<>>
          BY <2>5, <3>1 DEF UpstreamInv, FrameOf, InitializeFrame, piece
        <4>2. stdin' = <<InitializeFrame>>
          BY <2>1, <4>1
        <4> QED BY <2>1, <4>1, <4>2 DEF Handshake
      <3>3. UpstreamTypeOK'
        BY <2>1, <2>3, <2>4, <3>1, UpstreamAssumption
           DEF UpstreamInv, UpstreamTypeOK, Reading
      <3> QED BY <2>1, <2>5, <3>1, <3>2, <3>3
              DEF UpstreamInv, RepliesAreTheServers, Writing, Reading
    <2>6. CASE step \in {"write_initialized", "write_request"}
      <3>1. /\ step' \in {"write_initialized", "write_request", "read_reply"}
            /\ unwritten' \in 0..RequestSize
            /\ step' \in Writing => unwritten' >= 1
        <4>1. CASE unwritten > 1
          BY <2>0, <2>1, <2>6, <4>1, UpstreamAssumption
        <4>2. CASE ~(unwritten > 1) /\ step = "write_initialized"
          BY <2>1, <4>2, UpstreamAssumption
        <4>3. CASE ~(unwritten > 1) /\ step = "write_request"
          BY <2>1, <4>3, UpstreamAssumption DEF Writing
        <4> QED BY <2>6, <4>1, <4>2, <4>3
      <3>2. ~chatty => HandshakeOver'
        <4> SUFFICES ASSUME ~chatty PROVE HandshakeOver'
          OBVIOUS
        <4>1. HandshakeOver
          BY <2>6 DEF UpstreamInv
        <4>2. \A i \in 1..Len(stdin') : stdin'[i].frame # "initialize"
          BY <2>0, <2>2, <2>3, <2>6, <4>1 DEF HandshakeOver
        <4> QED BY <2>1, <4>1, <4>2 DEF HandshakeOver
      <3>3. UpstreamTypeOK'
        BY <2>1, <2>3, <2>4, <3>1, UpstreamAssumption
           DEF UpstreamInv, UpstreamTypeOK, Writing, Reading
      <3> QED BY <2>1, <2>6, <3>1, <3>2, <3>3
              DEF UpstreamInv, RepliesAreTheServers, Writing, Reading
    <2> QED BY <2>0, <2>5, <2>6 DEF Writing
  <1> QED BY <1>1, <1>2

(* A success of null from a child means that it sent more than answers:    *)
(* the answer to initialize is never taken for the tool's, however the     *)
(* frames are cut and however late either side is.                         *)
THEOREM UpstreamAnswers == UpstreamSpec => []RepliesAreTheServers
  <1>1. UpstreamInit => UpstreamInv
    <2> SUFFICES ASSUME UpstreamInit PROVE UpstreamInv
      OBVIOUS
    <2>1. UpstreamTypeOK
      <3>1. 0 \in 0..RequestSize /\ 0 \in 0..ReadTimeout /\ 0 <= PipeSize /\ Len(stdin) = 0
            /\ Len(stdout) = 0
        BY UpstreamAssumption DEF UpstreamInit
      <3>2. chatty \in BOOLEAN
        BY DEF UpstreamInit
      <3> QED BY <3>1, <3>2 DEF UpstreamInit, UpstreamTypeOK
    <2> QED BY <2>1 DEF UpstreamInit, UpstreamInv, RepliesAreTheServers, Writing, Reading
  <1>2. ASSUME UpstreamInv, [UpstreamNext]_upstreamVars PROVE UpstreamInv'
    <2>1. CASE UNCHANGED upstreamVars
      BY <1>2, <2>1 DEF upstreamVars, UpstreamInv, UpstreamTypeOK, RepliesAreTheServers,
         Handshake, HandshakeOver
    <2>2. CASE CallTool
      BY <1>2, <2>2, UpstreamAssumption DEF CallTool, UpstreamInv, UpstreamTypeOK,
         RepliesAreTheServers, Writing, Reading
    <2>3. CASE HttpAnswers
      BY <1>2, <2>3 DEF HttpAnswers, pipes, UpstreamInv, UpstreamTypeOK, RepliesAreTheServers,
         Writing, Reading
    <2>4. CASE ReadFails \/ CallDropped
      <3>1. PICK o \in {"retryable_error", "dropped"} :
              EndRequest(o) /\ UNCHANGED <<waited, chatty>>
        BY <2>4 DEF ReadFails, CallDropped
      <3> QED BY <1>2, <3>1, EndKeeps DEF UpstreamInv, UpstreamTypeOK
    <2>5. CASE UpstreamTick
      BY <1>2, <2>5, UpstreamAssumption DEF UpstreamTick, pipes, UpstreamInv, UpstreamTypeOK,
         RepliesAreTheServers, Handshake, HandshakeOver, Writing, Reading
    <2> QED BY <1>2, <2>1, <2>2, <2>3, <2>4, <2>5, ChildKeeps, ReadKeeps, WriteKeeps
            DEF UpstreamNext
  <1>3. UpstreamInv => RepliesAreTheServers
    BY DEF UpstreamInv
  <1> QED BY <1>1, <1>2, <1>3, PTL DEF UpstreamSpec

-----------------------------------------------------------------------------
(* Built-in tools *)

(* The name of a core tool follows two segments of its path.               *)
LEMMA CoreNames ==
  ASSUME NEW S, NEW n \in Seq(S)
  PROVE  /\ Len(Core(n)) = Len(n) + 2 /\ Core(n)[1] = "executor" /\ Core(n)[2] = "coreTools"
         /\ \A i \in 1..Len(n) : Core(n)[i + 2] = n[i]
  <1> DEFINE T == S \cup {"executor", "coreTools"}
             group == <<"executor", "coreTools">>
  <1>1. "executor" \in T /\ "coreTools" \in T /\ n \in Seq(T)
    OBVIOUS
  <1> HIDE DEF T
  <1>2. group \in Seq(T) /\ Len(group) = 2 /\ group[1] = "executor" /\ group[2] = "coreTools"
    BY <1>1
  <1> HIDE DEF group
  <1> QED BY <1>1, <1>2 DEF Core, group

(* So the paths of two segments more differ where the names do.            *)
LEMMA CorePair ==
  ASSUME NEW a, NEW b
  PROVE  /\ Len(Core(<<a, b>>)) = 4
         /\ Core(<<a, b>>)[1] = "executor" /\ Core(<<a, b>>)[2] = "coreTools"
         /\ Core(<<a, b>>)[3] = a /\ Core(<<a, b>>)[4] = b
  <1> DEFINE S == {a, b}
             n == <<a, b>>
  <1>1. n \in Seq(S) /\ Len(n) = 2 /\ n[1] = a /\ n[2] = b
    OBVIOUS
  <1> HIDE DEF S, n
  <1>2. /\ Len(Core(n)) = Len(n) + 2 /\ Core(n)[1] = "executor" /\ Core(n)[2] = "coreTools"
        /\ \A i \in 1..Len(n) : Core(n)[i + 2] = n[i]
    BY <1>1, CoreNames
  <1>3. 1 \in 1..Len(n) /\ 2 \in 1..Len(n) /\ 1 + 2 = 3 /\ 2 + 2 = 4
    BY <1>1
  <1>4. Core(n)[1 + 2] = n[1] /\ Core(n)[2 + 2] = n[2]
    BY <1>2, <1>3
  <1> QED BY <1>1, <1>2, <1>3, <1>4 DEF n

(* And so do those of three.                                               *)
LEMMA CoreTriple ==
  ASSUME NEW a, NEW b, NEW c
  PROVE  /\ Len(Core(<<a, b, c>>)) = 5
         /\ Core(<<a, b, c>>)[1] = "executor" /\ Core(<<a, b, c>>)[2] = "coreTools"
         /\ Core(<<a, b, c>>)[3] = a /\ Core(<<a, b, c>>)[4] = b /\ Core(<<a, b, c>>)[5] = c
  <1> DEFINE S == {a, b, c}
             n == <<a, b, c>>
  <1>1. n \in Seq(S) /\ Len(n) = 3 /\ n[1] = a /\ n[2] = b /\ n[3] = c
    OBVIOUS
  <1> HIDE DEF S, n
  <1>2. /\ Len(Core(n)) = Len(n) + 2 /\ Core(n)[1] = "executor" /\ Core(n)[2] = "coreTools"
        /\ \A i \in 1..Len(n) : Core(n)[i + 2] = n[i]
    BY <1>1, CoreNames
  <1>3. /\ 1 \in 1..Len(n) /\ 2 \in 1..Len(n) /\ 3 \in 1..Len(n)
        /\ 1 + 2 = 3 /\ 2 + 2 = 4 /\ 3 + 2 = 5
    BY <1>1
  <1>4. Core(n)[1 + 2] = n[1] /\ Core(n)[2 + 2] = n[2] /\ Core(n)[3 + 2] = n[3]
    BY <1>2, <1>3
  <1> QED BY <1>1, <1>2, <1>3, <1>4 DEF n

(* What the schemas of a group of tools ask for and which of its tools     *)
(* wait for a person, by the last segment of the path: integrations,       *)
LEMMA IntegrationSchemas ==
  ASSUME NEW t \in IntegrationTools
  PROVE  /\ Len(t.path) = 4 /\ t.path[1] = "executor" /\ t.path[2] = "coreTools"
         /\ t.path[3] = "integrations"
         /\ t.path[4] = "remove" => t.asks /\ {"slug"} \subseteq t.required
         /\ t.path[4] = "detect" => {"url"} \subseteq t.required
  BY CorePair DEF IntegrationTools, Built, StaticTool

(* connections,                                                            *)
LEMMA ConnectionSchemas ==
  ASSUME NEW t \in ConnectionTools
  PROVE  /\ Len(t.path) = 4 /\ t.path[1] = "executor" /\ t.path[2] = "coreTools"
         /\ t.path[3] = "connections"
         /\ t.path[4] \in {"create", "remove"} => t.asks
         /\ t.path[4] \in {"create", "remove", "refresh"} =>
              {"name", "integration"} \subseteq t.required
         /\ t.path[4] = "createHandoff" => {"integration"} \subseteq t.required
  BY CorePair DEF ConnectionTools, Built, StaticTool

(* policies,                                                               *)
LEMMA PolicySchemas ==
  ASSUME NEW t \in PolicyTools
  PROVE  /\ Len(t.path) = 4 /\ t.path[1] = "executor" /\ t.path[2] = "coreTools"
         /\ t.path[3] = "policies"
         /\ t.path[4] \in {"create", "update", "remove"} => t.asks
         /\ t.path[4] = "create" => {"pattern", "action"} \subseteq t.required
         /\ t.path[4] \in {"update", "remove"} => {"id"} \subseteq t.required
  BY CorePair DEF PolicyTools, Built, StaticTool

(* providers,                                                              *)
LEMMA ProviderSchemas ==
  ASSUME NEW t \in ProviderTools
  PROVE  /\ Len(t.path) = 4 /\ t.path[1] = "executor" /\ t.path[2] = "coreTools"
         /\ t.path[3] = "providers"
         /\ t.path[4] = "items" => {"provider"} \subseteq t.required
  BY CorePair DEF ProviderTools, Built, StaticTool

(* OAuth clients,                                                          *)
LEMMA ClientSchemas ==
  ASSUME NEW t \in ClientTools
  PROVE  /\ Len(t.path) = 5 /\ t.path[1] = "executor" /\ t.path[2] = "coreTools"
         /\ t.path[3] = "oauth"
         /\ t.path[5] \in {"create", "registerDynamic", "remove"} => t.asks
         /\ t.path[5] = "create" =>
              {"slug", "authorizationUrl", "tokenUrl", "clientId"} \subseteq t.required
         /\ t.path[5] = "createHandoff" => {"integration"} \subseteq t.required
         /\ t.path[5] = "registerDynamic" =>
              {"slug", "registrationEndpoint", "authorizationUrl", "tokenUrl"}
                \subseteq t.required
         /\ t.path[5] = "remove" => {"slug"} \subseteq t.required
  BY CoreTriple DEF ClientTools, Built, StaticTool

(* OAuth logins,                                                           *)
LEMMA FlowSchemas ==
  ASSUME NEW t \in FlowTools
  PROVE  /\ Len(t.path) = 4 /\ t.path[1] = "executor" /\ t.path[2] = "coreTools"
         /\ t.path[3] = "oauth"
         /\ t.path[4] = "probe" => {"url"} \subseteq t.required
         /\ t.path[4] = "start" => t.asks /\ {"client"} \subseteq t.required
         /\ t.path[4] = "cancel" => {"state"} \subseteq t.required
  BY CorePair DEF FlowTools, Built, StaticTool

(* toolkits,                                                               *)
LEMMA ToolkitSchemas ==
  ASSUME NEW t \in ToolkitTools
  PROVE  /\ Len(t.path) = 4 /\ t.path[1] = "executor" /\ t.path[2] = "coreTools"
         /\ t.path[3] = "toolkits"
         /\ t.path[4] \in {"create", "remove"} => t.asks /\ {"slug"} \subseteq t.required
  BY CorePair DEF ToolkitTools, Built, StaticTool

(* and the tools of the plugins.                                           *)
LEMMA PluginSchemas ==
  ASSUME NEW t \in PluginTools
  PROVE  /\ Len(t.path) = 3 /\ t.path[1] = "executor" /\ t.path[2] # "coreTools"
         /\ t.asks /\ {"slug"} \subseteq t.required
         /\ t.path[2] = "openapi" => {"spec"} \subseteq t.required
         /\ t.path[2] = "graphql" => {"endpoint"} \subseteq t.required
  BY DEF PluginTools, StaticTool, AddSpecSchema

(* An address is the path after one more segment.                          *)
LEMMA AddressLength ==
  ASSUME NEW S, NEW path \in Seq(S)
  PROVE  /\ Len(Address(path)) = Len(path) + 1 /\ Address(path)[1] = "tools"
         /\ \A i \in 1..Len(path) : Address(path)[i + 1] = path[i]
  <1> DEFINE T == S \cup {"tools"}
             h == <<"tools">>
  <1>1. "tools" \in T /\ path \in Seq(T)
    OBVIOUS
  <1> HIDE DEF T
  <1>2. h \in Seq(T) /\ Len(h) = 1 /\ h[1] = "tools"
    BY <1>1
  <1> HIDE DEF h
  <1> QED BY <1>1, <1>2 DEF Address, h

(* What is parsed has four segments before the name.                       *)
LEMMA ParsedIsLong ==
  ASSUME NEW path, ParseToolAddress(path) # NoTool
  PROVE  Len(path) >= 5
  BY Zenon DEF ParseToolAddress

(* A tool of a connection never has the path of a plugin's.                *)
LEMMA StoredAreLong ==
  ASSUME NEW path \in Stored
  PROVE  Len(path) >= 4 /\ path # NoTool
  <1>1. path \in Seq(STRING) /\ path # NoTool /\ ParseToolAddress(Address(path)) = path
    BY StoredAssumption
  <1>2. Len(Address(path)) >= 5
    BY <1>1, ParsedIsLong
  <1>3. Len(Address(path)) = Len(path) + 1 /\ Len(path) \in Nat
    BY <1>1, AddressLength
  <1> QED BY <1>1, <1>2, <1>3

(* Among the tools that a call can run, those with a path have the fields  *)
(* a handler needs in their schema, and wait for a person.                 *)
Fits(path, needs) ==
    path \in StaticPaths \cup Stored =>
        path \in StaticPaths /\ needs \subseteq ToolAt(path).required
Guarded(path) == path \in StaticPaths \cup Stored => path \in StaticPaths /\ ToolAt(path).asks

(* It is enough that the tools with the path do.                           *)
LEMMA FitsIfAllDo ==
  ASSUME NEW path, NEW needs, path \in StaticPaths \/ path \notin Stored,
         \A t \in StaticTools : t.path = path => needs \subseteq t.required
  PROVE  Fits(path, needs)
  <1> SUFFICES ASSUME path \in StaticPaths PROVE needs \subseteq ToolAt(path).required
    BY DEF Fits
  <1>1. \E t \in StaticTools : t.path = path
    BY DEF StaticPaths
  <1>2. ToolAt(path) \in StaticTools /\ ToolAt(path).path = path
    BY <1>1 DEF ToolAt
  <1> QED BY <1>2

LEMMA GuardedIfAllAre ==
  ASSUME NEW path, path \in StaticPaths \/ path \notin Stored,
         \A t \in StaticTools : t.path = path => t.asks
  PROVE  Guarded(path)
  <1> SUFFICES ASSUME path \in StaticPaths PROVE ToolAt(path).asks
    BY DEF Guarded
  <1>1. \E t \in StaticTools : t.path = path
    BY DEF StaticPaths
  <1>2. ToolAt(path) \in StaticTools /\ ToolAt(path).path = path
    BY <1>1 DEF ToolAt
  <1> QED BY <1>2

(* The paths of the core tools.                                            *)
LEMMA CorePaths ==
  /\ \A last \in {"list", "remove", "detect"} : Core(<<"integrations", last>>) \in StaticPaths
  /\ \A last \in {"list", "create", "createHandoff", "remove", "refresh"} :
       Core(<<"connections", last>>) \in StaticPaths
  /\ \A last \in {"list", "create", "update", "remove"} :
       Core(<<"policies", last>>) \in StaticPaths
  /\ \A last \in {"list", "items"} : Core(<<"providers", last>>) \in StaticPaths
  /\ \A last \in {"list", "create", "createHandoff", "registerDynamic", "remove"} :
       Core(<<"oauth", "clients", last>>) \in StaticPaths
  /\ \A last \in {"probe", "start", "cancel"} : Core(<<"oauth", last>>) \in StaticPaths
  /\ \A last \in {"list", "create", "remove"} : Core(<<"toolkits", last>>) \in StaticPaths
  <1>1. \A t \in CoreToolSet : t.path \in StaticPaths
    BY DEF StaticTools, StaticPaths
  <1>2. \A name, required, optional, asks : Built(name, required, optional, asks).path = Core(name)
    BY DEF Built, StaticTool
  <1>3. ASSUME NEW last \in {"list", "remove", "detect"}
        PROVE  \E t \in IntegrationTools : t.path = Core(<<"integrations", last>>)
    BY <1>2 DEF IntegrationTools
  <1>4. ASSUME NEW last \in {"list", "create", "createHandoff", "remove", "refresh"}
        PROVE  \E t \in ConnectionTools : t.path = Core(<<"connections", last>>)
    BY <1>2 DEF ConnectionTools
  <1>5. ASSUME NEW last \in {"list", "create", "update", "remove"}
        PROVE  \E t \in PolicyTools : t.path = Core(<<"policies", last>>)
    BY <1>2 DEF PolicyTools
  <1>6. ASSUME NEW last \in {"list", "items"}
        PROVE  \E t \in ProviderTools : t.path = Core(<<"providers", last>>)
    BY <1>2 DEF ProviderTools
  <1>7. ASSUME NEW last \in {"list", "create", "createHandoff", "registerDynamic", "remove"}
        PROVE  \E t \in ClientTools : t.path = Core(<<"oauth", "clients", last>>)
    BY <1>2 DEF ClientTools
  <1>8. ASSUME NEW last \in {"probe", "start", "cancel"}
        PROVE  \E t \in FlowTools : t.path = Core(<<"oauth", last>>)
    BY <1>2 DEF FlowTools
  <1>9. ASSUME NEW last \in {"list", "create", "remove"}
        PROVE  \E t \in ToolkitTools : t.path = Core(<<"toolkits", last>>)
    BY <1>2 DEF ToolkitTools
  <1> QED BY <1>1, <1>3, <1>4, <1>5, <1>6, <1>7, <1>8, <1>9 DEF CoreToolSet

(* The path of a tool tells its group and its last segment.                *)
LEMMA ToolGroups ==
  ASSUME NEW t \in StaticTools, NEW last
  PROVE  /\ t.path = Core(<<"integrations", last>>) => t \in IntegrationTools /\ t.path[4] = last
         /\ t.path = Core(<<"connections", last>>) => t \in ConnectionTools /\ t.path[4] = last
         /\ t.path = Core(<<"policies", last>>) => t \in PolicyTools /\ t.path[4] = last
         /\ t.path = Core(<<"providers", last>>) => t \in ProviderTools /\ t.path[4] = last
         /\ t.path = Core(<<"toolkits", last>>) => t \in ToolkitTools /\ t.path[4] = last
         /\ t.path = Core(<<"oauth", last>>) => t \in FlowTools /\ t.path[4] = last
         /\ t.path = Core(<<"oauth", "clients", last>>) => t \in ClientTools /\ t.path[5] = last
         /\ Len(t.path) = 3 => t \in PluginTools
         /\ t.path[1] = "executor"
  <1>1. \/ t \in IntegrationTools \/ t \in ConnectionTools \/ t \in PolicyTools
        \/ t \in ProviderTools \/ t \in ClientTools \/ t \in FlowTools
        \/ t \in ToolkitTools \/ t \in PluginTools
    BY DEF StaticTools, CoreToolSet
  <1>2. CASE t \in IntegrationTools
    BY <1>2, IntegrationSchemas, CorePair, CoreTriple
  <1>3. CASE t \in ConnectionTools
    BY <1>3, ConnectionSchemas, CorePair, CoreTriple
  <1>4. CASE t \in PolicyTools
    BY <1>4, PolicySchemas, CorePair, CoreTriple
  <1>5. CASE t \in ProviderTools
    BY <1>5, ProviderSchemas, CorePair, CoreTriple
  <1>6. CASE t \in ClientTools
    BY <1>6, ClientSchemas, CorePair, CoreTriple
  <1>7. CASE t \in FlowTools
    BY <1>7, FlowSchemas, CorePair, CoreTriple
  <1>8. CASE t \in ToolkitTools
    BY <1>8, ToolkitSchemas, CorePair, CoreTriple
  <1>9. CASE t \in PluginTools
    BY <1>9, PluginSchemas, CorePair, CoreTriple
  <1> QED BY <1>1, <1>2, <1>3, <1>4, <1>5, <1>6, <1>7, <1>8, <1>9

(* What the handlers need is in their schemas, and those that change what  *)
(* is configured wait for a person: integrations,                          *)
LEMMA IntegrationHandlers ==
  /\ Fits(Core(<<"integrations", "remove">>), {"slug"})
  /\ Guarded(Core(<<"integrations", "remove">>))
  /\ Fits(Core(<<"integrations", "detect">>), {"url"})
  <1>1. Fits(Core(<<"integrations", "remove">>), {"slug"})
    <2>1. ASSUME NEW t \in StaticTools, t.path = Core(<<"integrations", "remove">>)
          PROVE  {"slug"} \subseteq t.required
      <3>1. t \in IntegrationTools /\ t.path[4] = "remove"
        BY <2>1, ToolGroups
      <3> QED BY <3>1, IntegrationSchemas
    <2> QED BY <2>1, CorePaths, FitsIfAllDo
  <1>2. Guarded(Core(<<"integrations", "remove">>))
    <2>1. ASSUME NEW t \in StaticTools, t.path = Core(<<"integrations", "remove">>)
          PROVE  t.asks
      <3>1. t \in IntegrationTools /\ t.path[4] = "remove"
        BY <2>1, ToolGroups
      <3> QED BY <3>1, IntegrationSchemas
    <2> QED BY <2>1, CorePaths, GuardedIfAllAre
  <1>3. Fits(Core(<<"integrations", "detect">>), {"url"})
    <2>1. ASSUME NEW t \in StaticTools, t.path = Core(<<"integrations", "detect">>)
          PROVE  {"url"} \subseteq t.required
      <3>1. t \in IntegrationTools /\ t.path[4] = "detect"
        BY <2>1, ToolGroups
      <3> QED BY <3>1, IntegrationSchemas
    <2> QED BY <2>1, CorePaths, FitsIfAllDo
  <1> QED BY <1>1, <1>2, <1>3

(* connections,                                                            *)
LEMMA ConnectionHandlers ==
  /\ \A last \in {"create", "remove", "refresh"} :
       Fits(Core(<<"connections", last>>), {"name", "integration"})
  /\ \A last \in {"create", "remove"} : Guarded(Core(<<"connections", last>>))
  /\ Fits(Core(<<"connections", "createHandoff">>), {"integration"})
  <1>1. ASSUME NEW last \in {"create", "remove", "refresh"}
        PROVE  Fits(Core(<<"connections", last>>), {"name", "integration"})
    <2>1. ASSUME NEW t \in StaticTools, t.path = Core(<<"connections", last>>)
          PROVE  {"name", "integration"} \subseteq t.required
      <3>1. t \in ConnectionTools /\ t.path[4] = last
        BY <2>1, ToolGroups
      <3> QED BY <3>1, ConnectionSchemas
    <2> QED BY <2>1, CorePaths, FitsIfAllDo
  <1>2. ASSUME NEW last \in {"create", "remove"}
        PROVE  Guarded(Core(<<"connections", last>>))
    BY CorePaths, ToolGroups, ConnectionSchemas, GuardedIfAllAre
  <1>3. Fits(Core(<<"connections", "createHandoff">>), {"integration"})
    <2>1. ASSUME NEW t \in StaticTools, t.path = Core(<<"connections", "createHandoff">>)
          PROVE  {"integration"} \subseteq t.required
      <3>1. t \in ConnectionTools /\ t.path[4] = "createHandoff"
        BY <2>1, ToolGroups
      <3> QED BY <3>1, ConnectionSchemas
    <2> QED BY <2>1, CorePaths, FitsIfAllDo
  <1> QED BY <1>1, <1>2, <1>3

(* policies and providers,                                                 *)
LEMMA PolicyHandlers ==
  /\ Fits(Core(<<"policies", "create">>), {"pattern", "action"})
  /\ \A last \in {"update", "remove"} : Fits(Core(<<"policies", last>>), {"id"})
  /\ \A last \in {"create", "update", "remove"} : Guarded(Core(<<"policies", last>>))
  /\ Fits(Core(<<"providers", "items">>), {"provider"})
  <1>1. Fits(Core(<<"policies", "create">>), {"pattern", "action"})
    <2>1. ASSUME NEW t \in StaticTools, t.path = Core(<<"policies", "create">>)
          PROVE  {"pattern", "action"} \subseteq t.required
      <3>1. t \in PolicyTools /\ t.path[4] = "create"
        BY <2>1, ToolGroups
      <3> QED BY <3>1, PolicySchemas
    <2> QED BY <2>1, CorePaths, FitsIfAllDo
  <1>2. ASSUME NEW last \in {"update", "remove"}
        PROVE  Fits(Core(<<"policies", last>>), {"id"})
    <2>1. ASSUME NEW t \in StaticTools, t.path = Core(<<"policies", last>>)
          PROVE  {"id"} \subseteq t.required
      <3>1. t \in PolicyTools /\ t.path[4] = last
        BY <2>1, ToolGroups
      <3> QED BY <3>1, PolicySchemas
    <2> QED BY <2>1, CorePaths, FitsIfAllDo
  <1>3. ASSUME NEW last \in {"create", "update", "remove"}
        PROVE  Guarded(Core(<<"policies", last>>))
    BY CorePaths, ToolGroups, PolicySchemas, GuardedIfAllAre
  <1>4. Fits(Core(<<"providers", "items">>), {"provider"})
    <2>1. ASSUME NEW t \in StaticTools, t.path = Core(<<"providers", "items">>)
          PROVE  {"provider"} \subseteq t.required
      <3>1. t \in ProviderTools /\ t.path[4] = "items"
        BY <2>1, ToolGroups
      <3> QED BY <3>1, ProviderSchemas
    <2> QED BY <2>1, CorePaths, FitsIfAllDo
  <1> QED BY <1>1, <1>2, <1>3, <1>4

(* OAuth clients,                                                          *)
LEMMA ClientHandlers ==
  /\ Fits(Core(<<"oauth", "clients", "create">>),
          {"slug", "authorizationUrl", "tokenUrl", "clientId"})
  /\ Fits(Core(<<"oauth", "clients", "createHandoff">>), {"integration"})
  /\ Fits(Core(<<"oauth", "clients", "registerDynamic">>),
          {"slug", "registrationEndpoint", "authorizationUrl", "tokenUrl"})
  /\ Fits(Core(<<"oauth", "clients", "remove">>), {"slug"})
  /\ \A last \in {"create", "registerDynamic", "remove"} :
       Guarded(Core(<<"oauth", "clients", last>>))
  <1>1. Fits(Core(<<"oauth", "clients", "create">>),
             {"slug", "authorizationUrl", "tokenUrl", "clientId"})
    <2>1. ASSUME NEW t \in StaticTools, t.path = Core(<<"oauth", "clients", "create">>)
          PROVE  {"slug", "authorizationUrl", "tokenUrl", "clientId"} \subseteq t.required
      <3>1. t \in ClientTools /\ t.path[5] = "create"
        BY <2>1, ToolGroups
      <3> QED BY <3>1, ClientSchemas
    <2> QED BY <2>1, CorePaths, FitsIfAllDo
  <1>2. Fits(Core(<<"oauth", "clients", "createHandoff">>), {"integration"})
    <2>1. ASSUME NEW t \in StaticTools, t.path = Core(<<"oauth", "clients", "createHandoff">>)
          PROVE  {"integration"} \subseteq t.required
      <3>1. t \in ClientTools /\ t.path[5] = "createHandoff"
        BY <2>1, ToolGroups
      <3> QED BY <3>1, ClientSchemas
    <2> QED BY <2>1, CorePaths, FitsIfAllDo
  <1>3. Fits(Core(<<"oauth", "clients", "registerDynamic">>),
             {"slug", "registrationEndpoint", "authorizationUrl", "tokenUrl"})
    <2>1. ASSUME NEW t \in StaticTools, t.path = Core(<<"oauth", "clients", "registerDynamic">>)
          PROVE  {"slug", "registrationEndpoint", "authorizationUrl", "tokenUrl"}
                   \subseteq t.required
      <3>1. t \in ClientTools /\ t.path[5] = "registerDynamic"
        BY <2>1, ToolGroups
      <3> QED BY <3>1, ClientSchemas
    <2> QED BY <2>1, CorePaths, FitsIfAllDo
  <1>4. Fits(Core(<<"oauth", "clients", "remove">>), {"slug"})
    <2>1. ASSUME NEW t \in StaticTools, t.path = Core(<<"oauth", "clients", "remove">>)
          PROVE  {"slug"} \subseteq t.required
      <3>1. t \in ClientTools /\ t.path[5] = "remove"
        BY <2>1, ToolGroups
      <3> QED BY <3>1, ClientSchemas
    <2> QED BY <2>1, CorePaths, FitsIfAllDo
  <1>5. ASSUME NEW last \in {"create", "registerDynamic", "remove"}
        PROVE  Guarded(Core(<<"oauth", "clients", last>>))
    BY CorePaths, ToolGroups, ClientSchemas, GuardedIfAllAre
  <1> QED BY <1>1, <1>2, <1>3, <1>4, <1>5

(* OAuth logins and toolkits,                                              *)
LEMMA FlowHandlers ==
  /\ Fits(Core(<<"oauth", "probe">>), {"url"})
  /\ Fits(Core(<<"oauth", "start">>), {"client"})
  /\ Guarded(Core(<<"oauth", "start">>))
  /\ Fits(Core(<<"oauth", "cancel">>), {"state"})
  /\ \A last \in {"create", "remove"} : Fits(Core(<<"toolkits", last>>), {"slug"})
  /\ \A last \in {"create", "remove"} : Guarded(Core(<<"toolkits", last>>))
  <1>1. Fits(Core(<<"oauth", "probe">>), {"url"})
    <2>1. ASSUME NEW t \in StaticTools, t.path = Core(<<"oauth", "probe">>)
          PROVE  {"url"} \subseteq t.required
      <3>1. t \in FlowTools /\ t.path[4] = "probe"
        BY <2>1, ToolGroups
      <3> QED BY <3>1, FlowSchemas
    <2> QED BY <2>1, CorePaths, FitsIfAllDo
  <1>2. Fits(Core(<<"oauth", "start">>), {"client"})
    <2>1. ASSUME NEW t \in StaticTools, t.path = Core(<<"oauth", "start">>)
          PROVE  {"client"} \subseteq t.required
      <3>1. t \in FlowTools /\ t.path[4] = "start"
        BY <2>1, ToolGroups
      <3> QED BY <3>1, FlowSchemas
    <2> QED BY <2>1, CorePaths, FitsIfAllDo
  <1>3. Guarded(Core(<<"oauth", "start">>))
    <2>1. ASSUME NEW t \in StaticTools, t.path = Core(<<"oauth", "start">>)
          PROVE  t.asks
      <3>1. t \in FlowTools /\ t.path[4] = "start"
        BY <2>1, ToolGroups
      <3> QED BY <3>1, FlowSchemas
    <2> QED BY <2>1, CorePaths, GuardedIfAllAre
  <1>4. Fits(Core(<<"oauth", "cancel">>), {"state"})
    <2>1. ASSUME NEW t \in StaticTools, t.path = Core(<<"oauth", "cancel">>)
          PROVE  {"state"} \subseteq t.required
      <3>1. t \in FlowTools /\ t.path[4] = "cancel"
        BY <2>1, ToolGroups
      <3> QED BY <3>1, FlowSchemas
    <2> QED BY <2>1, CorePaths, FitsIfAllDo
  <1>5. ASSUME NEW last \in {"create", "remove"}
        PROVE  Fits(Core(<<"toolkits", last>>), {"slug"})
    <2>1. ASSUME NEW t \in StaticTools, t.path = Core(<<"toolkits", last>>)
          PROVE  {"slug"} \subseteq t.required
      <3>1. t \in ToolkitTools /\ t.path[4] = last
        BY <2>1, ToolGroups
      <3> QED BY <3>1, ToolkitSchemas
    <2> QED BY <2>1, CorePaths, FitsIfAllDo
  <1>6. ASSUME NEW last \in {"create", "remove"}
        PROVE  Guarded(Core(<<"toolkits", last>>))
    BY CorePaths, ToolGroups, ToolkitSchemas, GuardedIfAllAre
  <1> QED BY <1>1, <1>2, <1>3, <1>4, <1>5, <1>6

(* and what the plugins add.                                               *)
LEMMA PluginHandlers ==
  ASSUME NEW kind \in {"openapi", "graphql", "mcp"}, NEW last
  PROVE  LET path == <<"executor", kind, last>>
         IN  /\ Guarded(path) /\ Fits(path, {"slug"})
             /\ kind = "openapi" => Fits(path, {"slug", "spec"})
             /\ kind = "graphql" => Fits(path, {"slug", "endpoint"})
  <1> DEFINE path == <<"executor", kind, last>>
  <1>1. Len(path) = 3 /\ path[2] = kind
    OBVIOUS
  <1> HIDE DEF path
  <1>2. path \notin Stored
    <2> SUFFICES ASSUME path \in Stored PROVE FALSE
      OBVIOUS
    <2>1. Len(path) >= 4
      BY StoredAreLong
    <2> QED BY <1>1, <2>1
  <1>3. ASSUME NEW t \in StaticTools, t.path = path
        PROVE  /\ t.asks /\ {"slug"} \subseteq t.required
               /\ kind = "openapi" => {"spec"} \subseteq t.required
               /\ kind = "graphql" => {"endpoint"} \subseteq t.required
    BY <1>1, <1>3, ToolGroups, PluginSchemas
  <1>4. Guarded(path)
    BY <1>2, <1>3, GuardedIfAllAre
  <1>5. Fits(path, {"slug"})
    BY <1>2, <1>3, FitsIfAllDo
  <1>6. kind = "openapi" => Fits(path, {"slug", "spec"})
    BY <1>2, <1>3, FitsIfAllDo
  <1>7. kind = "graphql" => Fits(path, {"slug", "endpoint"})
    BY <1>2, <1>3, FitsIfAllDo
  <1> QED BY <1>4, <1>5, <1>6, <1>7 DEF path

(* One path is chosen, or the default.                                     *)
LEMMA UniqueOrDefault ==
  ASSUME NEW paths, NEW default
  PROVE  UniqueOr(paths, default) \in paths \cup {default}
  <1>1. CASE Cardinality(paths) = 1
    <2>1. paths # {}
      BY <1>1, FS_EmptySet
    <2> QED BY <1>1, <2>1 DEF UniqueOr
  <1> QED BY <1>1 DEF UniqueOr

(* A path means a tool that there is.                                      *)
LEMMA ResolvedIsThere ==
  ASSUME NEW path
  PROVE  Resolved(path) \in StaticPaths \cup storedTools \cup {NoTool}
  <1> DEFINE named == ParseToolAddress(path)
             short == ParseToolAddress(Address(path))
             under == {t \in StaticPaths \cup storedTools : IsPrefix(path, t)}
             exact == {t \in StaticPaths \cup storedTools : path \in {t, AddressOf(StaticPaths, t)}}
  <1>1. Resolved(path) =
          IF path \in StaticPaths THEN path
          ELSE IF named # NoTool THEN UniqueOr({named} \cap storedTools, NoTool)
          ELSE IF short # NoTool /\ short \in storedTools THEN short
          ELSE UniqueOr(exact, UniqueOr(under, NoTool))
    BY DEF Resolved, ResolvePath
  <1>2. under \subseteq StaticPaths \cup storedTools /\ exact \subseteq StaticPaths \cup storedTools
    OBVIOUS
  <1> HIDE DEF named, short, under, exact
  <1>3. UniqueOr({named} \cap storedTools, NoTool) \in storedTools \cup {NoTool}
    BY UniqueOrDefault
  <1>4. UniqueOr(under, NoTool) \in under \cup {NoTool}
    BY UniqueOrDefault
  <1>5. UniqueOr(exact, UniqueOr(under, NoTool)) \in exact \cup {UniqueOr(under, NoTool)}
    BY UniqueOrDefault
  <1> QED BY <1>1, <1>2, <1>3, <1>4, <1>5

(* A core tool's path is a sequence as its name is.                        *)
LEMMA CoreIsSeq ==
  ASSUME NEW S, NEW n \in Seq(S)
  PROVE  \E T : Core(n) \in Seq(T)
  <1> DEFINE T == S \cup {"executor", "coreTools"}
             group == <<"executor", "coreTools">>
  <1>1. "executor" \in T /\ "coreTools" \in T /\ n \in Seq(T)
    OBVIOUS
  <1> HIDE DEF T
  <1>2. group \in Seq(T)
    BY <1>1
  <1> HIDE DEF group
  <1>3. group \o n \in Seq(T)
    BY <1>1, <1>2
  <1> QED BY <1>3 DEF Core, group

IsSegments(path) == \E S : path \in Seq(S)

(* The second segment of a built-in tool's path is no owner.               *)
LEMMA StaticSegments ==
  ASSUME NEW path \in StaticPaths
  PROVE  IsSegments(path) /\ Len(path) >= 3 /\ ~ParseOwner(path[2])
  <1>1. PICK t \in StaticTools : t.path = path
    BY DEF StaticPaths
  <1>2. CASE t \in PluginTools
    <2>1. \E kind \in {"openapi", "graphql", "mcp"} : \E last : t.path = <<"executor", kind, last>>
      BY <1>2 DEF PluginTools, StaticTool
    <2>2. PICK kind \in {"openapi", "graphql", "mcp"} : \E last : t.path = <<"executor", kind, last>>
      BY <2>1
    <2>3. ASSUME NEW a, NEW b, NEW c, path = <<a, b, c>>
          PROVE  IsSegments(path) /\ Len(path) = 3 /\ path[2] = b
      <3>1. /\ <<a, b, c>> \in Seq({a, b, c})
            /\ Len(<<a, b, c>>) = 3 /\ <<a, b, c>>[2] = b
        OBVIOUS
      <3> QED BY <2>3, <3>1 DEF IsSegments
    <2>4. IsSegments(path) /\ Len(path) = 3 /\ path[2] = kind
      BY <1>1, <2>2, <2>3
    <2> QED BY <2>4 DEF ParseOwner
  <1>3. CASE t \notin PluginTools
    <2>1. ASSUME NEW a, NEW b, NEW c
          PROVE  IsSegments(Core(<<a, b>>)) /\ IsSegments(Core(<<a, b, c>>))
      <3>1. <<a, b>> \in Seq({a, b}) /\ <<a, b, c>> \in Seq({a, b, c})
        OBVIOUS
      <3> QED BY <3>1, CoreIsSeq DEF IsSegments
    <2>2. /\ \A a, b : IsSegments(Core(<<a, b>>))
          /\ \A a, b, c : IsSegments(Core(<<a, b, c>>))
      BY <2>1
    <2>3. \/ t \in IntegrationTools \/ t \in ConnectionTools \/ t \in PolicyTools
          \/ t \in ProviderTools \/ t \in ClientTools \/ t \in FlowTools \/ t \in ToolkitTools
      BY <1>3 DEF StaticTools, CoreToolSet
    <2>4. IsSegments(t.path)
      <3>1. CASE t \in IntegrationTools \/ t \in ConnectionTools
        BY <2>2, <3>1 DEF IntegrationTools, ConnectionTools, Built, StaticTool
      <3>2. CASE t \in PolicyTools \/ t \in ProviderTools
        BY <2>2, <3>2 DEF PolicyTools, ProviderTools, Built, StaticTool
      <3>3. CASE t \in ClientTools
        BY <2>2, <3>3 DEF ClientTools, Built, StaticTool
      <3>4. CASE t \in FlowTools \/ t \in ToolkitTools
        BY <2>2, <3>4 DEF FlowTools, ToolkitTools, Built, StaticTool
      <3> QED BY <2>3, <3>1, <3>2, <3>3, <3>4
    <2>5. Len(t.path) >= 4 /\ t.path[2] = "coreTools"
      BY <2>3, IntegrationSchemas, ConnectionSchemas, PolicySchemas, ProviderSchemas,
         ClientSchemas, FlowSchemas, ToolkitSchemas
    <2> QED BY <1>1, <2>4, <2>5 DEF ParseOwner
  <1> QED BY <1>2, <1>3

(* The second segment of a connection's tool is.                           *)
LEMMA StoredSegments ==
  ASSUME NEW path \in Stored
  PROVE  path \in Seq(STRING) /\ Len(path) >= 4 /\ ParseOwner(path[2])
  <1>1. path \in Seq(STRING) /\ path # NoTool /\ ParseToolAddress(Address(path)) = path
    BY StoredAssumption
  <1>2. Len(path) >= 4
    BY StoredAreLong
  <1>3. ParseOwner(Address(path)[3])
    BY <1>1, Zenon DEF ParseToolAddress
  <1>4. Address(path)[3] = path[2]
    BY <1>1, <1>2, AddressLength
  <1> QED BY <1>1, <1>2, <1>3, <1>4

(* Nor are the addresses of built-in tools paths of others.                *)
LEMMA StaticAddresses ==
  ASSUME NEW path \in StaticPaths
  PROVE  PushStatic(path)[1] = "tools" /\ ~ParseOwner(PushStatic(path)[2])
  <1>1. PICK S : path \in Seq(S)
    BY StaticSegments DEF IsSegments
  <1> DEFINE T == S \cup {"executor", "org", "core"}
             h == <<"executor", "org", "core">>
             whole == h \o path
  <1>2. /\ "executor" \in T /\ "org" \in T /\ "core" \in T /\ path \in Seq(T)
    BY <1>1
  <1> HIDE DEF T
  <1>3. h \in Seq(T) /\ Len(h) = 3 /\ h[1] = "executor"
    BY <1>2
  <1> HIDE DEF h
  <1>4. whole \in Seq(T) /\ Len(whole) \in Nat /\ Len(whole) >= 3 /\ whole[1] = "executor"
    <2>1. /\ whole \in Seq(T) /\ Len(whole) = Len(h) + Len(path)
          /\ \A i \in 1..(Len(h) + Len(path)) :
               whole[i] = IF i <= Len(h) THEN h[i] ELSE path[i - Len(h)]
      BY <1>2, <1>3, ConcatProperties, Zenon
    <2>2. Len(whole) = 3 + Len(path) /\ Len(path) \in Nat
      BY <1>2, <1>3, <2>1
    <2>3. whole[1] = h[1]
      BY <1>3, <2>1, <2>2
    <2> QED BY <1>3, <2>1, <2>2, <2>3
  <1> HIDE DEF whole
  <1>5. Address(whole)[1] = "tools" /\ Address(whole)[1 + 1] = "executor"
    BY <1>4, AddressLength
  <1> QED BY <1>5 DEF PushStatic, ParseOwner, h, whole

(* A path that was resolved means, at any later moment, itself if it is of *)
(* a built-in tool; else no built-in tool, and no other tool of a          *)
(* connection than RunsAsShown allows.                                     *)
LEMMA ResolvedAgain ==
  ASSUME NEW path \in StaticPaths \cup Stored, storedTools \subseteq Stored
  PROVE  /\ Resolved(path) \in StaticPaths => Resolved(path) = path
         /\ Resolved(path) # NoTool => RunsAsShown(path, Resolved(path))
  <1>1. CASE path \in StaticPaths
    BY <1>1 DEF Resolved, ResolvePath, RunsAsShown
  <1>2. CASE path \notin StaticPaths
    <2> DEFINE named == ParseToolAddress(path)
               under == {t \in StaticPaths \cup storedTools : IsPrefix(path, t)}
               exact == {t \in StaticPaths \cup storedTools :
                           path \in {t, AddressOf(StaticPaths, t)}}
    <2>1. /\ path \in Stored /\ path \in Seq(STRING) /\ path # NoTool
          /\ ParseToolAddress(Address(path)) = path
      BY <1>2, StoredAssumption
    <2>2. Len(path) >= 4 /\ ParseOwner(path[2])
      BY <2>1, StoredSegments
    <2>3. Resolved(path) =
            IF named # NoTool THEN UniqueOr({named} \cap storedTools, NoTool)
            ELSE IF path \in storedTools THEN path
            ELSE UniqueOr(exact, UniqueOr(under, NoTool))
      BY <1>2, <2>1 DEF Resolved, ResolvePath
    <2>4. under \subseteq storedTools
      <3> SUFFICES ASSUME NEW t \in StaticPaths, IsPrefix(path, t) PROVE FALSE
        OBVIOUS
      <3>1. (\E S : t \in Seq(S)) /\ ~ParseOwner(t[2])
        BY StaticSegments DEF IsSegments
      <3>2. path[2] = t[2]
        BY <2>1, <2>2, <3>1 DEF IsPrefix
      <3> QED BY <2>2, <3>1, <3>2
    <2>5. exact \subseteq storedTools
      <3> SUFFICES ASSUME NEW t \in StaticPaths, path \in {t, AddressOf(StaticPaths, t)} PROVE FALSE
        OBVIOUS
      <3>1. path = PushStatic(t)
        BY <1>2 DEF AddressOf
      <3> QED BY <2>2, <3>1, StaticAddresses
    <2>6. storedTools \cap StaticPaths = {} /\ NoTool \notin StaticPaths
      BY StaticSegments, StoredSegments DEF NoTool
    <2> HIDE DEF named, under, exact
    <2>7. Resolved(path) \in storedTools \cup {NoTool}
      BY <2>3, <2>4, <2>5, UniqueOrDefault
    <2>8. ASSUME Resolved(path) # NoTool, path[1] # "tools", path \notin storedTools
          PROVE  under = {Resolved(path)}
      <3>1. named = NoTool
        BY <2>8, Zenon DEF ParseToolAddress, named
      <3>2. exact = {}
        <4> SUFFICES ASSUME NEW t \in storedTools, path = AddressOf(StaticPaths, t) PROVE FALSE
          BY <2>5, <2>8 DEF exact
        <4>1. t \in Seq(STRING) /\ t \notin StaticPaths
          BY <2>6, StoredSegments
        <4> QED BY <2>8, <4>1, AddressLength DEF AddressOf
      <3>3. Resolved(path) = UniqueOr(under, NoTool)
        BY <2>3, <2>8, <3>1, <3>2, FS_EmptySet DEF UniqueOr
      <3>4. Cardinality(under) = 1 /\ IsFiniteSet(under)
        BY <2>4, <2>8, <3>3, StoredAssumption, FS_Subset DEF UniqueOr
      <3>5. PICK it : under = {it}
        BY <3>4, FS_Singleton
      <3> QED BY <3>3, <3>4, <3>5 DEF UniqueOr
    <2>9. named = NoTool /\ path \in storedTools => Resolved(path) = path
      BY <2>3
    <2>10. path[1] # "tools" => named = NoTool
      BY Zenon DEF ParseToolAddress, named
    <2> QED BY <1>2, <2>6, <2>7, <2>8, <2>9, <2>10 DEF RunsAsShown, under
  <1> QED BY <1>1, <1>2

TurnFields == {"phase", "meant", "tool", "args", "agreed", "merged", "reply"}
ConfigFields == {"integration", "connections", "rules", "clients", "sessions", "toolkit"}

Enough(path, args) == path \in StaticPaths => ToolAt(path).required \subseteq Strings(args)

(* A call that is under way is of a tool that was there, with the fields   *)
(* it needs until a form goes over them; one that waits for a person is of *)
(* the tool that was shown, and one that runs was let through.             *)
TurnInv(a) ==
    LET call == agentCall[a] IN
    /\ DOMAIN call = TurnFields
    /\ call.phase \in {"idle", "paused", "running", "remote"}
    /\ call.reply = "missing" => call.merged
    /\ call.phase # "idle" =>
         /\ call.tool \in StaticPaths \cup Stored /\ call.reply = "none"
         /\ call.merged \/ Enough(call.tool, call.args)
    /\ call.phase = "paused" => call.tool = call.meant /\ Enough(call.tool, call.args)
    /\ call.phase \in {"running", "remote"} =>
         call.agreed \/ SessionApproved(call.tool) \/ ~Asks(call.tool)

CoreInv ==
    /\ DOMAIN agentCall = Agent /\ DOMAIN coreConfig = ConfigFields
    /\ storedTools \subseteq Stored
    /\ \A a \in Agent : TurnInv(a)

(* A session approval is never taken back.                                 *)
LEMMA TurnStands ==
  ASSUME NEW b \in Agent, TurnInv(b), agentCall'[b] = agentCall[b], sessionYes \subseteq sessionYes'
  PROVE  TurnInv(b)'
  BY DEF TurnInv, SessionApproved

(* Whatever resumes is what was shown.                                     *)
ShownRuns ==
    \A a \in Agent :
        agentCall[a].phase = "paused" /\ agentCall'[a].phase = "running" =>
            RunsAsShown(agentCall[a].meant, agentCall'[a].tool)

(* A call that is answered is over.                                       *)
LEMMA AnsweredKeeps ==
  ASSUME CoreInv, NEW a \in Agent, NEW said, Answered(a, said),
         said = "missing" => agentCall[a].merged,
         DOMAIN coreConfig' = ConfigFields, UNCHANGED sessionYes, storedTools' \subseteq Stored
  PROVE  CoreInv' /\ ShownRuns /\ agentCall'[a].phase = "idle"
  <1>1. /\ DOMAIN agentCall' = Agent
        /\ agentCall'[a] = [NoTurn EXCEPT !.reply = said, !.merged = agentCall[a].merged]
        /\ \A b \in Agent \ {a} : agentCall'[b] = agentCall[b]
    BY DEF Answered, CoreInv
  <1>2. DOMAIN agentCall'[a] = TurnFields /\ agentCall'[a].phase = "idle"
        /\ agentCall'[a].reply = said /\ agentCall'[a].merged = agentCall[a].merged
    BY <1>1 DEF NoTurn, TurnFields
  <1>3. TurnInv(a)'
    BY <1>2 DEF TurnInv
  <1>4. \A b \in Agent \ {a} : TurnInv(b)'
    BY <1>1, TurnStands DEF CoreInv
  <1>5. ShownRuns
    BY <1>1, <1>2 DEF ShownRuns
  <1> QED BY <1>1, <1>2, <1>3, <1>4, <1>5 DEF CoreInv

(* Who let a call through: the person who accepted it, or had approved its *)
(* tool for the session; or it ends a login.                               *)
Asked(a) ==
    /\ agentCall'[a] # agentCall[a]
    /\ \/ agentCall[a].agreed
       \/ SessionApproved(agentCall[a].tool)
       \/ /\ agentCall[a].tool = Core(<<"oauth", "cancel">>)
          /\ coreConfig' = [coreConfig EXCEPT !.sessions = coreConfig'.sessions]

(* A call of a tool that waits for a person was let through.               *)
LEMMA GuardedIsAsked ==
  ASSUME CoreInv, NEW a \in Agent, agentCall[a].phase \in {"running", "remote"},
         Guarded(agentCall[a].tool), agentCall'[a].phase # agentCall[a].phase
  PROVE  Asked(a)
  <1>1. /\ agentCall[a].tool \in StaticPaths \cup Stored
        /\ agentCall[a].agreed \/ SessionApproved(agentCall[a].tool) \/ ~Asks(agentCall[a].tool)
    BY DEF CoreInv, TurnInv
  <1>2. Asks(agentCall[a].tool)
    BY <1>1 DEF Guarded, Asks
  <1> QED BY <1>1, <1>2 DEF Asked

(* A handler that finds a field missing had a form put over its arguments. *)
LEMMA MissingIsMerged ==
  ASSUME CoreInv, NEW a \in Agent, NEW needs, agentCall[a].phase \in {"running", "remote"},
         Fits(agentCall[a].tool, needs), ~(needs \subseteq Strings(agentCall[a].args))
  PROVE  agentCall[a].merged
  <1> DEFINE call == agentCall[a]
  <1>1. /\ call.tool \in StaticPaths \cup Stored
        /\ call.merged \/ Enough(call.tool, call.args)
    BY DEF CoreInv, TurnInv
  <1> HIDE DEF call
  <1>2. call.tool \in StaticPaths /\ needs \subseteq ToolAt(call.tool).required
    BY <1>1 DEF Fits, call
  <1>3. ~(ToolAt(call.tool).required \subseteq Strings(call.args))
    BY <1>2 DEF call
  <1> QED BY <1>1, <1>2, <1>3 DEF Enough, call

(* A handler answers, and the configuration changes to what it makes of it *)
(* or not at all.                                                          *)
LEMMA HandleKeeps ==
  ASSUME CoreInv, NEW a \in Agent, NEW path, NEW needs, NEW ok, NEW next,
         Handle(a, path, needs, ok, next), needs = {} \/ Fits(path, needs),
         DOMAIN next = ConfigFields
  PROVE  /\ CoreInv' /\ ShownRuns
         /\ coreConfig' # coreConfig =>
              /\ coreConfig' = next /\ agentCall[a].tool = path
              /\ agentCall[a].phase = "running" /\ agentCall'[a].phase = "idle"
  <1>1. /\ agentCall[a].phase = "running" /\ agentCall[a].tool = path
        /\ UNCHANGED <<storedTools, sessionYes>>
        /\ storedTools \subseteq Stored /\ DOMAIN coreConfig = ConfigFields
    BY DEF Handle, CoreInv
  <1>2. CASE ~(needs \subseteq Strings(agentCall[a].args))
    <2>1. Answered(a, "missing") /\ UNCHANGED coreConfig
      BY <1>2 DEF Handle
    <2>2. agentCall[a].merged
      BY <1>1, <1>2, MissingIsMerged
    <2> QED BY <1>1, <2>1, <2>2, AnsweredKeeps
  <1>3. CASE needs \subseteq Strings(agentCall[a].args)
    <2>1. \/ Answered(a, "ok") /\ coreConfig' = next
          \/ Answered(a, "refused") /\ UNCHANGED coreConfig
      BY <1>3 DEF Handle
    <2> QED BY <1>1, <2>1, AnsweredKeeps
  <1> QED BY <1>2, <1>3

(* A handler that waits for a server stays where it is in the call.        *)
LEMMA AwaitKeeps ==
  ASSUME CoreInv, NEW a \in Agent, NEW path, NEW needs, NEW ok, NEW next,
         AwaitRemote(a, path, needs, ok, next), Fits(path, needs), DOMAIN next = ConfigFields
  PROVE  /\ CoreInv' /\ ShownRuns
         /\ coreConfig' # coreConfig =>
              /\ coreConfig' = next /\ agentCall[a].tool = path
              /\ agentCall[a].phase = "running" /\ agentCall'[a].phase # "running"
  <1>1. /\ agentCall[a].phase = "running" /\ agentCall[a].tool = path
        /\ UNCHANGED <<storedTools, sessionYes>>
        /\ storedTools \subseteq Stored /\ DOMAIN coreConfig = ConfigFields
    BY DEF AwaitRemote, CoreInv
  <1>2. CASE ~(needs \subseteq Strings(agentCall[a].args))
    <2>1. Answered(a, "missing") /\ UNCHANGED coreConfig
      BY <1>2 DEF AwaitRemote
    <2>2. agentCall[a].merged
      BY <1>1, <1>2, MissingIsMerged
    <2> QED BY <1>1, <2>1, <2>2, AnsweredKeeps
  <1>3. CASE needs \subseteq Strings(agentCall[a].args)
    <2>1. CASE Answered(a, "refused") /\ UNCHANGED coreConfig
      BY <1>1, <2>1, AnsweredKeeps
    <2>2. CASE agentCall' = [agentCall EXCEPT ![a].phase = "remote"] /\ coreConfig' = next
      <3>1. /\ DOMAIN agentCall' = Agent
            /\ agentCall'[a] = [agentCall[a] EXCEPT !.phase = "remote"]
            /\ \A b \in Agent \ {a} : agentCall'[b] = agentCall[b]
        BY <2>2 DEF CoreInv
      <3>2. TurnInv(a) /\ DOMAIN agentCall[a] = TurnFields
        BY DEF CoreInv, TurnInv
      <3>3. agentCall'[a].phase = "remote" /\ DOMAIN agentCall'[a] = TurnFields
        BY <3>1, <3>2 DEF TurnFields
      <3>4. \A field \in TurnFields \ {"phase"} : agentCall'[a][field] = agentCall[a][field]
        BY <3>1, <3>2
      <3>5. /\ agentCall'[a].meant = agentCall[a].meant /\ agentCall'[a].tool = agentCall[a].tool
            /\ agentCall'[a].args = agentCall[a].args /\ agentCall'[a].agreed = agentCall[a].agreed
            /\ agentCall'[a].merged = agentCall[a].merged
            /\ agentCall'[a].reply = agentCall[a].reply
        BY <3>4 DEF TurnFields
      <3>6. TurnInv(a)'
        BY <1>1, <3>2, <3>3, <3>5 DEF TurnInv, SessionApproved
      <3>7. \A b \in Agent \ {a} : TurnInv(b)'
        BY <1>1, <3>1, TurnStands DEF CoreInv
      <3>8. CoreInv'
        BY <1>1, <2>2, <3>1, <3>6, <3>7 DEF CoreInv
      <3>9. ShownRuns
        BY <1>1, <3>1 DEF ShownRuns
      <3> QED BY <1>1, <2>2, <3>3, <3>8, <3>9
    <2> QED BY <1>3, <2>1, <2>2 DEF AwaitRemote
  <1> QED BY <1>2, <1>3

(* A call is made of the tool that its path means at this moment, with     *)
(* arguments that its schema takes; else it is over at once.               *)
LEMMA ExecuteKeeps ==
  ASSUME CoreInv, NEW a \in Agent, ExecuteTool(a)
  PROVE  CoreInv' /\ ShownRuns
  <1>1. PICK typed \in StaticPaths \cup Typed, yes \in BOOLEAN :
          LET path == Resolved(typed) IN
          /\ agentCall[a].phase = "idle"
          /\ coreCalls < MaxCoreCalls
          /\ coreCalls' = coreCalls + 1
          /\ IF path = NoTool
             THEN agentCall' = [agentCall EXCEPT ![a] = [NoTurn EXCEPT !.reply = "not_found"]]
             ELSE \E args \in AlmostRight(path) :
                IF ~ValidateAgainst(path, args)
                THEN agentCall' = [agentCall EXCEPT ![a] = [NoTurn EXCEPT !.reply = "invalid"]]
                ELSE agentCall' = [agentCall EXCEPT ![a] =
                       [NoTurn EXCEPT
                          !.phase = IF Asks(path) /\ ~yes /\ ~SessionApproved(path)
                                    THEN "paused" ELSE "running",
                          !.meant = path,
                          !.tool = IF Asks(path) /\ ~yes /\ ~SessionApproved(path)
                                   THEN PauseAddress(typed, path) ELSE path,
                          !.args = args, !.agreed = yes]]
          /\ UNCHANGED <<coreConfig, storedTools, sessionYes, coreMs>>
    BY Zenon DEF ExecuteTool
  <1>0. UNCHANGED <<coreConfig, storedTools, sessionYes>> /\ sessionYes \subseteq sessionYes'
    <2>1. UNCHANGED <<coreConfig, storedTools, sessionYes, coreMs>>
      BY <1>1, Zenon
    <2> QED BY <2>1
  <1> DEFINE path == Resolved(typed)
             waits == Asks(path) /\ ~yes /\ ~SessionApproved(path)
  <1>2. path \in StaticPaths \cup Stored \cup {NoTool}
    BY ResolvedIsThere DEF CoreInv
  <1>3. ASSUME NEW turn, agentCall' = [agentCall EXCEPT ![a] = turn], DOMAIN turn = TurnFields,
               \/ turn.phase = "idle" /\ turn.reply # "missing"
               \/ /\ turn.phase \in {"paused", "running"} /\ turn.reply = "none"
                  /\ turn.tool \in StaticPaths \cup Stored /\ Enough(turn.tool, turn.args)
                  /\ turn.tool = turn.meant
                  /\ turn.phase = "running" =>
                       turn.agreed \/ SessionApproved(turn.tool) \/ ~Asks(turn.tool)
        PROVE  CoreInv' /\ ShownRuns
    <2>1. /\ DOMAIN agentCall' = Agent /\ agentCall'[a] = turn
          /\ \A b \in Agent \ {a} : agentCall'[b] = agentCall[b]
      BY <1>3 DEF CoreInv
    <2>2. TurnInv(a)'
      BY <1>0, <1>3, <2>1 DEF TurnInv, SessionApproved
    <2>3. \A b \in Agent \ {a} : TurnInv(b)'
      BY <1>0, <2>1, TurnStands DEF CoreInv
    <2>4. ShownRuns
      BY <1>1, <2>1 DEF ShownRuns
    <2> QED BY <1>0, <2>1, <2>2, <2>3, <2>4 DEF CoreInv
  <1>4. CASE path = NoTool
    <2> DEFINE turn == [NoTurn EXCEPT !.reply = "not_found"]
    <2>1. agentCall' = [agentCall EXCEPT ![a] = turn]
      BY <1>1, <1>4
    <2>2. DOMAIN turn = TurnFields /\ turn.phase = "idle" /\ turn.reply # "missing"
      BY DEF NoTurn, TurnFields
    <2> HIDE DEF turn
    <2> QED BY <1>3, <2>1, <2>2
  <1>5. CASE path # NoTool
    <2>1. PICK args \in AlmostRight(path) :
            IF ~ValidateAgainst(path, args)
            THEN agentCall' = [agentCall EXCEPT ![a] = [NoTurn EXCEPT !.reply = "invalid"]]
            ELSE agentCall' = [agentCall EXCEPT ![a] =
                   [NoTurn EXCEPT
                      !.phase = IF waits THEN "paused" ELSE "running",
                      !.meant = path,
                      !.tool = IF waits THEN PauseAddress(typed, path) ELSE path,
                      !.args = args, !.agreed = yes]]
      BY <1>1, <1>5, Zenon
    <2>2. CASE ~ValidateAgainst(path, args)
      <3> DEFINE turn == [NoTurn EXCEPT !.reply = "invalid"]
      <3>1. agentCall' = [agentCall EXCEPT ![a] = turn]
        BY <2>1, <2>2
      <3>2. DOMAIN turn = TurnFields /\ turn.phase = "idle" /\ turn.reply # "missing"
        BY DEF NoTurn, TurnFields
      <3> HIDE DEF turn
      <3> QED BY <1>3, <3>1, <3>2
    <2>3. CASE ValidateAgainst(path, args)
      <3> DEFINE turn == [NoTurn EXCEPT
                            !.phase = IF waits THEN "paused" ELSE "running",
                            !.meant = path,
                            !.tool = IF waits THEN PauseAddress(typed, path) ELSE path,
                            !.args = args, !.agreed = yes]
      <3>1. agentCall' = [agentCall EXCEPT ![a] = turn]
        BY <2>1, <2>3
      <3>2. Enough(path, args)
        BY <2>3 DEF ValidateAgainst, Enough, Strings
      <3> HIDE DEF path
      <3>3. /\ DOMAIN turn = TurnFields /\ turn.reply = "none"
            /\ turn.phase = IF waits THEN "paused" ELSE "running"
            /\ turn.tool = IF waits THEN PauseAddress(typed, path) ELSE path
            /\ turn.meant = path /\ turn.args = args
        BY DEF NoTurn, TurnFields
      <3>4. turn.agreed = yes
        BY DEF NoTurn
      <3> HIDE DEF turn
      <3>5. waits \/ turn.agreed \/ SessionApproved(path) \/ ~Asks(path)
        BY <3>4
      <3> HIDE DEF waits
      <3>6. turn.tool = path /\ turn.phase \in {"paused", "running"}
        BY <3>3 DEF PauseAddress
      <3>7. turn.phase = "running" => ~waits
        BY <3>3
      <3>8. path \in StaticPaths \cup Stored
        BY <1>2, <1>5
      <3> QED BY <1>3, <3>1, <3>2, <3>3, <3>5, <3>6, <3>7, <3>8
    <2> QED BY <2>2, <2>3
  <1> QED BY <1>4, <1>5

(* An accepted call goes on with the tool that was shown or what its path  *)
(* means now.                                                              *)
LEMMA AcceptKeeps ==
  ASSUME CoreInv, NEW a \in Agent, AcceptCall(a)
  PROVE  CoreInv' /\ ShownRuns
  <1> DEFINE call == agentCall[a]
             path == Resolved(call.tool)
  <1>0. /\ call.phase = "paused" /\ sessionYes \subseteq sessionYes'
        /\ UNCHANGED <<coreConfig, storedTools>>
    BY DEF AcceptCall
  <1>1. PICK filled :
          agentCall' = [agentCall EXCEPT ![a] =
            IF path = NoTool THEN [NoTurn EXCEPT !.reply = "not_found"]
            ELSE [call EXCEPT !.phase = "running", !.tool = path, !.agreed = TRUE,
                    !.merged = filled # {},
                    !.args = MergeResumeContent(call.args, filled)]]
    BY Zenon DEF AcceptCall
  <1>2. /\ DOMAIN call = TurnFields /\ call.tool \in StaticPaths \cup Stored
        /\ call.reply = "none" /\ call.tool = call.meant /\ Enough(call.tool, call.args)
    BY <1>0 DEF CoreInv, TurnInv
  <1>3. /\ path \in StaticPaths \cup Stored \cup {NoTool}
        /\ path \in StaticPaths => path = call.tool
        /\ path # NoTool => RunsAsShown(call.meant, path)
    BY <1>2, ResolvedIsThere, ResolvedAgain DEF CoreInv
  <1>4. /\ DOMAIN agentCall' = Agent
        /\ \A b \in Agent \ {a} : agentCall'[b] = agentCall[b]
    BY <1>1 DEF CoreInv
  <1>5. TurnInv(a)'
    <2>1. CASE path = NoTool
      <3>1. agentCall'[a] = [NoTurn EXCEPT !.reply = "not_found"]
        BY <1>1, <2>1 DEF CoreInv
      <3>2. DOMAIN agentCall'[a] = TurnFields /\ agentCall'[a].phase = "idle"
            /\ agentCall'[a].reply = "not_found"
        BY <3>1 DEF NoTurn, TurnFields
      <3> QED BY <3>2 DEF TurnInv
    <2>2. CASE path # NoTool
      <3>1. agentCall'[a] = [call EXCEPT !.phase = "running", !.tool = path, !.agreed = TRUE,
                               !.merged = filled # {},
                               !.args = MergeResumeContent(call.args, filled)]
        BY <1>1, <2>2 DEF CoreInv
      <3> HIDE DEF call
      <3>2. /\ DOMAIN agentCall'[a] = TurnFields /\ agentCall'[a].phase = "running"
            /\ agentCall'[a].tool = path
            /\ agentCall'[a].args = MergeResumeContent(call.args, filled)
            /\ agentCall'[a].reply = call.reply
        BY <1>2, <3>1 DEF TurnFields
      <3>3. agentCall'[a].agreed = TRUE /\ agentCall'[a].merged = (filled # {})
        BY <1>2, <3>1 DEF TurnFields
      <3>4. filled = {} => Enough(path, MergeResumeContent(call.args, filled))
        <4> SUFFICES ASSUME filled = {}
                     PROVE  Enough(path, MergeResumeContent(call.args, filled))
          OBVIOUS
        <4>1. /\ MergeResumeContent(call.args, filled).given = call.args.given
              /\ MergeResumeContent(call.args, filled).odd = call.args.odd
          BY DEF MergeResumeContent, Given
        <4> HIDE DEF path
        <4> QED BY <1>2, <1>3, <4>1 DEF Enough, Strings
      <3>5. agentCall'[a].merged \/ Enough(path, agentCall'[a].args)
        BY <3>2, <3>3, <3>4
      <3>6. path \in StaticPaths \cup Stored /\ agentCall'[a].agreed
        BY <1>3, <2>2, <3>3
      <3> HIDE DEF path
      <3> QED BY <1>2, <3>2, <3>5, <3>6 DEF TurnInv, Enough
    <2> QED BY <2>1, <2>2
  <1>6. \A b \in Agent \ {a} : TurnInv(b)'
    BY <1>0, <1>4, TurnStands DEF CoreInv
  <1>7. ShownRuns
    <2>1. agentCall'[a].phase = "running" => path # NoTool /\ agentCall'[a].tool = path
      <3>1. path = NoTool => agentCall'[a].phase = "idle"
        BY <1>1 DEF CoreInv, NoTurn
      <3>2. path # NoTool => agentCall'[a].tool = path
        BY <1>1, <1>2 DEF CoreInv, TurnFields
      <3> QED BY <3>1, <3>2
    <2> HIDE DEF path
    <2> QED BY <1>3, <1>4, <2>1 DEF ShownRuns
  <1> QED BY <1>0, <1>4, <1>5, <1>6, <1>7 DEF CoreInv

(* A tool that waits for a person changes what is configured as asked; one *)
(* that only answers changes nothing.                                      *)
LEMMA HandledAsAsked ==
  ASSUME CoreInv, NEW a \in Agent, NEW path, NEW needs, NEW ok, NEW next,
         Handle(a, path, needs, ok, next), needs = {} \/ Fits(path, needs),
         DOMAIN next = ConfigFields, Guarded(path) \/ next = coreConfig
  PROVE  CoreInv' /\ ShownRuns /\ (coreConfig' # coreConfig => Asked(a))
  <1>1. /\ CoreInv' /\ ShownRuns
        /\ coreConfig' # coreConfig =>
             /\ coreConfig' = next /\ agentCall[a].tool = path
             /\ agentCall[a].phase = "running" /\ agentCall'[a].phase = "idle"
    BY HandleKeeps
  <1> QED BY <1>1, GuardedIsAsked

(* The same for a tool that waits for a server.                            *)
LEMMA AwaitedAsAsked ==
  ASSUME CoreInv, NEW a \in Agent, NEW path, NEW needs, NEW ok, NEW next,
         AwaitRemote(a, path, needs, ok, next), Fits(path, needs),
         DOMAIN next = ConfigFields, Guarded(path) \/ next = coreConfig
  PROVE  CoreInv' /\ ShownRuns /\ (coreConfig' # coreConfig => Asked(a))
  <1>1. /\ CoreInv' /\ ShownRuns
        /\ coreConfig' # coreConfig =>
             /\ coreConfig' = next /\ agentCall[a].tool = path
             /\ agentCall[a].phase = "running" /\ agentCall'[a].phase # "running"
    BY AwaitKeeps
  <1> QED BY <1>1, GuardedIsAsked

(* Integrations and what the plugins add,                                  *)
LEMMA IntegrationSteps ==
  ASSUME CoreInv, NEW a \in Agent,
         StOpenapiAdd(a) \/ StGraphqlAdd(a) \/ StMcpAdd(a)
         \/ StIntegrationsRemove(a) \/ StIntegrationsDetect(a) \/ StIntegrationsList(a)
  PROVE  CoreInv' /\ ShownRuns /\ (coreConfig' # coreConfig => Asked(a))
  <1>0. DOMAIN coreConfig = ConfigFields
    BY DEF CoreInv
  <1>1. ASSUME NEW kind \in {"openapi", "graphql", "mcp"}, NEW last, NEW needs,
               RegisterKind(a, <<"executor", kind, last>>, kind, needs),
               Fits(<<"executor", kind, last>>, {"slug"} \cup needs)
        PROVE  CoreInv' /\ ShownRuns /\ (coreConfig' # coreConfig => Asked(a))
    <2> DEFINE path == <<"executor", kind, last>>
               next == [coreConfig EXCEPT !.integration = kind]
    <2>1. Handle(a, path, {"slug"} \cup needs, coreConfig.integration = "none", next)
      BY <1>1 DEF RegisterKind
    <2>2. DOMAIN next = ConfigFields
      BY <1>0
    <2>3. Guarded(path) /\ Fits(path, {"slug"} \cup needs)
      BY <1>1, PluginHandlers
    <2> HIDE DEF path, next
    <2> QED BY <2>1, <2>2, <2>3, HandledAsAsked
  <1>2. CASE StOpenapiAdd(a)
    <2>1. PICK n \in {"addSpec", "addIntegration"} :
            RegisterKind(a, <<"executor", "openapi", n>>, "openapi", {"spec"})
      BY <1>2 DEF StOpenapiAdd
    <2>2. Fits(<<"executor", "openapi", n>>, {"slug"} \cup {"spec"})
      <3>1. {"slug"} \cup {"spec"} = {"slug", "spec"}
        OBVIOUS
      <3> QED BY <3>1, PluginHandlers
    <2> QED BY <1>1, <2>1, <2>2
  <1>3. CASE StGraphqlAdd(a)
    <2>1. RegisterKind(a, <<"executor", "graphql", "addIntegration">>, "graphql", {"endpoint"})
      BY <1>3 DEF StGraphqlAdd
    <2>2. Fits(<<"executor", "graphql", "addIntegration">>, {"slug"} \cup {"endpoint"})
      <3>1. {"slug"} \cup {"endpoint"} = {"slug", "endpoint"}
        OBVIOUS
      <3> QED BY <3>1, PluginHandlers
    <2> QED BY <1>1, <2>1, <2>2
  <1>4. CASE StMcpAdd(a)
    <2>1. RegisterKind(a, <<"executor", "mcp", "addServer">>, "mcp", {})
      BY <1>4 DEF StMcpAdd
    <2>2. Fits(<<"executor", "mcp", "addServer">>, {"slug"} \cup {})
      <3>1. {"slug"} \cup {} = {"slug"}
        OBVIOUS
      <3> QED BY <3>1, PluginHandlers
    <2> QED BY <1>1, <2>1, <2>2
  <1>5. CASE StIntegrationsRemove(a)
    <2> DEFINE next == [coreConfig EXCEPT !.integration = "none", !.connections = {}]
    <2>1. Handle(a, Core(<<"integrations", "remove">>), {"slug"},
                 coreConfig.integration # "none", next)
      BY <1>5 DEF StIntegrationsRemove
    <2>2. DOMAIN next = ConfigFields
      BY <1>0
    <2> HIDE DEF next
    <2> QED BY <2>1, <2>2, IntegrationHandlers, HandledAsAsked
  <1>6. CASE StIntegrationsDetect(a)
    BY <1>0, <1>6, IntegrationHandlers, HandledAsAsked DEF StIntegrationsDetect, Reads
  <1>7. CASE StIntegrationsList(a)
    BY <1>0, <1>7, HandledAsAsked DEF StIntegrationsList, Reads
  <1> QED BY <1>2, <1>3, <1>4, <1>5, <1>6, <1>7

(* connections,                                                            *)
LEMMA ConnectionSteps ==
  ASSUME CoreInv, NEW a \in Agent,
         StConnectionsCreate(a) \/ StConnectionsRemove(a) \/ StConnectionsRefresh(a)
         \/ StConnectionsList(a) \/ StConnectionsCreateHandoff(a)
  PROVE  CoreInv' /\ ShownRuns /\ (coreConfig' # coreConfig => Asked(a))
  <1>0. DOMAIN coreConfig = ConfigFields
    BY DEF CoreInv
  <1>1. CASE StConnectionsCreate(a)
    <2> DEFINE next == [coreConfig EXCEPT !.connections = @ \cup {OwnerHere(a)}]
               ok == coreConfig.integration # "none" /\ OwnerHere(a) \notin coreConfig.connections
    <2>1. AwaitRemote(a, Core(<<"connections", "create">>), {"name", "integration"}, ok, next)
      BY <1>1 DEF StConnectionsCreate
    <2>2. DOMAIN next = ConfigFields
      BY <1>0
    <2> HIDE DEF next, ok
    <2> QED BY <2>1, <2>2, ConnectionHandlers, AwaitedAsAsked
  <1>2. CASE StConnectionsRemove(a)
    <2> DEFINE next == [coreConfig EXCEPT !.connections = @ \ {OwnerHere(a)}]
    <2>1. Handle(a, Core(<<"connections", "remove">>), {"name", "integration"}, TRUE, next)
      BY <1>2 DEF StConnectionsRemove
    <2>2. DOMAIN next = ConfigFields
      BY <1>0
    <2> HIDE DEF next
    <2> QED BY <2>1, <2>2, ConnectionHandlers, HandledAsAsked
  <1>3. CASE StConnectionsRefresh(a)
    BY <1>0, <1>3, ConnectionHandlers, AwaitedAsAsked DEF StConnectionsRefresh
  <1>4. CASE StConnectionsList(a)
    BY <1>0, <1>4, HandledAsAsked DEF StConnectionsList, Reads
  <1>5. CASE StConnectionsCreateHandoff(a)
    BY <1>0, <1>5, ConnectionHandlers, HandledAsAsked DEF StConnectionsCreateHandoff, Reads
  <1> QED BY <1>1, <1>2, <1>3, <1>4, <1>5

(* policies and providers,                                                 *)
LEMMA PolicySteps ==
  ASSUME CoreInv, NEW a \in Agent,
         StPoliciesCreate(a) \/ StPoliciesUpdate(a) \/ StPoliciesRemove(a) \/ StPoliciesList(a)
         \/ StProvidersList(a) \/ StProvidersItems(a)
  PROVE  CoreInv' /\ ShownRuns /\ (coreConfig' # coreConfig => Asked(a))
  <1>0. DOMAIN coreConfig = ConfigFields
    BY DEF CoreInv
  <1>1. CASE StPoliciesCreate(a)
    <2> DEFINE next == [coreConfig EXCEPT !.rules = {r \in @ : r.id # coreMs}
                                                    \cup {[id |-> coreMs, edited |-> FALSE]}]
    <2>1. Handle(a, Core(<<"policies", "create">>), {"pattern", "action"}, TRUE, next)
      BY <1>1 DEF StPoliciesCreate
    <2>2. DOMAIN next = ConfigFields
      BY <1>0
    <2> HIDE DEF next
    <2> QED BY <2>1, <2>2, PolicyHandlers, HandledAsAsked
  <1>2. CASE StPoliciesUpdate(a)
    <2> DEFINE rows(id) == {r \in coreConfig.rules : r.id = id}
               next(id) == [coreConfig EXCEPT !.rules = (@ \ rows(id))
                                                \cup {[id |-> id, edited |-> TRUE]}]
    <2>1. PICK id \in 0..MaxCoreMs :
            Handle(a, Core(<<"policies", "update">>), {"id"}, rows(id) # {}, next(id))
      BY <1>2 DEF StPoliciesUpdate
    <2>2. DOMAIN next(id) = ConfigFields
      BY <1>0
    <2> HIDE DEF next, rows
    <2> QED BY <2>1, <2>2, PolicyHandlers, HandledAsAsked
  <1>3. CASE StPoliciesRemove(a)
    <2> DEFINE next(id) == [coreConfig EXCEPT !.rules = {r \in @ : r.id # id}]
    <2>1. PICK id \in 0..MaxCoreMs :
            Handle(a, Core(<<"policies", "remove">>), {"id"}, TRUE, next(id))
      BY <1>3 DEF StPoliciesRemove
    <2>2. DOMAIN next(id) = ConfigFields
      BY <1>0
    <2> HIDE DEF next
    <2> QED BY <2>1, <2>2, PolicyHandlers, HandledAsAsked
  <1>4. CASE StPoliciesList(a)
    BY <1>0, <1>4, HandledAsAsked DEF StPoliciesList, Reads
  <1>5. CASE StProvidersList(a)
    BY <1>0, <1>5, HandledAsAsked DEF StProvidersList, Reads
  <1>6. CASE StProvidersItems(a)
    <2>1. PICK known \in BOOLEAN :
            Handle(a, Core(<<"providers", "items">>), {"provider"}, known, coreConfig)
      BY <1>6 DEF StProvidersItems
    <2> QED BY <1>0, <2>1, PolicyHandlers, HandledAsAsked
  <1> QED BY <1>1, <1>2, <1>3, <1>4, <1>5, <1>6

(* OAuth clients,                                                          *)
LEMMA ClientSteps ==
  ASSUME CoreInv, NEW a \in Agent,
         StOauthClientsCreate(a) \/ StOauthClientsRemove(a) \/ StOauthRegisterDynamic(a)
         \/ DynamicRegistered(a) \/ StOauthClientsList(a) \/ StOauthClientsCreateHandoff(a)
  PROVE  CoreInv' /\ ShownRuns /\ (coreConfig' # coreConfig => Asked(a))
  <1>0. DOMAIN coreConfig = ConfigFields
    BY DEF CoreInv
  <1>1. \A owner, origin : DOMAIN PutClient(owner, origin) = ConfigFields
    BY <1>0 DEF PutClient
  <1>2. CASE StOauthClientsCreate(a)
    <2> DEFINE put == PutClient(OwnerHere(a), "manual")
               secret == "clientSecret" \in agentCall[a].args.given
               needs == IF secret THEN {} ELSE {"slug", "authorizationUrl", "tokenUrl", "clientId"}
    <2>1. Handle(a, Core(<<"oauth", "clients", "create">>), needs, ~secret, put)
      BY <1>2 DEF StOauthClientsCreate
    <2>2. DOMAIN put = ConfigFields
      BY <1>1
    <2>3. needs = {} \/ Fits(Core(<<"oauth", "clients", "create">>), needs)
      BY ClientHandlers
    <2>4. Guarded(Core(<<"oauth", "clients", "create">>))
      BY ClientHandlers
    <2> HIDE DEF put, secret, needs
    <2> QED BY <2>1, <2>2, <2>3, <2>4, HandledAsAsked
  <1>3. CASE StOauthClientsRemove(a)
    <2> DEFINE next == [coreConfig EXCEPT !.clients = {c \in @ : c.owner # OwnerHere(a)}]
    <2>1. Handle(a, Core(<<"oauth", "clients", "remove">>), {"slug"}, TRUE, next)
      BY <1>3 DEF StOauthClientsRemove
    <2>2. DOMAIN next = ConfigFields
      BY <1>0
    <2> HIDE DEF next
    <2> QED BY <2>1, <2>2, ClientHandlers, HandledAsAsked
  <1>4. Fits(Core(<<"oauth", "clients", "registerDynamic">>), {"registrationEndpoint"})
        /\ Fits(Core(<<"oauth", "clients", "registerDynamic">>),
                {"slug", "authorizationUrl", "tokenUrl"})
    BY ClientHandlers DEF Fits
  <1>5. CASE StOauthRegisterDynamic(a)
    BY <1>0, <1>4, <1>5, AwaitedAsAsked DEF StOauthRegisterDynamic
  <1>6. CASE DynamicRegistered(a)
    <2> DEFINE path == Core(<<"oauth", "clients", "registerDynamic">>)
               needs == {"slug", "authorizationUrl", "tokenUrl"}
    <2>1. /\ agentCall[a].phase = "remote" /\ agentCall[a].tool = path
          /\ UNCHANGED <<storedTools, sessionYes>> /\ storedTools \subseteq Stored
      BY <1>6 DEF DynamicRegistered, Waiting, CoreInv
    <2>2. Guarded(path) /\ Fits(path, needs)
      BY <1>4, ClientHandlers
    <2>3. CASE ~(needs \subseteq Strings(agentCall[a].args))
      <3>1. Answered(a, "missing") /\ UNCHANGED coreConfig
        BY <1>6, <2>3 DEF DynamicRegistered
      <3> HIDE DEF path, needs
      <3>2. agentCall[a].merged
        BY <2>1, <2>2, <2>3, MissingIsMerged
      <3> QED BY <1>0, <2>1, <3>1, <3>2, AnsweredKeeps
    <2>4. CASE needs \subseteq Strings(agentCall[a].args)
      <3>1. Answered(a, "ok") /\ coreConfig' = PutClient(OwnerHere(a), "dynamic")
        BY <1>6, <2>4 DEF DynamicRegistered
      <3>2. DOMAIN coreConfig' = ConfigFields
        BY <1>1, <3>1
      <3> HIDE DEF path, needs
      <3>3. CoreInv' /\ ShownRuns /\ agentCall'[a].phase = "idle"
        BY <2>1, <3>1, <3>2, AnsweredKeeps
      <3> QED BY <2>1, <2>2, <3>3, GuardedIsAsked
    <2> QED BY <2>3, <2>4
  <1>7. CASE StOauthClientsList(a)
    BY <1>0, <1>7, HandledAsAsked DEF StOauthClientsList, Reads
  <1>8. CASE StOauthClientsCreateHandoff(a)
    BY <1>0, <1>8, ClientHandlers, HandledAsAsked DEF StOauthClientsCreateHandoff, Reads
  <1> QED BY <1>2, <1>3, <1>5, <1>6, <1>7, <1>8

(* OAuth logins and toolkits,                                              *)
LEMMA FlowSteps ==
  ASSUME CoreInv, NEW a \in Agent,
         StOauthProbe(a) \/ StOauthStart(a) \/ StOauthCancel(a)
         \/ StToolkitsCreate(a) \/ StToolkitsRemove(a) \/ StToolkitsList(a)
  PROVE  CoreInv' /\ ShownRuns /\ (coreConfig' # coreConfig => Asked(a))
  <1>0. DOMAIN coreConfig = ConfigFields
    BY DEF CoreInv
  <1>1. CASE StOauthProbe(a)
    BY <1>0, <1>1, FlowHandlers, AwaitedAsAsked DEF StOauthProbe
  <1>2. CASE StOauthStart(a)
    <2> DEFINE owner == IF "clientOwner" \in Strings(agentCall[a].args) THEN "user" ELSE "org"
               ok == \E c \in coreConfig.clients : c.owner = owner
               next == [coreConfig EXCEPT !.sessions = @ \cup {coreMs}]
    <2>1. Handle(a, Core(<<"oauth", "start">>), {"client"}, ok, next)
      BY <1>2, Zenon DEF StOauthStart
    <2>2. DOMAIN next = ConfigFields
      BY <1>0
    <2> HIDE DEF next, ok
    <2> QED BY <2>1, <2>2, FlowHandlers, HandledAsAsked
  <1>3. CASE StOauthCancel(a)
    <2> DEFINE next(ms) == [coreConfig EXCEPT !.sessions = @ \ {ms}]
    <2>1. PICK ms \in 0..MaxCoreMs :
            Handle(a, Core(<<"oauth", "cancel">>), {"state"}, TRUE, next(ms))
      BY <1>3 DEF StOauthCancel
    <2>2. DOMAIN next(ms) = ConfigFields
      BY <1>0
    <2>3. next(ms) = [coreConfig EXCEPT !.sessions = next(ms).sessions]
      BY <1>0 DEF ConfigFields
    <2> HIDE DEF next
    <2>4. /\ CoreInv' /\ ShownRuns
          /\ coreConfig' # coreConfig =>
               /\ coreConfig' = next(ms) /\ agentCall[a].tool = Core(<<"oauth", "cancel">>)
               /\ agentCall[a].phase = "running" /\ agentCall'[a].phase = "idle"
      BY <2>1, <2>2, FlowHandlers, HandleKeeps
    <2> QED BY <2>3, <2>4 DEF Asked
  <1>4. CASE StToolkitsCreate(a)
    <2> DEFINE next == [coreConfig EXCEPT !.toolkit = TRUE]
    <2>1. Handle(a, Core(<<"toolkits", "create">>), {"slug"}, TRUE, next)
      BY <1>4 DEF StToolkitsCreate
    <2>2. DOMAIN next = ConfigFields
      BY <1>0
    <2> HIDE DEF next
    <2> QED BY <2>1, <2>2, FlowHandlers, HandledAsAsked
  <1>5. CASE StToolkitsRemove(a)
    <2> DEFINE next == [coreConfig EXCEPT !.toolkit = FALSE]
    <2>1. Handle(a, Core(<<"toolkits", "remove">>), {"slug"}, TRUE, next)
      BY <1>5 DEF StToolkitsRemove
    <2>2. DOMAIN next = ConfigFields
      BY <1>0
    <2> HIDE DEF next
    <2> QED BY <2>1, <2>2, FlowHandlers, HandledAsAsked
  <1>6. CASE StToolkitsList(a)
    BY <1>0, <1>6, HandledAsAsked DEF StToolkitsList, Reads
  <1> QED BY <1>1, <1>2, <1>3, <1>4, <1>5, <1>6

(* and the steps of a call that change nothing configured.                 *)
LEMMA CallSteps ==
  ASSUME CoreInv, NEW a \in Agent,
         ExecuteTool(a) \/ AcceptCall(a) \/ DeclineCall(a) \/ InvokeStored(a)
         \/ ConnectionListed(a) \/ FetchAsMetadata(a) \/ RemoteFails(a)
  PROVE  CoreInv' /\ ShownRuns /\ UNCHANGED coreConfig
  <1>0. DOMAIN coreConfig = ConfigFields /\ storedTools \subseteq Stored
    BY DEF CoreInv
  <1>1. CASE ExecuteTool(a)
    <2>1. UNCHANGED coreConfig
      BY <1>1, Zenon DEF ExecuteTool
    <2> QED BY <1>1, <2>1, ExecuteKeeps
  <1>2. CASE AcceptCall(a)
    <2>1. UNCHANGED coreConfig
      BY <1>2, Zenon DEF AcceptCall
    <2> QED BY <1>2, <2>1, AcceptKeeps
  <1>3. CASE DeclineCall(a)
    BY <1>0, <1>3, AnsweredKeeps DEF DeclineCall
  <1>4. CASE InvokeStored(a)
    <2>1. PICK ok \in BOOLEAN : Handle(a, agentCall[a].tool, {}, ok, coreConfig)
      BY <1>4 DEF InvokeStored
    <2> QED BY <1>0, <2>1, HandleKeeps
  <1>5. CASE ConnectionListed(a)
    <2>1. Answered(a, "ok") /\ storedTools' \subseteq Stored /\ UNCHANGED <<coreConfig, sessionYes>>
      BY <1>5 DEF ConnectionListed
    <2> QED BY <1>0, <2>1, AnsweredKeeps
  <1>6. CASE FetchAsMetadata(a)
    BY <1>0, <1>6, AnsweredKeeps DEF FetchAsMetadata
  <1>7. CASE RemoteFails(a)
    BY <1>0, <1>7, AnsweredKeeps DEF RemoteFails
  <1> QED BY <1>1, <1>2, <1>3, <1>4, <1>5, <1>6, <1>7

(* Every step keeps the invariant, resumes what was shown and changes      *)
(* nothing unasked.                                                        *)
LEMMA CoreStep ==
  ASSUME CoreInv, [CoreNext]_coreVars
  PROVE  CoreInv' /\ ShownRuns /\ (coreConfig' # coreConfig => \E a \in Agent : Asked(a))
  <1>1. CASE CoreTick \/ UNCHANGED coreVars
    <2>1. UNCHANGED <<agentCall, coreConfig, storedTools, sessionYes>>
      BY <1>1 DEF CoreTick, coreVars
    <2>2. \A a \in Agent : TurnInv(a)'
      BY <2>1, TurnStands DEF CoreInv
    <2> QED BY <2>1, <2>2 DEF CoreInv, ShownRuns
  <1>2. ASSUME NEW a \in Agent,
               StOpenapiAdd(a) \/ StGraphqlAdd(a) \/ StMcpAdd(a)
               \/ StIntegrationsRemove(a) \/ StIntegrationsDetect(a) \/ StIntegrationsList(a)
        PROVE  CoreInv' /\ ShownRuns /\ (coreConfig' # coreConfig => \E b \in Agent : Asked(b))
    BY <1>2, IntegrationSteps
  <1>3. ASSUME NEW a \in Agent,
               StConnectionsCreate(a) \/ StConnectionsRemove(a) \/ StConnectionsRefresh(a)
               \/ StConnectionsList(a) \/ StConnectionsCreateHandoff(a)
        PROVE  CoreInv' /\ ShownRuns /\ (coreConfig' # coreConfig => \E b \in Agent : Asked(b))
    BY <1>3, ConnectionSteps
  <1>4. ASSUME NEW a \in Agent,
               StPoliciesCreate(a) \/ StPoliciesUpdate(a) \/ StPoliciesRemove(a)
               \/ StPoliciesList(a) \/ StProvidersList(a) \/ StProvidersItems(a)
        PROVE  CoreInv' /\ ShownRuns /\ (coreConfig' # coreConfig => \E b \in Agent : Asked(b))
    BY <1>4, PolicySteps
  <1>5. ASSUME NEW a \in Agent,
               StOauthClientsCreate(a) \/ StOauthClientsRemove(a) \/ StOauthRegisterDynamic(a)
               \/ DynamicRegistered(a) \/ StOauthClientsList(a) \/ StOauthClientsCreateHandoff(a)
        PROVE  CoreInv' /\ ShownRuns /\ (coreConfig' # coreConfig => \E b \in Agent : Asked(b))
    BY <1>5, ClientSteps
  <1>6. ASSUME NEW a \in Agent,
               StOauthProbe(a) \/ StOauthStart(a) \/ StOauthCancel(a)
               \/ StToolkitsCreate(a) \/ StToolkitsRemove(a) \/ StToolkitsList(a)
        PROVE  CoreInv' /\ ShownRuns /\ (coreConfig' # coreConfig => \E b \in Agent : Asked(b))
    BY <1>6, FlowSteps
  <1>7. ASSUME NEW a \in Agent,
               ExecuteTool(a) \/ AcceptCall(a) \/ DeclineCall(a) \/ InvokeStored(a)
               \/ ConnectionListed(a) \/ FetchAsMetadata(a) \/ RemoteFails(a)
        PROVE  CoreInv' /\ ShownRuns /\ (coreConfig' # coreConfig => \E b \in Agent : Asked(b))
    BY <1>7, CallSteps
  <1> QED BY <1>1, <1>2, <1>3, <1>4, <1>5, <1>6, <1>7, Zenon DEF CoreNext

(* No call is under way at the start.                                      *)
LEMMA CoreStarts ==
  ASSUME CoreInit
  PROVE  CoreInv
  <1>1. DOMAIN agentCall = Agent /\ DOMAIN coreConfig = ConfigFields /\ storedTools \subseteq Stored
    BY DEF CoreInit, ConfigFields
  <1>2. ASSUME NEW a \in Agent
        PROVE  TurnInv(a)
    <2>1. agentCall[a] = NoTurn
      BY DEF CoreInit
    <2>2. DOMAIN agentCall[a] = TurnFields /\ agentCall[a].phase = "idle"
          /\ agentCall[a].reply = "none"
      BY <2>1 DEF NoTurn, TurnFields
    <2> QED BY <2>2 DEF TurnInv
  <1> QED BY <1>1, <1>2 DEF CoreInv

(* The invariant of the built-in tools.                                    *)
LEMMA CoreHolds == CoreSpec => []CoreInv
  <1> QED BY CoreStarts, CoreStep, PTL DEF CoreSpec

(* What was let through, by the schema and by the person who was asked, is *)
(* what runs: an accepted call runs the tool that was shown or, once it is *)
(* gone, what its path means alone, whatever tools of connections came and *)
(* went while it waited; and the arguments a schema accepts are enough for *)
(* its handler (execute_gated, persist_outcome, resume_gated, resolve_path *)
(* and invoke_static).                                                     *)
THEOREM AcceptedCallsRunTheirTool == CoreSpec => AcceptedCallsRunAsShown
  <1>1. ASSUME CoreInv, [CoreNext]_coreVars
        PROVE  [/\ AcceptedArgumentsSuffice'
                /\ \A a \in Agent :
                     agentCall[a].phase = "paused" /\ agentCall'[a].phase = "running" =>
                         RunsAsShown(agentCall[a].meant, agentCall'[a].tool)]_coreVars
    <2>1. CoreInv' /\ ShownRuns
      BY <1>1, CoreStep
    <2> QED BY <2>1 DEF CoreInv, TurnInv, AcceptedArgumentsSuffice, ShownRuns
  <1> QED BY <1>1, CoreHolds, PTL DEF CoreSpec, AcceptedCallsRunAsShown

(* No agent changes what is configured by itself: whichever built-in tool  *)
(* makes a change, its call was agreed to or its tool approved for the     *)
(* session; ending an OAuth login is the exception (requires_approval of   *)
(* the tools in static_tools.rs and the gate of execute_gated).            *)
THEOREM ChangesAreAsked == CoreSpec => UnaskedCallsChangeNothing
  <1>1. ASSUME CoreInv, [CoreNext]_coreVars
        PROVE  [coreConfig' # coreConfig =>
                  \E a \in Agent :
                     /\ agentCall'[a] # agentCall[a]
                     /\ \/ agentCall[a].agreed
                        \/ SessionApproved(agentCall[a].tool)
                        \/ /\ agentCall[a].tool = Core(<<"oauth", "cancel">>)
                           /\ coreConfig' = [coreConfig EXCEPT !.sessions = coreConfig'.sessions]
               ]_coreVars
    BY <1>1, CoreStep DEF Asked
  <1> QED BY <1>1, CoreHolds, PTL DEF CoreSpec, UnaskedCallsChangeNothing

-----------------------------------------------------------------------------
(* Challenges *)

(* The challenges read are the schemes of the header in their order, each  *)
(* with what its own parameters name.                                      *)
Read(h, i) == [name |-> h[i].text, value |-> h[i].value]

Listed(h, cs, at) ==
    /\ \A j, k \in 1..Len(cs) : j < k => at[j] < at[k]
    /\ \A i \in DOMAIN h : IsScheme(h, i) <=> \E k \in 1..Len(cs) : at[k] = i
    /\ \A k \in 1..Len(cs) :
         /\ cs[k].scheme = h[at[k]].text
         /\ \A name : name \in Names(cs[k].params)
                        <=> \E i \in OwnParams(h, at[k]) : h[i].text = name
         /\ \A q \in cs[k].params : \E i \in OwnParams(h, at[k]) : q = Read(h, i)
         /\ \A i \in OwnParams(h, at[k]) :
              h[i].text \in Signals => Read(h, i) \in cs[k].params

(* What the parser knows of what it has read.                              *)
AfterComma(h) == h = <<>> \/ h[Len(h)].kind = "comma"

LastRead(h, l, state) ==
    /\ l \in Content(h) /\ \A i \in Content(h) : i <= l
    /\ \/ state = "scheme" /\ IsScheme(h, l)
       \/ state = "params" /\ h[l].kind = "param"
       \/ state = "token68" /\ ~IsScheme(h, l) /\ h[l].kind # "param"

Param == [name : {x.text : x \in Lexeme}, value : {x.value : x \in Lexeme}]
Challenge == [scheme : {x.text : x \in Lexeme}, params : SUBSET Param]
Parser == [ok : BOOLEAN, challenges : Seq(Challenge),
           state : {"boundary", "scheme", "params", "token68"}, sawComma : BOOLEAN]

Knows(h, p) ==
    /\ p.sawComma <=> AfterComma(h)
    /\ \/ p.state = "boundary" /\ Content(h) = {}
       \/ p.challenges # <<>> /\ \E l \in DOMAIN h : LastRead(h, l, p.state)
    /\ \E at \in [1..Len(p.challenges) -> DOMAIN h] : Listed(h, p.challenges, at)
    /\ \A i \in DOMAIN h : h[i].kind = "param" => \E s \in 1..i : IsScheme(h, s)

ParserInv(h, p) ==
    /\ h \in Seq(Lexeme) /\ p \in Parser
    /\ p.ok <=> WellFormed(h)
    /\ p.ok => Knows(h, p)

HeaderInv == ParserInv(header, parsed)

(* Numbers have a least among them, and those up to a bound a greatest.    *)
LEMMA LeastOf ==
  ASSUME NEW S \in SUBSET Nat, S # {}
  PROVE  \E n \in S : \A m \in S : n <= m
  <1>1. \E n \in S : \A m \in S : ~(<<m, n>> \in OpToRel(<, Nat))
    BY NatLessThanWellFounded, WFMin
  <1>2. PICK n \in S : \A m \in S : ~(<<m, n>> \in OpToRel(<, Nat))
    BY <1>1
  <1>3. ASSUME NEW m \in S, m < n PROVE FALSE
    <2>1. <<m, n>> \in Nat \X Nat /\ <<m, n>>[1] < <<m, n>>[2]
      BY <1>3
    <2>2. <<m, n>> \in OpToRel(<, Nat)
      BY <2>1 DEF OpToRel
    <2> QED BY <1>2, <2>2
  <1> QED BY <1>3

LEMMA GreatestOf ==
  ASSUME NEW b \in Nat, NEW S \in SUBSET (1..b), S # {}
  PROVE  \E n \in S : \A m \in S : m <= n
  <1> DEFINE D == {k \in Nat : b - k \in S}
  <1>1. D # {}
    <2>1. PICK n : n \in S
      OBVIOUS
    <2>2. b - n \in Nat /\ b - (b - n) = n
      BY <2>1
    <2> QED BY <2>1, <2>2
  <1>2. PICK k \in D : \A m \in D : k <= m
    <2> HIDE DEF D
    <2>1. D \in SUBSET Nat
      BY DEF D
    <2> QED BY <1>1, <2>1, LeastOf
  <1>3. ASSUME NEW m \in S PROVE m <= b - k
    <2>1. b - m \in Nat /\ b - (b - m) = m
      OBVIOUS
    <2>2. k <= b - m
      BY <1>2, <2>1
    <2> QED BY <2>1, <2>2
  <1> QED BY <1>2, <1>3

(* One lexeme more at the end of a header.                                 *)
Grown(h, x, g) ==
    /\ h \in Seq(Lexeme) /\ g \in Seq(Lexeme) /\ x \in Lexeme
    /\ Len(g) = Len(h) + 1 /\ g[Len(h) + 1] = x
    /\ \A i \in 1..Len(h) : g[i] = h[i]

LEMMA AppendGrows ==
  ASSUME NEW h \in Seq(Lexeme), NEW x \in Lexeme
  PROVE  Grown(h, x, Append(h, x))
  BY DEF Grown

LEMMA Lengths ==
  ASSUME NEW h, NEW x, NEW g, Grown(h, x, g)
  PROVE  /\ Len(h) \in Nat /\ DOMAIN h = 1..Len(h) /\ DOMAIN g = 1..(Len(h) + 1)
         /\ Content(h) \subseteq 1..Len(h)
         /\ \A i : i \in Content(g) <=> i \in Content(h) \/ (i = Len(h) + 1 /\ x.kind # "comma")
  <1>1. Len(h) \in Nat /\ DOMAIN h = 1..Len(h) /\ DOMAIN g = 1..(Len(h) + 1)
    BY DEF Grown
  <1>2. \A i : i \in 1..(Len(h) + 1) <=> i \in 1..Len(h) \/ i = Len(h) + 1
    BY <1>1
  <1>3. ~(Len(h) + 1 \in 1..Len(h))
    BY <1>1
  <1>4. \A i \in 1..Len(h) : g[i].kind = h[i].kind
    BY DEF Grown
  <1>5. g[Len(h) + 1].kind = x.kind
    BY DEF Grown
  <1> QED BY <1>1, <1>2, <1>3, <1>4, <1>5 DEF Content

LEMMA SchemesStay ==
  ASSUME NEW h, NEW x, NEW g, Grown(h, x, g)
  PROVE  /\ \A i \in 1..Len(h) : IsScheme(g, i) <=> IsScheme(h, i)
         /\ IsScheme(g, Len(h) + 1)
              <=> x.kind \in {"word", "slashed", "odd"} /\ AfterComma(h)
  <1>1. Len(h) \in Nat
    BY Lengths
  <1>2. ASSUME NEW i \in 1..Len(h) PROVE IsScheme(g, i) <=> IsScheme(h, i)
    <2>1. g[i] = h[i] /\ (i # 1 => g[i - 1] = h[i - 1])
      <3>1. i # 1 => i - 1 \in 1..Len(h)
        BY <1>1
      <3> QED BY <3>1 DEF Grown
    <2> QED BY <2>1 DEF IsScheme
  <1>3. g[Len(h) + 1] = x
    BY DEF Grown
  <1> DEFINE Goal == IsScheme(g, Len(h) + 1)
                       <=> x.kind \in {"word", "slashed", "odd"} /\ AfterComma(h)
  <1>4. ASSUME Len(h) = 0 PROVE Goal
    <2>1. h = <<>>
      BY <1>4, EmptySeq DEF Grown
    <2> QED BY <1>3, <1>4, <2>1 DEF IsScheme, AfterComma
  <1>5. ASSUME Len(h) # 0 PROVE Goal
    <2>1. h # <<>>
      BY <1>5
    <2>2. Len(h) + 1 # 1 /\ (Len(h) + 1) - 1 = Len(h) /\ Len(h) \in 1..Len(h)
      BY <1>1, <1>5
    <2>3. g[(Len(h) + 1) - 1] = h[Len(h)]
      BY <2>2 DEF Grown
    <2> QED BY <1>3, <2>1, <2>2, <2>3 DEF IsScheme, AfterComma
  <1>6. Goal
    BY <1>4, <1>5
  <1> QED BY <1>2, <1>6, Zenon

(* What stands before a lexeme.                                            *)
LEMMA PreviousIs ==
  ASSUME NEW h \in Seq(Lexeme), NEW i \in 1..(Len(h) + 1)
  PROVE  \/ Previous(h, i) = 0 /\ \A j \in Content(h) : ~(j < i)
         \/ /\ Previous(h, i) \in Content(h) /\ Previous(h, i) < i
            /\ \A j \in Content(h) : j < i => j <= Previous(h, i)
  <1> DEFINE before == {j \in Content(h) : j < i}
  <1>1. CASE before = {}
    BY <1>1 DEF Previous
  <1>2. CASE before # {}
    <2>1. before \in SUBSET (1..Len(h)) /\ Len(h) \in Nat
      BY DEF Content
    <2>2. Previous(h, i) = CHOOSE j \in before : \A k \in before : k <= j
      BY <1>2 DEF Previous
    <2> HIDE DEF before
    <2>3. \E j \in before : \A k \in before : k <= j
      BY <1>2, <2>1, GreatestOf
    <2>4. Previous(h, i) \in before /\ \A k \in before : k <= Previous(h, i)
      BY <2>2, <2>3
    <2> QED BY <2>4 DEF before
  <1> QED BY <1>1, <1>2

LEMMA OwnSchemeIs ==
  ASSUME NEW h \in Seq(Lexeme), NEW i \in Nat, NEW s \in 1..i, IsScheme(h, s)
  PROVE  /\ OwnScheme(h, i) \in 1..i /\ IsScheme(h, OwnScheme(h, i))
         /\ \A k \in 1..i : IsScheme(h, k) => k <= OwnScheme(h, i)
  <1> DEFINE schemes == {j \in 1..i : IsScheme(h, j)}
  <1>1. schemes \in SUBSET (1..i) /\ schemes # {}
    OBVIOUS
  <1>2. OwnScheme(h, i) = CHOOSE j \in schemes : \A k \in schemes : k <= j
    BY DEF OwnScheme
  <1> HIDE DEF schemes
  <1>3. \E j \in schemes : \A k \in schemes : k <= j
    BY <1>1, GreatestOf
  <1>4. OwnScheme(h, i) \in schemes /\ \A k \in schemes : k <= OwnScheme(h, i)
    BY <1>2, <1>3
  <1> QED BY <1>4 DEF schemes

(* What stands in a header says the same of it in a longer one.            *)
LEMMA GrownSame ==
  ASSUME NEW h, NEW x, NEW g, Grown(h, x, g), NEW i \in 1..Len(h)
  PROVE  /\ OwnScheme(g, i) = OwnScheme(h, i)
         /\ Allowed(g, i) <=> Allowed(h, i)
  <1>1. Len(h) \in Nat /\ h \in Seq(Lexeme) /\ g[i] = h[i]
    BY Lengths DEF Grown
  <1>2. OwnScheme(g, i) = OwnScheme(h, i)
    <2>1. \A j \in 1..i : IsScheme(g, j) <=> IsScheme(h, j)
      BY <1>1, SchemesStay
    <2>2. {j \in 1..i : IsScheme(g, j)} = {j \in 1..i : IsScheme(h, j)}
      BY <2>1, Zenon
    <2> QED BY <2>2, Zenon DEF OwnScheme
  <1>3. Previous(g, i) = Previous(h, i)
    <2>1. \A j : j \in Content(g) /\ j < i <=> j \in Content(h) /\ j < i
      <3>1. \A j : j = Len(h) + 1 => ~(j < i)
        BY <1>1
      <3> QED BY <3>1, Lengths, Zenon
    <2>2. i \in 1..(Len(h) + 1) /\ i \in 1..(Len(g) + 1) /\ g \in Seq(Lexeme)
      BY <1>1 DEF Grown
    <2>3. \/ Previous(h, i) = 0 /\ \A j \in Content(h) : ~(j < i)
          \/ /\ Previous(h, i) \in Content(h) /\ Previous(h, i) < i
             /\ \A j \in Content(h) : j < i => j <= Previous(h, i)
      BY <1>1, <2>2, PreviousIs
    <2>4. \/ Previous(g, i) = 0 /\ \A j \in Content(g) : ~(j < i)
          \/ /\ Previous(g, i) \in Content(g) /\ Previous(g, i) < i
             /\ \A j \in Content(g) : j < i => j <= Previous(g, i)
      BY <1>1, <2>2, PreviousIs
    <2>5. CASE \E j \in Content(h) : j < i
      <3>1. /\ Previous(h, i) \in Content(h) /\ Previous(g, i) \in Content(h)
            /\ Previous(h, i) <= Previous(g, i) /\ Previous(g, i) <= Previous(h, i)
        BY <2>1, <2>3, <2>4, <2>5, Zenon
      <3>2. Previous(h, i) \in Int /\ Previous(g, i) \in Int
        BY <3>1, Lengths
      <3> QED BY <3>1, <3>2
    <2>6. CASE ~ \E j \in Content(h) : j < i
      BY <2>1, <2>3, <2>4, <2>6, Zenon
    <2> QED BY <2>5, <2>6
  <1>4. FollowsScheme(g, i) <=> FollowsScheme(h, i)
    <2>1. i > 1 => i - 1 \in 1..Len(h)
      BY <1>1
    <2>2. i > 1 => (i - 1 \in Content(g) <=> i - 1 \in Content(h))
      <3>1. i - 1 # Len(h) + 1
        BY <1>1
      <3>2. \A j : j \in Content(g) <=> j \in Content(h) \/ (j = Len(h) + 1 /\ x.kind # "comma")
        BY Lengths
      <3>3. i - 1 \in Content(g) <=> i - 1 \in Content(h)
        BY <3>1, <3>2
      <3> QED BY <3>3
    <2> QED BY <2>1, <2>2, SchemesStay, Zenon DEF FollowsScheme
  <1>5. IsScheme(g, i) <=> IsScheme(h, i)
    BY SchemesStay
  <1>6. Previous(h, i) # 0 => g[Previous(h, i)] = h[Previous(h, i)] /\ g[i - 1] = h[i - 1]
    <2> SUFFICES ASSUME Previous(h, i) # 0
                 PROVE  g[Previous(h, i)] = h[Previous(h, i)] /\ g[i - 1] = h[i - 1]
      OBVIOUS
    <2>1. i \in 1..(Len(h) + 1)
      BY <1>1
    <2>2. Previous(h, i) \in Content(h) /\ Previous(h, i) < i
      BY <1>1, <2>1, PreviousIs
    <2>3. Previous(h, i) \in 1..Len(h)
      BY <2>2, Lengths
    <2>4. i - 1 \in 1..Len(h)
      BY <1>1, <2>2, <2>3
    <2> QED BY <2>3, <2>4 DEF Grown
  <1>7. Allowed(g, i) <=> Allowed(h, i)
    BY <1>1, <1>3, <1>4, <1>5, <1>6 DEF Allowed
  <1> QED BY <1>2, <1>7

(* A longer header is well-formed when the shorter is, its last lexeme is  *)
(* allowed, and a signal is new to its scheme.                             *)
NewSignal(h, x, g) ==
    x.kind = "param" /\ x.text \in Signals =>
        \A i \in 1..Len(h) : h[i].kind = "param" /\ h[i].text = x.text
            => OwnScheme(h, i) # OwnScheme(g, Len(h) + 1)

LEMMA WellFormedGrows ==
  ASSUME NEW h, NEW x, NEW g, Grown(h, x, g)
  PROVE  WellFormed(g) <=> /\ WellFormed(h)
                           /\ x.kind # "comma" => Allowed(g, Len(h) + 1)
                           /\ NewSignal(h, x, g)
  <1> DEFINE n == Len(h)
  <1>1. /\ n \in Nat /\ DOMAIN h = 1..n /\ DOMAIN g = 1..(n + 1) /\ Content(h) \subseteq 1..n
        /\ \A i : i \in Content(g) <=> i \in Content(h) \/ (i = n + 1 /\ x.kind # "comma")
    BY Lengths
  <1>2. g[n + 1] = x /\ \A i \in 1..n : g[i] = h[i]
    BY DEF Grown
  <1>3. \A i \in 1..n : OwnScheme(g, i) = OwnScheme(h, i) /\ (Allowed(g, i) <=> Allowed(h, i))
    BY GrownSame
  <1>4. \A i : i \in 1..(n + 1) <=> i \in 1..n \/ i = n + 1
    BY <1>1
  <1>5. ~(n + 1 \in 1..n)
    BY <1>1
  <1> HIDE DEF n
  <1>6. (\A i \in Content(g) : Allowed(g, i))
          <=> (\A i \in Content(h) : Allowed(h, i)) /\ (x.kind # "comma" => Allowed(g, n + 1))
    BY <1>1, <1>3, Zenon
  <1>7. ASSUME SignalsOnce(g) PROVE SignalsOnce(h) /\ NewSignal(h, x, g)
    <2>1. SignalsOnce(h)
      BY <1>1, <1>2, <1>3, <1>4, <1>7, Zenon DEF SignalsOnce
    <2>2. NewSignal(h, x, g)
      <3> SUFFICES ASSUME x.kind = "param", x.text \in Signals, NEW i \in 1..n,
                          h[i].kind = "param", h[i].text = x.text
                   PROVE  OwnScheme(h, i) # OwnScheme(g, n + 1)
        BY DEF NewSignal, n
      <3>1. g[i] = h[i] /\ i # n + 1 /\ i \in DOMAIN g /\ n + 1 \in DOMAIN g
        BY <1>1, <1>2, <1>4, <1>5, Zenon
      <3>2. OwnScheme(g, i) # OwnScheme(g, n + 1)
        BY <1>2, <1>7, <3>1, Zenon DEF SignalsOnce
      <3> QED BY <1>3, <3>2
    <2> QED BY <2>1, <2>2
  <1>8. ASSUME SignalsOnce(h), NewSignal(h, x, g) PROVE SignalsOnce(g)
    <2> SUFFICES ASSUME NEW i \in DOMAIN g, NEW j \in DOMAIN g, g[i].kind = "param",
                        g[j].kind = "param", i # j, g[i].text = g[j].text,
                        g[i].text \in Signals
                 PROVE  OwnScheme(g, i) # OwnScheme(g, j)
      BY Zenon DEF SignalsOnce
    <2>1. CASE i \in 1..n /\ j \in 1..n
      <3>1. OwnScheme(h, i) # OwnScheme(h, j)
        BY <1>1, <1>2, <1>8, <2>1, Zenon DEF SignalsOnce
      <3> QED BY <1>3, <2>1, <3>1
    <2>2. CASE i \in 1..n /\ j = n + 1
      <3>1. OwnScheme(h, i) # OwnScheme(g, n + 1)
        BY <1>2, <1>8, <2>2 DEF NewSignal, n
      <3> QED BY <1>3, <2>2, <3>1
    <2>3. CASE i = n + 1 /\ j \in 1..n
      <3>1. OwnScheme(h, j) # OwnScheme(g, n + 1)
        BY <1>2, <1>8, <2>3 DEF NewSignal, n
      <3> QED BY <1>3, <2>3, <3>1
    <2> QED BY <1>1, <1>4, <2>1, <2>2, <2>3, Zenon
  <1> QED BY <1>6, <1>7, <1>8, Zenon DEF WellFormed, n

LEMMA Positive ==
  ASSUME NEW n \in Nat, n # 0
  PROVE  n \in 1..n /\ (n + 1) - 1 = n /\ n + 1 > 1 /\ n # n + 1
  OBVIOUS

(* The lexemes before the last, seen from there.                           *)
LEMMA LastFollows ==
  ASSUME NEW h, NEW x, NEW g, Grown(h, x, g)
  PROVE  /\ FollowsScheme(g, Len(h) + 1)
              <=> ~AfterComma(h) /\ IsScheme(h, Len(h))
         /\ ~AfterComma(h) => Len(h) \in Content(h)
         /\ h # <<>> => g[(Len(h) + 1) - 1] = h[Len(h)] /\ Len(h) \in 1..Len(h)
  <1>1. Len(h) \in Nat /\ DOMAIN h = 1..Len(h) /\ h \in Seq(Lexeme)
    BY Lengths DEF Grown
  <1>2. CASE h = <<>>
    <2>1. Len(h) = 0
      BY <1>2
    <2>2. ~FollowsScheme(g, Len(h) + 1)
      BY <2>1 DEF FollowsScheme
    <2> QED BY <1>2, <2>2 DEF AfterComma
  <1>3. CASE h # <<>>
    <2>1. Len(h) # 0
      BY <1>1, <1>3, EmptySeq
    <2>2. Len(h) \in 1..Len(h) /\ (Len(h) + 1) - 1 = Len(h) /\ Len(h) + 1 > 1
          /\ Len(h) # Len(h) + 1
      BY <1>1, <2>1, Positive
    <2>3. g[(Len(h) + 1) - 1] = h[Len(h)]
      BY <2>2 DEF Grown
    <2>4. Len(h) \in Content(h) <=> h[Len(h)].kind # "comma"
      BY <1>1, <2>2 DEF Content
    <2>5. Len(h) \in Content(g) <=> Len(h) \in Content(h)
      <3>1. \A j : j \in Content(g) <=> j \in Content(h) \/ (j = Len(h) + 1 /\ x.kind # "comma")
        BY Lengths
      <3> QED BY <2>2, <3>1
    <2>6. IsScheme(g, Len(h)) <=> IsScheme(h, Len(h))
      BY <2>2, SchemesStay
    <2>7. FollowsScheme(g, Len(h) + 1) <=> Len(h) \in Content(g) /\ IsScheme(g, Len(h))
      BY <2>2 DEF FollowsScheme
    <2>8. AfterComma(h) <=> h[Len(h)].kind = "comma"
      BY <1>3 DEF AfterComma
    <2> QED BY <1>3, <2>2, <2>3, <2>4, <2>5, <2>6, <2>7, <2>8, Zenon
  <1> QED BY <1>2, <1>3

(* What comes last, and what comes before the next.                        *)
LEMMA LastIsPrevious ==
  ASSUME NEW h, NEW x, NEW g, Grown(h, x, g)
  PROVE  /\ Content(h) = {} => Previous(g, Len(h) + 1) = 0
         /\ \A l \in Content(h) : (\A i \in Content(h) : i <= l)
              => Previous(g, Len(h) + 1) = l /\ g[l] = h[l] /\ l # 0
  <1>1. Len(h) \in Nat /\ Content(h) \subseteq 1..Len(h) /\ g \in Seq(Lexeme)
        /\ Len(h) + 1 \in 1..(Len(g) + 1)
    BY Lengths DEF Grown
  <1>2. \A i : i \in Content(g) /\ i < Len(h) + 1 <=> i \in Content(h)
    <2>1. \A i \in 1..Len(h) : i < Len(h) + 1
      BY <1>1
    <2>2. \A i : i = Len(h) + 1 => ~(i < Len(h) + 1)
      BY <1>1
    <2>3. \A j : j \in Content(g) <=> j \in Content(h) \/ (j = Len(h) + 1 /\ x.kind # "comma")
      BY Lengths
    <2>4. \A i \in Content(h) : i < Len(h) + 1
      BY <1>1, <2>1
    <2> SUFFICES ASSUME NEW i PROVE i \in Content(g) /\ i < Len(h) + 1 <=> i \in Content(h)
      OBVIOUS
    <2>5. i \in Content(h) => i \in Content(g) /\ i < Len(h) + 1
      BY <2>3, <2>4, Zenon
    <2>6. i \in Content(g) /\ i < Len(h) + 1 => i \in Content(h)
      BY <2>2, <2>3, Zenon
    <2> QED BY <2>5, <2>6, Zenon
  <1>3. \/ Previous(g, Len(h) + 1) = 0 /\ \A j \in Content(g) : ~(j < Len(h) + 1)
        \/ /\ Previous(g, Len(h) + 1) \in Content(g) /\ Previous(g, Len(h) + 1) < Len(h) + 1
           /\ \A j \in Content(g) : j < Len(h) + 1 => j <= Previous(g, Len(h) + 1)
    BY <1>1, PreviousIs, Zenon
  <1>4. Content(h) = {} => Previous(g, Len(h) + 1) = 0
    BY <1>2, <1>3, Zenon
  <1>5. ASSUME NEW l \in Content(h), \A i \in Content(h) : i <= l
        PROVE  Previous(g, Len(h) + 1) = l /\ g[l] = h[l] /\ l # 0
    <2>1. /\ Previous(g, Len(h) + 1) \in Content(h)
          /\ l <= Previous(g, Len(h) + 1) /\ Previous(g, Len(h) + 1) <= l
      BY <1>2, <1>3, <1>5, Zenon
    <2>2. l \in 1..Len(h) /\ Previous(g, Len(h) + 1) \in 1..Len(h)
      BY <1>1, <2>1, Zenon
    <2>3. Previous(g, Len(h) + 1) = l
      BY <2>1, <2>2
    <2>4. g[l] = h[l] /\ l # 0
      BY <1>1, <2>2 DEF Grown
    <2> QED BY <2>3, <2>4
  <1> QED BY <1>4, <1>5

(* The parameters of a scheme, after one lexeme more.                      *)
LEMMA ParamsGrow ==
  ASSUME NEW h, NEW x, NEW g, Grown(h, x, g)
  PROVE  \A s, i : i \in OwnParams(g, s)
           <=> \/ i \in OwnParams(h, s)
               \/ i = Len(h) + 1 /\ x.kind = "param" /\ OwnScheme(g, Len(h) + 1) = s
  <1>1. /\ DOMAIN h = 1..Len(h) /\ DOMAIN g = 1..(Len(h) + 1) /\ Len(h) \in Nat
        /\ g[Len(h) + 1] = x /\ \A i \in 1..Len(h) : g[i] = h[i]
    BY Lengths DEF Grown
  <1>2. \A i \in 1..Len(h) : OwnScheme(g, i) = OwnScheme(h, i)
    BY GrownSame
  <1>3. \A i : i \in 1..(Len(h) + 1) <=> i \in 1..Len(h) \/ i = Len(h) + 1
    BY <1>1
  <1>4. ~(Len(h) + 1 \in 1..Len(h))
    BY <1>1
  <1> SUFFICES ASSUME NEW s, NEW i
               PROVE  i \in OwnParams(g, s)
                        <=> \/ i \in OwnParams(h, s)
                            \/ /\ i = Len(h) + 1 /\ x.kind = "param"
                               /\ OwnScheme(g, Len(h) + 1) = s
    OBVIOUS
  <1>5. CASE i \in 1..Len(h)
    <2>1. i # Len(h) + 1 /\ g[i] = h[i] /\ OwnScheme(g, i) = OwnScheme(h, i)
          /\ i \in DOMAIN h /\ i \in DOMAIN g
      BY <1>1, <1>2, <1>3, <1>4, <1>5, Zenon
    <2> QED BY <2>1, Zenon DEF OwnParams
  <1>6. CASE i = Len(h) + 1
    <2>1. i \in DOMAIN g /\ ~(i \in DOMAIN h) /\ g[i] = x
      BY <1>1, <1>3, <1>4, <1>6, Zenon
    <2> QED BY <1>6, <2>1, Zenon DEF OwnParams
  <1>7. CASE ~(i \in 1..Len(h)) /\ i # Len(h) + 1
    BY <1>1, <1>3, <1>7, Zenon DEF OwnParams
  <1> QED BY <1>5, <1>6, <1>7

(* A lexeme that is neither a scheme nor a parameter adds nothing to the   *)
(* challenges, nor does a parameter whose name its scheme has already and  *)
(* that is no signal.                                                      *)
LEMMA ListStays ==
  ASSUME NEW h, NEW x, NEW g, Grown(h, x, g), NEW cs, NEW at,
         at \in [1..Len(cs) -> DOMAIN h], Listed(h, cs, at), ~IsScheme(g, Len(h) + 1),
         x.kind = "param" => /\ x.text \notin Signals
                             /\ \A k \in 1..Len(cs) : OwnScheme(g, Len(h) + 1) = at[k]
                                  => x.text \in Names(cs[k].params)
  PROVE  at \in [1..Len(cs) -> DOMAIN g] /\ Listed(g, cs, at)
  <1>1. /\ DOMAIN h = 1..Len(h) /\ DOMAIN g = 1..(Len(h) + 1) /\ Len(h) \in Nat
        /\ g[Len(h) + 1] = x /\ \A i \in 1..Len(h) : g[i] = h[i]
    BY Lengths DEF Grown
  <1>2. DOMAIN h \subseteq DOMAIN g /\ \A i \in DOMAIN g : i \in DOMAIN h \/ i = Len(h) + 1
    BY <1>1
  <1>3. at \in [1..Len(cs) -> DOMAIN g]
    BY <1>2
  <1>4. \A k \in 1..Len(cs) : at[k] \in DOMAIN h /\ g[at[k]] = h[at[k]] /\ at[k] # Len(h) + 1
    BY <1>1
  <1>5. \A i \in DOMAIN g : IsScheme(g, i) <=> \E k \in 1..Len(cs) : at[k] = i
    <2>1. \A i \in DOMAIN h : IsScheme(g, i) <=> IsScheme(h, i)
      BY <1>1, SchemesStay
    <2> QED BY <1>2, <1>4, <2>1, Zenon DEF Listed
  <1>6. ASSUME NEW k \in 1..Len(cs)
        PROVE  /\ cs[k].scheme = g[at[k]].text
               /\ \A name : name \in Names(cs[k].params)
                              <=> \E i \in OwnParams(g, at[k]) : g[i].text = name
               /\ \A q \in cs[k].params : \E i \in OwnParams(g, at[k]) : q = Read(g, i)
               /\ \A i \in OwnParams(g, at[k]) :
                    g[i].text \in Signals => Read(g, i) \in cs[k].params
    <2>1. /\ cs[k].scheme = h[at[k]].text
          /\ \A name : name \in Names(cs[k].params)
                         <=> \E i \in OwnParams(h, at[k]) : h[i].text = name
          /\ \A q \in cs[k].params : \E i \in OwnParams(h, at[k]) : q = Read(h, i)
          /\ \A i \in OwnParams(h, at[k]) :
               h[i].text \in Signals => Read(h, i) \in cs[k].params
      BY Zenon DEF Listed
    <2>2. \A i : i \in OwnParams(g, at[k])
            <=> \/ i \in OwnParams(h, at[k])
                \/ i = Len(h) + 1 /\ x.kind = "param" /\ OwnScheme(g, Len(h) + 1) = at[k]
      BY ParamsGrow, Zenon
    <2>3. \A i \in OwnParams(h, at[k]) : g[i] = h[i] /\ Read(g, i) = Read(h, i)
      <3>1. OwnParams(h, at[k]) \subseteq 1..Len(h)
        BY <1>1 DEF OwnParams
      <3> QED BY <1>1, <3>1 DEF Read
    <2>4. x.kind = "param" /\ OwnScheme(g, Len(h) + 1) = at[k]
            => x.text \notin Signals /\ x.text \in Names(cs[k].params)
      OBVIOUS
    <2> HIDE DEF Names, OwnParams, Read
    <2>5. cs[k].scheme = g[at[k]].text
      BY <1>4, <2>1
    <2>6. \A name : name \in Names(cs[k].params)
                      <=> \E i \in OwnParams(g, at[k]) : g[i].text = name
      <3> SUFFICES ASSUME NEW name
                   PROVE  name \in Names(cs[k].params)
                            <=> \E i \in OwnParams(g, at[k]) : g[i].text = name
        OBVIOUS
      <3>1. name \in Names(cs[k].params) => \E i \in OwnParams(g, at[k]) : g[i].text = name
        BY <2>1, <2>2, <2>3, Zenon
      <3>2. ASSUME NEW i \in OwnParams(g, at[k]), g[i].text = name
            PROVE  name \in Names(cs[k].params)
        <4>1. CASE i \in OwnParams(h, at[k])
          BY <2>1, <2>3, <3>2, <4>1, Zenon
        <4>2. CASE i = Len(h) + 1 /\ x.kind = "param" /\ OwnScheme(g, Len(h) + 1) = at[k]
          BY <1>1, <2>4, <3>2, <4>2, Zenon
        <4> QED BY <2>2, <4>1, <4>2, Zenon
      <3> QED BY <3>1, <3>2, Zenon
    <2>7. \A q \in cs[k].params : \E i \in OwnParams(g, at[k]) : q = Read(g, i)
      BY <2>1, <2>2, <2>3, Zenon
    <2>8. ASSUME NEW i \in OwnParams(g, at[k]), g[i].text \in Signals
          PROVE  Read(g, i) \in cs[k].params
      <3>1. i \in OwnParams(h, at[k])
        BY <1>1, <2>2, <2>4, <2>8, Zenon
      <3> QED BY <2>1, <2>3, <2>8, <3>1, Zenon
    <2> QED BY <2>5, <2>6, <2>7, <2>8, Zenon
  <1>7. \A j, k \in 1..Len(cs) : j < k => at[j] < at[k]
    BY Zenon DEF Listed
  <1> QED BY <1>3, <1>5, <1>6, <1>7, Zenon DEF Listed

(* A scheme is a challenge of its own, with no parameters yet.             *)
LEMMA ListGetsScheme ==
  ASSUME NEW h, NEW x, NEW g, Grown(h, x, g), NEW cs \in Seq(Challenge), NEW at,
         at \in [1..Len(cs) -> DOMAIN h], Listed(h, cs, at), IsScheme(g, Len(h) + 1),
         \A i \in DOMAIN h : h[i].kind = "param" => \E s \in 1..i : IsScheme(h, s),
         NEW ds \in Seq(Challenge), Len(ds) = Len(cs) + 1,
         \A k \in 1..Len(cs) : ds[k] = cs[k],
         ds[Len(cs) + 1] = [scheme |-> x.text, params |-> {}]
  PROVE  \E later \in [1..Len(ds) -> DOMAIN g] : Listed(g, ds, later)
  <1> DEFINE later == [k \in 1..(Len(cs) + 1) |-> IF k \in 1..Len(cs) THEN at[k] ELSE Len(h) + 1]
  <1>1. /\ DOMAIN h = 1..Len(h) /\ DOMAIN g = 1..(Len(h) + 1) /\ Len(h) \in Nat
        /\ g[Len(h) + 1] = x /\ \A i \in 1..Len(h) : g[i] = h[i] /\ h \in Seq(Lexeme)
    BY Lengths DEF Grown
  <1>2. PICK m : m = Len(cs)
    OBVIOUS
  <1>3. m \in Nat /\ Len(ds) = m + 1
    BY <1>2
  <1>4. /\ \A k : k \in 1..(m + 1) <=> k \in 1..m \/ k = m + 1
        /\ ~(m + 1 \in 1..m)
        /\ \A i : i \in 1..(Len(h) + 1) <=> i \in 1..Len(h) \/ i = Len(h) + 1
        /\ ~(Len(h) + 1 \in 1..Len(h)) /\ \A i \in 1..Len(h) : i < Len(h) + 1
    BY <1>1, <1>3
  <1>5. /\ \A k \in 1..m : later[k] = at[k] /\ at[k] \in 1..Len(h)
        /\ later[m + 1] = Len(h) + 1
    <2>1. \A k \in 1..m : at[k] \in 1..Len(h)
      BY <1>1, <1>2
    <2>2. \A k \in 1..m : later[k] = at[k]
      BY <1>2, <1>4
    <2>3. later[m + 1] = Len(h) + 1
      BY <1>2, <1>4
    <2> QED BY <2>1, <2>2, <2>3
  <1>6. later \in [1..Len(ds) -> DOMAIN g]
    <2>1. \A k \in 1..(m + 1) : later[k] \in DOMAIN g
      BY <1>1, <1>4, <1>5, Zenon
    <2> QED BY <1>2, <1>3, <2>1
  <1> HIDE DEF later
  <1>7. \A j, k \in 1..Len(ds) : j < k => later[j] < later[k]
    <2> SUFFICES ASSUME NEW j \in 1..(m + 1), NEW k \in 1..(m + 1), j < k
                 PROVE  later[j] < later[k]
      BY <1>3
    <2>1. j \in 1..m
      BY <1>3
    <2>2. CASE k \in 1..m
      <3>1. at[j] < at[k]
        BY <1>2, <2>1, <2>2, Zenon DEF Listed
      <3> QED BY <1>5, <2>1, <2>2, <3>1
    <2>3. CASE k = m + 1
      BY <1>4, <1>5, <2>1, <2>3
    <2> QED BY <1>4, <2>2, <2>3
  <1>8. \A i \in DOMAIN g : IsScheme(g, i) <=> \E k \in 1..Len(ds) : later[k] = i
    <2>1. \A i \in 1..Len(h) : IsScheme(g, i) <=> IsScheme(h, i)
      BY SchemesStay
    <2>2. \A i \in 1..Len(h) : IsScheme(g, i) <=> \E k \in 1..m : at[k] = i
      BY <1>1, <1>2, <2>1, Zenon DEF Listed
    <2>3. ASSUME NEW i \in DOMAIN g
          PROVE  IsScheme(g, i) <=> \E k \in 1..(m + 1) : later[k] = i
      <3>1. CASE i \in 1..Len(h)
        BY <1>4, <1>5, <2>2, <3>1, Zenon
      <3>2. CASE i = Len(h) + 1
        BY <1>4, <1>5, <3>2, Zenon
      <3> QED BY <1>1, <1>4, <3>1, <3>2, Zenon
    <2> QED BY <1>3, <2>3
  <1>9. ASSUME NEW k \in 1..Len(ds)
        PROVE  /\ ds[k].scheme = g[later[k]].text
               /\ \A name : name \in Names(ds[k].params)
                              <=> \E i \in OwnParams(g, later[k]) : g[i].text = name
               /\ \A q \in ds[k].params : \E i \in OwnParams(g, later[k]) : q = Read(g, i)
               /\ \A i \in OwnParams(g, later[k]) :
                    g[i].text \in Signals => Read(g, i) \in ds[k].params
    <2>0. x.kind # "param"
      BY SchemesStay
    <2>1. CASE k \in 1..m
      <3>1. later[k] = at[k] /\ at[k] \in 1..Len(h) /\ ds[k] = cs[k]
        BY <1>2, <1>5, <2>1, Zenon
      <3>2. /\ cs[k].scheme = h[at[k]].text
            /\ \A name : name \in Names(cs[k].params)
                           <=> \E i \in OwnParams(h, at[k]) : h[i].text = name
            /\ \A q \in cs[k].params : \E i \in OwnParams(h, at[k]) : q = Read(h, i)
            /\ \A i \in OwnParams(h, at[k]) :
                 h[i].text \in Signals => Read(h, i) \in cs[k].params
        BY <1>2, <2>1, Zenon DEF Listed
      <3>3. \A i : i \in OwnParams(g, at[k]) <=> i \in OwnParams(h, at[k])
        BY <2>0, ParamsGrow, Zenon
      <3>4. \A i \in OwnParams(h, at[k]) : g[i] = h[i] /\ Read(g, i) = Read(h, i)
        <4>1. OwnParams(h, at[k]) \subseteq 1..Len(h)
          BY <1>1 DEF OwnParams
        <4> QED BY <1>1, <4>1 DEF Read
      <3>5. g[at[k]] = h[at[k]]
        BY <1>1, <3>1
      <3> HIDE DEF Names, OwnParams, Read
      <3> QED BY <3>1, <3>2, <3>3, <3>4, <3>5, ZenonT(60)
    <2>2. CASE k = m + 1
      <3>1. later[k] = Len(h) + 1 /\ ds[k] = [scheme |-> x.text, params |-> {}] /\ g[later[k]] = x
        BY <1>1, <1>2, <1>5, <2>2
      <3>2. ds[k].scheme = x.text /\ ds[k].params = {} /\ Names(ds[k].params) = {}
        BY <3>1 DEF Names
      <3>3. OwnParams(g, later[k]) = {}
        <4> SUFFICES ASSUME NEW i \in OwnParams(g, later[k]) PROVE FALSE
          OBVIOUS
        <4>1. i \in OwnParams(h, Len(h) + 1)
          BY <2>0, <3>1, ParamsGrow, Zenon
        <4>2. i \in 1..Len(h) /\ h[i].kind = "param" /\ OwnScheme(h, i) = Len(h) + 1
          BY <1>1, <4>1 DEF OwnParams
        <4>3. PICK s \in 1..i : IsScheme(h, s)
          BY <1>1, <4>2
        <4>4. i \in Nat /\ h \in Seq(Lexeme)
          BY <4>2 DEF Grown
        <4>5. OwnScheme(h, i) \in 1..i
          BY <4>3, <4>4, OwnSchemeIs
        <4> QED BY <1>1, <4>2, <4>5
      <3> QED BY <3>1, <3>2, <3>3
    <2> QED BY <1>3, <1>4, <2>1, <2>2
  <1>10. Listed(g, ds, later)
    BY <1>7, <1>8, <1>9, Zenon DEF Listed
  <1> QED BY <1>6, <1>10

(* The scheme of a new parameter is the last one.                          *)
LEMMA LastScheme ==
  ASSUME NEW h, NEW x, NEW g, Grown(h, x, g), x.kind = "param", NEW m \in Nat, m # 0,
         NEW cs, Len(cs) = m, NEW at \in [1..m -> DOMAIN h], Listed(h, cs, at)
  PROVE  OwnScheme(g, Len(h) + 1) = at[m] /\ at[m] \in 1..Len(h) /\ IsScheme(h, at[m])
  <1>1. DOMAIN h = 1..Len(h) /\ Len(h) \in Nat /\ g \in Seq(Lexeme)
    BY Lengths DEF Grown
  <1>2. m \in 1..m /\ at[m] \in 1..Len(h)
    BY <1>1
  <1>3. IsScheme(h, at[m])
    BY <1>1, <1>2, Zenon DEF Listed
  <1>4. IsScheme(g, at[m]) /\ ~IsScheme(g, Len(h) + 1)
    BY <1>2, <1>3, SchemesStay
  <1>5. at[m] \in 1..(Len(h) + 1) /\ Len(h) + 1 \in Nat
    BY <1>1, <1>2
  <1> DEFINE own == OwnScheme(g, Len(h) + 1)
  <1>6. own \in 1..(Len(h) + 1) /\ IsScheme(g, own) /\ at[m] <= own
    BY <1>1, <1>4, <1>5, OwnSchemeIs
  <1> HIDE DEF own
  <1>7. own \in 1..Len(h)
    <2>1. own # Len(h) + 1
      BY <1>4, <1>6
    <2>2. own \in 1..(Len(h) + 1)
      BY <1>6
    <2>3. Len(h) \in Nat
      BY <1>1
    <2> QED BY <2>1, <2>2, <2>3
  <1>8. IsScheme(h, own)
    BY <1>6, <1>7, SchemesStay
  <1>9. PICK k \in 1..m : at[k] = own
    BY <1>1, <1>7, <1>8, Zenon DEF Listed
  <1>10. k < m => at[k] < at[m]
    BY <1>2, Zenon DEF Listed
  <1>11. own = at[m]
    <2>1. k = m \/ k < m
      OBVIOUS
    <2>2. CASE k < m
      <3>1. own < at[m]
        BY <1>9, <1>10, <2>2
      <3> QED BY <1>2, <1>6, <1>7, <3>1
    <2> QED BY <1>9, <2>1, <2>2
  <1> QED BY <1>2, <1>3, <1>11 DEF own

(* A parameter with a new name goes to the last challenge.                 *)
LEMMA ListGetsParam ==
  ASSUME NEW h, NEW x, NEW g, Grown(h, x, g), x.kind = "param", NEW m \in Nat, m # 0,
         NEW cs, Len(cs) = m, NEW at \in [1..m -> DOMAIN h], Listed(h, cs, at),
         NEW ds, Len(ds) = m, \A k \in 1..m : k # m => ds[k] = cs[k],
         ds[m].scheme = cs[m].scheme,
         ds[m].params = cs[m].params \cup {[name |-> x.text, value |-> x.value]}
  PROVE  at \in [1..m -> DOMAIN g] /\ Listed(g, ds, at)
  <1>1. /\ DOMAIN h = 1..Len(h) /\ DOMAIN g = 1..(Len(h) + 1) /\ Len(h) \in Nat
        /\ g[Len(h) + 1] = x /\ \A i \in 1..Len(h) : g[i] = h[i]
    BY Lengths DEF Grown
  <1>2. DOMAIN h \subseteq DOMAIN g /\ \A i \in DOMAIN g : i \in DOMAIN h \/ i = Len(h) + 1
    BY <1>1
  <1>3. at \in [1..m -> DOMAIN g]
    BY <1>2
  <1>4. \A k \in 1..m : at[k] \in DOMAIN h /\ g[at[k]] = h[at[k]] /\ at[k] # Len(h) + 1
    BY <1>1
  <1>5. \A j, k \in 1..m : j < k => at[j] < at[k]
    BY Zenon DEF Listed
  <1>6. OwnScheme(g, Len(h) + 1) = at[m] /\ ~IsScheme(g, Len(h) + 1)
    BY LastScheme, SchemesStay
  <1>7. \A i \in DOMAIN g : IsScheme(g, i) <=> \E k \in 1..m : at[k] = i
    <2>1. \A i \in DOMAIN h : IsScheme(g, i) <=> IsScheme(h, i)
      BY <1>1, SchemesStay
    <2> QED BY <1>2, <1>4, <1>6, <2>1, Zenon DEF Listed
  <1>8. ASSUME NEW k \in 1..m
        PROVE  /\ ds[k].scheme = g[at[k]].text
               /\ \A name : name \in Names(ds[k].params)
                              <=> \E i \in OwnParams(g, at[k]) : g[i].text = name
               /\ \A q \in ds[k].params : \E i \in OwnParams(g, at[k]) : q = Read(g, i)
               /\ \A i \in OwnParams(g, at[k]) :
                    g[i].text \in Signals => Read(g, i) \in ds[k].params
    <2>1. /\ cs[k].scheme = h[at[k]].text
          /\ \A name : name \in Names(cs[k].params)
                         <=> \E i \in OwnParams(h, at[k]) : h[i].text = name
          /\ \A q \in cs[k].params : \E i \in OwnParams(h, at[k]) : q = Read(h, i)
          /\ \A i \in OwnParams(h, at[k]) :
               h[i].text \in Signals => Read(h, i) \in cs[k].params
      BY Zenon DEF Listed
    <2>2. \A i \in OwnParams(h, at[k]) : g[i] = h[i] /\ Read(g, i) = Read(h, i)
      <3>1. OwnParams(h, at[k]) \subseteq 1..Len(h)
        BY <1>1 DEF OwnParams
      <3> QED BY <1>1, <3>1 DEF Read
    <2>3. CASE k # m
      <3>1. ds[k] = cs[k] /\ at[k] # at[m]
        <4>1. k < m /\ m \in 1..m
          BY <2>3
        <4>2. at[k] < at[m] /\ at[k] \in Int /\ at[m] \in Int
          BY <1>1, <1>5, <4>1
        <4> QED BY <2>3, <4>2
      <3>2. \A i : i \in OwnParams(g, at[k]) <=> i \in OwnParams(h, at[k])
        BY <1>6, <3>1, ParamsGrow, Zenon
      <3>3. g[at[k]] = h[at[k]]
        BY <1>4
      <3> HIDE DEF Names, OwnParams, Read
      <3>4. ds[k].scheme = g[at[k]].text /\ ds[k].params = cs[k].params
        BY <2>1, <3>1, <3>3
      <3>5. \A name : name \in Names(ds[k].params)
                        <=> \E i \in OwnParams(g, at[k]) : g[i].text = name
        <4> SUFFICES ASSUME NEW name
                     PROVE  name \in Names(ds[k].params)
                              <=> \E i \in OwnParams(g, at[k]) : g[i].text = name
          OBVIOUS
        <4>1. name \in Names(ds[k].params) <=> \E i \in OwnParams(h, at[k]) : h[i].text = name
          BY <2>1, <3>4
        <4>2. ASSUME NEW i \in OwnParams(h, at[k]), h[i].text = name
              PROVE  \E j \in OwnParams(g, at[k]) : g[j].text = name
          BY <2>2, <3>2, <4>2, Zenon
        <4>3. ASSUME NEW i \in OwnParams(g, at[k]), g[i].text = name
              PROVE  \E j \in OwnParams(h, at[k]) : h[j].text = name
          BY <2>2, <3>2, <4>3, Zenon
        <4> QED BY <4>1, <4>2, <4>3, Zenon
      <3>6. \A q \in ds[k].params : \E i \in OwnParams(g, at[k]) : q = Read(g, i)
        BY <2>1, <2>2, <3>2, <3>4, Zenon
      <3>7. \A i \in OwnParams(g, at[k]) : g[i].text \in Signals => Read(g, i) \in ds[k].params
        BY <2>1, <2>2, <3>2, <3>4, Zenon
      <3> QED BY <3>4, <3>5, <3>6, <3>7
    <2>4. CASE k = m
      <3>1. \A i : i \in OwnParams(g, at[m]) <=> i \in OwnParams(h, at[m]) \/ i = Len(h) + 1
        <4>1. \A i : i \in OwnParams(g, at[m])
                 <=> \/ i \in OwnParams(h, at[m])
                     \/ i = Len(h) + 1 /\ x.kind = "param" /\ OwnScheme(g, Len(h) + 1) = at[m]
          BY ParamsGrow, Zenon
        <4> QED BY <1>6, <4>1
      <3>2. Read(g, Len(h) + 1) = [name |-> x.text, value |-> x.value]
            /\ g[Len(h) + 1].text = x.text
        BY <1>1 DEF Read
      <3>3. \A q : q \in ds[m].params <=> q \in cs[m].params \/ q = Read(g, Len(h) + 1)
        BY <3>2
      <3>4. \A name : name \in Names(ds[m].params) <=> name \in Names(cs[m].params) \/ name = x.text
        <4>1. Read(g, Len(h) + 1).name = x.text
          BY <3>2
        <4> QED BY <3>3, <4>1, Zenon DEF Names
      <3>5. ds[m].scheme = g[at[m]].text
        BY <1>4, <2>1, <2>4
      <3> HIDE DEF Names, OwnParams, Read
      <3>6. \A name : name \in Names(ds[m].params)
                        <=> \E i \in OwnParams(g, at[m]) : g[i].text = name
        <4> SUFFICES ASSUME NEW name
                     PROVE  name \in Names(ds[m].params)
                              <=> \E i \in OwnParams(g, at[m]) : g[i].text = name
          OBVIOUS
        <4>1. ASSUME name \in Names(ds[m].params)
              PROVE  \E i \in OwnParams(g, at[m]) : g[i].text = name
          <5>1. CASE name = x.text
            BY <3>1, <3>2, <5>1, Zenon
          <5>2. CASE name \in Names(cs[m].params)
            <6>1. PICK i \in OwnParams(h, at[m]) : h[i].text = name
              BY <2>1, <2>4, <5>2, Zenon
            <6>2. i \in OwnParams(g, at[m]) /\ g[i] = h[i]
              BY <2>2, <2>4, <3>1, Zenon
            <6> QED BY <6>1, <6>2
          <5> QED BY <3>4, <4>1, <5>1, <5>2, Zenon
        <4>2. ASSUME NEW i \in OwnParams(g, at[m]), g[i].text = name
              PROVE  name \in Names(ds[m].params)
          BY <2>1, <2>2, <2>4, <3>1, <3>2, <3>4, <4>2, Zenon
        <4> QED BY <4>1, <4>2, Zenon
      <3>7. \A q \in ds[m].params : \E i \in OwnParams(g, at[m]) : q = Read(g, i)
        <4> SUFFICES ASSUME NEW q \in ds[m].params
                     PROVE  \E i \in OwnParams(g, at[m]) : q = Read(g, i)
          OBVIOUS
        <4>1. CASE q = Read(g, Len(h) + 1)
          BY <3>1, <4>1, Zenon
        <4>2. CASE q \in cs[m].params
          <5>1. PICK i \in OwnParams(h, at[m]) : q = Read(h, i)
            BY <2>1, <2>4, <4>2, Zenon
          <5>2. i \in OwnParams(g, at[m]) /\ Read(g, i) = Read(h, i)
            BY <2>2, <2>4, <3>1, Zenon
          <5> QED BY <5>1, <5>2
        <4> QED BY <3>3, <4>1, <4>2, Zenon
      <3>8. \A i \in OwnParams(g, at[m]) : g[i].text \in Signals => Read(g, i) \in ds[m].params
        BY <2>1, <2>2, <2>4, <3>1, <3>3, Zenon
      <3> QED BY <2>4, <3>5, <3>6, <3>7, <3>8, Zenon
    <2> QED BY <2>3, <2>4
  <1> QED BY <1>3, <1>5, <1>7, <1>8, Zenon DEF Listed

(* The rest of what the parser knows.                                      *)
LEMMA LastKnown ==
  ASSUME NEW h, NEW x, NEW g, Grown(h, x, g), x.kind # "comma"
  PROVE  /\ Len(h) + 1 \in DOMAIN g /\ Len(h) + 1 \in Content(g)
         /\ \A i \in Content(g) : i <= Len(h) + 1
         /\ g[Len(h) + 1] = x /\ ~AfterComma(g)
  <1>1. /\ DOMAIN h = 1..Len(h) /\ DOMAIN g = 1..(Len(h) + 1) /\ Len(h) \in Nat
        /\ g[Len(h) + 1] = x /\ Len(g) = Len(h) + 1
    BY Lengths DEF Grown
  <1>2. Len(h) + 1 \in DOMAIN g
    BY <1>1
  <1>3. Len(h) + 1 \in Content(g)
    BY Lengths, Zenon
  <1>4. \A i \in Content(g) : i <= Len(h) + 1
    BY <1>1 DEF Content
  <1>5. ~AfterComma(g)
    <2>1. g # <<>>
      BY <1>1
    <2> QED BY <1>1, <2>1 DEF AfterComma
  <1> QED BY <1>1, <1>2, <1>3, <1>4, <1>5

LEMMA ParamsKnown ==
  ASSUME NEW h, NEW x, NEW g, Grown(h, x, g),
         \A i \in DOMAIN h : h[i].kind = "param" => \E s \in 1..i : IsScheme(h, s),
         x.kind = "param" => \E s \in 1..Len(h) : IsScheme(h, s)
  PROVE  \A i \in DOMAIN g : g[i].kind = "param" => \E s \in 1..i : IsScheme(g, s)
  <1>1. /\ DOMAIN h = 1..Len(h) /\ DOMAIN g = 1..(Len(h) + 1) /\ Len(h) \in Nat
        /\ g[Len(h) + 1] = x /\ \A i \in 1..Len(h) : g[i] = h[i]
    BY Lengths DEF Grown
  <1> SUFFICES ASSUME NEW i \in DOMAIN g, g[i].kind = "param" PROVE \E s \in 1..i : IsScheme(g, s)
    OBVIOUS
  <1>2. PICK s \in 1..Len(h) : s \in 1..i /\ IsScheme(h, s)
    <2>1. CASE i \in 1..Len(h)
      <3>1. PICK s \in 1..i : IsScheme(h, s)
        BY <1>1, <2>1
      <3>2. s \in 1..Len(h)
        BY <1>1, <2>1
      <3> QED BY <3>1, <3>2
    <2>2. CASE i = Len(h) + 1
      <3>1. PICK s \in 1..Len(h) : IsScheme(h, s)
        BY <1>1, <2>2
      <3>2. s \in 1..i
        BY <1>1, <2>2
      <3> QED BY <3>1, <3>2
    <2>3. i \in 1..Len(h) \/ i = Len(h) + 1
      BY <1>1
    <2> QED BY <2>1, <2>2, <2>3
  <1>3. IsScheme(g, s)
    BY <1>2, SchemesStay
  <1> QED BY <1>2, <1>3

(* What is refused stays refused.                                          *)
LEMMA Refused ==
  ASSUME NEW h \in Seq(Lexeme), NEW p \in Parser, ~WellFormed(h)
  PROVE  /\ ~p.ok => ParserInv(h, p)
         /\ ParserInv(h, Malformed(p))
  <1>1. Malformed(p) \in Parser /\ ~Malformed(p).ok
    BY DEF Malformed, Parser
  <1> QED BY <1>1, Zenon DEF ParserInv

(* The parser is right after a scheme.                                     *)
LEMMA SchemeLast ==
  ASSUME NEW h, NEW x, NEW g, Grown(h, x, g), NEW p \in Parser, Knows(h, p)
  PROVE  FollowsScheme(g, Len(h) + 1) <=> p.state = "scheme" /\ ~p.sawComma
  <1>1. p.sawComma <=> AfterComma(h)
    BY DEF Knows
  <1>2. /\ FollowsScheme(g, Len(h) + 1) <=> ~AfterComma(h) /\ IsScheme(h, Len(h))
        /\ ~AfterComma(h) => Len(h) \in Content(h)
    BY LastFollows
  <1>3. CASE AfterComma(h)
    BY <1>1, <1>2, <1>3
  <1>4. CASE ~AfterComma(h)
    <2>1. Len(h) \in Content(h) /\ Content(h) # {}
      BY <1>2, <1>4
    <2>2. PICK l \in DOMAIN h : LastRead(h, l, p.state)
      BY <2>1, Zenon DEF Knows
    <2>3. l \in Content(h) /\ Len(h) <= l
      BY <2>1, <2>2, Zenon DEF LastRead
    <2>4. l = Len(h)
      <3>1. l \in 1..Len(h) /\ Len(h) \in Nat
        BY <2>3, Lengths
      <3> QED BY <2>3, <3>1
    <2>5. h[Len(h)].kind = "param" => ~IsScheme(h, Len(h))
      BY DEF IsScheme
    <2>6. IsScheme(h, Len(h)) <=> p.state = "scheme"
      BY <2>2, <2>4, <2>5 DEF LastRead
    <2> QED BY <1>1, <1>2, <1>4, <2>6
  <1> QED BY <1>3, <1>4

(* A comma changes nothing but what may follow.                            *)
LEMMA CommaTaken ==
  ASSUME NEW h, NEW x, NEW g, Grown(h, x, g), NEW p, ParserInv(h, p), p.ok,
         x.kind = "comma"
  PROVE  ParserInv(g, TakeComma(p))
  <1>1. g \in Seq(Lexeme) /\ p \in Parser /\ WellFormed(h) /\ Knows(h, p)
    BY DEF ParserInv, Grown
  <1>2. PICK q : q = TakeComma(p)
    OBVIOUS
  <1>3. /\ q \in Parser /\ q.ok /\ q.sawComma /\ q.state = p.state
        /\ q.challenges = p.challenges
    BY <1>1, <1>2 DEF TakeComma, Parser
  <1>4. WellFormed(g)
    <2>1. NewSignal(h, x, g)
      BY DEF NewSignal
    <2> QED BY <1>1, <2>1, WellFormedGrows
  <1>5. AfterComma(g)
    BY DEF AfterComma, Grown
  <1>6. \A i : i \in Content(g) <=> i \in Content(h)
    BY Lengths, Zenon
  <1>7. Content(g) = Content(h)
    BY <1>6
  <1>8. /\ DOMAIN h = 1..Len(h) /\ DOMAIN h \subseteq DOMAIN g
        /\ \A i \in DOMAIN h : g[i] = h[i] /\ (IsScheme(g, i) <=> IsScheme(h, i))
    <2>1. DOMAIN h = 1..Len(h) /\ DOMAIN h \subseteq DOMAIN g
      BY Lengths
    <2> QED BY <2>1, SchemesStay DEF Grown
  <1>9. ASSUME NEW l \in DOMAIN h, LastRead(h, l, p.state) PROVE LastRead(g, l, q.state)
    BY <1>3, <1>7, <1>8, <1>9, Zenon DEF LastRead
  <1>10. \/ q.state = "boundary" /\ Content(g) = {}
         \/ q.challenges # <<>> /\ \E l \in DOMAIN g : LastRead(g, l, q.state)
    BY <1>1, <1>3, <1>7, <1>8, <1>9, Zenon DEF Knows
  <1>11. \E at \in [1..Len(q.challenges) -> DOMAIN g] : Listed(g, q.challenges, at)
    <2>1. PICK at \in [1..Len(p.challenges) -> DOMAIN h] : Listed(h, p.challenges, at)
      BY <1>1, Zenon DEF Knows
    <2>2. ~IsScheme(g, Len(h) + 1)
      BY SchemesStay
    <2>3. at \in [1..Len(p.challenges) -> DOMAIN g] /\ Listed(g, p.challenges, at)
      BY <2>1, <2>2, ListStays
    <2> QED BY <1>3, <2>3
  <1>12. \A i \in DOMAIN g : g[i].kind = "param" => \E s \in 1..i : IsScheme(g, s)
    <2>1. \A i \in DOMAIN h : h[i].kind = "param" => \E s \in 1..i : IsScheme(h, s)
      BY <1>1, Zenon DEF Knows
    <2> QED BY <2>1, ParamsKnown
  <1>13. Knows(g, q)
    BY <1>3, <1>5, <1>10, <1>11, <1>12, Zenon DEF Knows
  <1> QED BY <1>1, <1>2, <1>3, <1>4, <1>13, Zenon DEF ParserInv

(* The reading of a lexeme that is neither a comma nor a scheme nor a      *)
(* parameter, and that belongs where it stands.                            *)
LEMMA Token68Taken ==
  ASSUME NEW h, NEW x, NEW g, Grown(h, x, g), NEW p, ParserInv(h, p), p.ok,
         x.kind # "comma", x.kind # "param", ~IsScheme(g, Len(h) + 1),
         WellFormed(g), p.challenges # <<>>, ~p.sawComma
  PROVE  ParserInv(g, [p EXCEPT !.state = "token68"])
  <1>1. g \in Seq(Lexeme) /\ p \in Parser /\ WellFormed(h) /\ Knows(h, p)
    BY DEF ParserInv, Grown
  <1>2. PICK q : q = [p EXCEPT !.state = "token68"]
    OBVIOUS
  <1>3. /\ q \in Parser /\ q.ok /\ ~q.sawComma /\ q.state = "token68"
        /\ q.challenges = p.challenges
    BY <1>1, <1>2 DEF Parser
  <1>4. /\ Len(h) + 1 \in DOMAIN g /\ Len(h) + 1 \in Content(g)
        /\ \A i \in Content(g) : i <= Len(h) + 1
        /\ g[Len(h) + 1] = x /\ ~AfterComma(g)
    BY LastKnown
  <1>5. LastRead(g, Len(h) + 1, q.state)
    BY <1>3, <1>4 DEF LastRead
  <1>6. \E at \in [1..Len(q.challenges) -> DOMAIN g] : Listed(g, q.challenges, at)
    <2>1. PICK at \in [1..Len(p.challenges) -> DOMAIN h] : Listed(h, p.challenges, at)
      BY <1>1, Zenon DEF Knows
    <2>2. at \in [1..Len(p.challenges) -> DOMAIN g] /\ Listed(g, p.challenges, at)
      BY <2>1, ListStays
    <2> QED BY <1>3, <2>2
  <1>7. \A i \in DOMAIN g : g[i].kind = "param" => \E s \in 1..i : IsScheme(g, s)
    <2>1. \A i \in DOMAIN h : h[i].kind = "param" => \E s \in 1..i : IsScheme(h, s)
      BY <1>1, Zenon DEF Knows
    <2> QED BY <2>1, ParamsKnown
  <1>8. Knows(g, q)
    BY <1>3, <1>4, <1>5, <1>6, <1>7, Zenon DEF Knows
  <1> QED BY <1>1, <1>2, <1>3, <1>8, Zenon DEF ParserInv

(* Padding follows a scheme.                                               *)
LEMMA PadTaken ==
  ASSUME NEW h, NEW x, NEW g, Grown(h, x, g), NEW p, ParserInv(h, p), p.ok,
         x.kind = "pad"
  PROVE  ParserInv(g, TakeToken68Padding(p))
  <1>1. g \in Seq(Lexeme) /\ p \in Parser /\ WellFormed(h) /\ Knows(h, p)
    BY DEF ParserInv, Grown
  <1>2. g[Len(h) + 1] = x /\ ~IsScheme(g, Len(h) + 1)
    BY SchemesStay DEF Grown
  <1>3. FollowsScheme(g, Len(h) + 1) <=> p.state = "scheme" /\ ~p.sawComma
    BY <1>1, SchemeLast
  <1>4. WellFormed(g) <=> p.state = "scheme" /\ ~p.sawComma
    <2>1. NewSignal(h, x, g)
      BY DEF NewSignal
    <2>2. Allowed(g, Len(h) + 1) <=> FollowsScheme(g, Len(h) + 1)
      BY <1>2 DEF Allowed
    <2> QED BY <1>1, <1>3, <2>1, <2>2, WellFormedGrows
  <1>5. CASE p.state = "scheme" /\ ~p.sawComma
    <2>1. p.challenges # <<>>
      BY <1>1, <1>5 DEF Knows
    <2>2. TakeToken68Padding(p) = [p EXCEPT !.state = "token68"]
      BY <1>5 DEF TakeToken68Padding
    <2> QED BY <1>2, <1>4, <1>5, <2>1, <2>2, Token68Taken
  <1>6. CASE ~(p.state = "scheme" /\ ~p.sawComma)
    <2>1. TakeToken68Padding(p) = Malformed(p)
      BY <1>6 DEF TakeToken68Padding
    <2> QED BY <1>1, <1>4, <1>6, <2>1, Refused
  <1> QED BY <1>5, <1>6

(* After a parameter that belongs where it stands.                         *)
LEMMA ParamKnown ==
  ASSUME NEW h, NEW x, NEW g, Grown(h, x, g), x.kind = "param", WellFormed(g),
         \A i \in DOMAIN h : h[i].kind = "param" => \E s \in 1..i : IsScheme(h, s),
         \E s \in 1..Len(h) : IsScheme(h, s),
         NEW q \in Parser, q.ok, ~q.sawComma, q.state = "params", q.challenges # <<>>,
         \E at \in [1..Len(q.challenges) -> DOMAIN g] : Listed(g, q.challenges, at)
  PROVE  ParserInv(g, q)
  <1>1. /\ Len(h) + 1 \in DOMAIN g /\ Len(h) + 1 \in Content(g)
        /\ \A i \in Content(g) : i <= Len(h) + 1
        /\ g[Len(h) + 1] = x /\ ~AfterComma(g)
    BY LastKnown
  <1>2. LastRead(g, Len(h) + 1, q.state)
    BY <1>1 DEF LastRead
  <1>3. \A i \in DOMAIN g : g[i].kind = "param" => \E s \in 1..i : IsScheme(g, s)
    BY ParamsKnown
  <1>4. Knows(g, q)
    BY <1>1, <1>2, <1>3, Zenon DEF Knows
  <1>5. g \in Seq(Lexeme)
    BY DEF Grown
  <1> QED BY <1>4, <1>5, Zenon DEF ParserInv

(* Where a parameter belongs.                                              *)
LEMMA ParamBelongs ==
  ASSUME NEW h, NEW x, NEW g, Grown(h, x, g), NEW p \in Parser, Knows(h, p),
         x.kind = "param"
  PROVE  /\ Allowed(g, Len(h) + 1) <=> \/ p.state = "scheme" /\ ~p.sawComma
                                       \/ p.state = "params" /\ p.sawComma
         /\ p.state = "boundary" => p.challenges = <<>>
  <1>1. g[Len(h) + 1] = x /\ h \in Seq(Lexeme)
    BY DEF Grown
  <1>2. FollowsScheme(g, Len(h) + 1) <=> p.state = "scheme" /\ ~p.sawComma
    BY SchemeLast
  <1>3. p.sawComma <=> AfterComma(h)
    BY DEF Knows
  <1> DEFINE Goes == /\ Previous(g, Len(h) + 1) # 0
                     /\ g[Previous(g, Len(h) + 1)].kind = "param"
                     /\ g[(Len(h) + 1) - 1].kind = "comma"
  <1>4. Goes <=> p.state = "params" /\ p.sawComma
    <2>1. CASE p.state = "boundary" /\ Content(h) = {}
      BY <2>1, LastIsPrevious
    <2>2. CASE \E l \in DOMAIN h : LastRead(h, l, p.state)
      <3>1. PICK l \in DOMAIN h : LastRead(h, l, p.state)
        BY <2>2
      <3>2. Previous(g, Len(h) + 1) = l /\ g[l] = h[l] /\ l # 0
        <4>1. l \in Content(h) /\ \A i \in Content(h) : i <= l
          BY <3>1, Zenon DEF LastRead
        <4> QED BY <4>1, LastIsPrevious
      <3>3. h[l].kind = "param" <=> p.state = "params"
        BY <3>1 DEF LastRead, IsScheme
      <3>4. h # <<>>
        BY <3>1
      <3>5. g[(Len(h) + 1) - 1] = h[Len(h)]
        BY <3>4, LastFollows
      <3>6. AfterComma(h) <=> h[Len(h)].kind = "comma"
        BY <3>4 DEF AfterComma
      <3> QED BY <1>3, <3>2, <3>3, <3>5, <3>6
    <2> QED BY <2>1, <2>2, Zenon DEF Knows
  <1>5. Allowed(g, Len(h) + 1) <=> FollowsScheme(g, Len(h) + 1) \/ Goes
    BY <1>1 DEF Allowed
  <1>6. ASSUME p.state = "boundary", p.challenges # <<>> PROVE FALSE
    <2>1. Content(h) = {}
      <3>1. ~ \E l \in DOMAIN h : LastRead(h, l, p.state)
        BY <1>6 DEF LastRead
      <3> QED BY <3>1, Zenon DEF Knows
    <2>2. PICK at \in [1..Len(p.challenges) -> DOMAIN h] : Listed(h, p.challenges, at)
      BY Zenon DEF Knows
    <2>3. 1 \in 1..Len(p.challenges)
      <3>1. p.challenges \in Seq(Challenge)
        BY DEF Parser
      <3>2. PICK m \in Nat : m = Len(p.challenges)
        BY <3>1
      <3>3. m # 0
        BY <1>6, <3>1, <3>2, EmptySeq
      <3>4. 1 \in 1..m
        BY <3>3
      <3> QED BY <3>2, <3>4
    <2>4. at[1] \in DOMAIN h /\ IsScheme(h, at[1])
      <3>1. at[1] \in DOMAIN h
        BY <2>3
      <3> QED BY <2>2, <2>3, <3>1, Zenon DEF Listed
    <2>5. at[1] \in Content(h)
      BY <2>4 DEF IsScheme, Content
    <2> QED BY <2>1, <2>5
  <1> HIDE DEF Goes
  <1> QED BY <1>2, <1>4, <1>5, <1>6

(* A parameter goes to the scheme before it, where it belongs.             *)
LEMMA ParamTaken ==
  ASSUME NEW h, NEW x, NEW g, Grown(h, x, g), NEW p, ParserInv(h, p), p.ok,
         x.kind = "param"
  PROVE  ParserInv(g, TakeAuthParam(p, x))
  <1>1. /\ g \in Seq(Lexeme) /\ h \in Seq(Lexeme) /\ x \in Lexeme /\ p \in Parser
        /\ WellFormed(h) /\ Knows(h, p)
    BY DEF ParserInv, Grown
  <1>2. g[Len(h) + 1] = x /\ ~IsScheme(g, Len(h) + 1)
    BY SchemesStay DEF Grown
  <1> DEFINE belongs == \/ p.state = "scheme" /\ ~p.sawComma
                        \/ p.state = "params" /\ p.sawComma
  <1>3. /\ Allowed(g, Len(h) + 1) <=> belongs
        /\ p.state = "boundary" => p.challenges = <<>>
    BY <1>1, ParamBelongs
  <1>4. WellFormed(g) <=> belongs /\ NewSignal(h, x, g)
    BY <1>1, <1>3, WellFormedGrows
  <1>5. CASE ~belongs
    <2>1. TakeAuthParam(p, x) = Malformed(p)
      <3>1. p.state \in {"boundary", "scheme", "params", "token68"} /\ p.sawComma \in BOOLEAN
        BY <1>1 DEF Parser
      <3> QED BY <1>3, <1>5, <3>1 DEF TakeAuthParam
    <2> QED BY <1>1, <1>4, <1>5, <2>1, Refused
  <1>6. CASE belongs
    <2>1. p.challenges # <<>> /\ p.challenges \in Seq(Challenge)
      BY <1>1, <1>6 DEF Knows, Parser
    <2>2. PICK m \in Nat : m = Len(p.challenges)
      BY <2>1
    <2>3. m # 0
      BY <2>1, <2>2, EmptySeq
    <2>4. PICK at \in [1..m -> DOMAIN h] : Listed(h, p.challenges, at)
      BY <1>1, <2>2, Zenon DEF Knows
    <2>5. OwnScheme(g, Len(h) + 1) = at[m] /\ at[m] \in 1..Len(h) /\ IsScheme(h, at[m])
      BY <2>2, <2>3, <2>4, LastScheme
    <2>6. m \in 1..m /\ \A k \in 1..m : at[k] = at[m] => k = m
      <3>1. m \in 1..m
        BY <2>3
      <3>2. DOMAIN h = 1..Len(h) /\ Len(h) \in Nat
        BY Lengths
      <3>3. ASSUME NEW k \in 1..m, k # m PROVE at[k] # at[m]
        <4>1. k < m
          BY <3>3
        <4>2. at[k] < at[m]
          BY <2>2, <2>4, <3>1, <4>1, Zenon DEF Listed
        <4> QED BY <3>2, <4>2
      <3> QED BY <3>1, <3>3
    <2>7. PICK params : params = p.challenges[m].params
      OBVIOUS
    <2>8. \A name : name \in Names(params) <=> \E i \in OwnParams(h, at[m]) : h[i].text = name
      BY <2>2, <2>4, <2>6, <2>7, ZenonT(60) DEF Listed
    <2>9. NewSignal(h, x, g) <=> (x.text \in Signals => x.text \notin Names(params))
      <3>1. DOMAIN h = 1..Len(h)
        BY Lengths
      <3>2. \A i : i \in OwnParams(h, at[m])
              <=> i \in 1..Len(h) /\ h[i].kind = "param" /\ OwnScheme(h, i) = at[m]
        BY <3>1 DEF OwnParams
      <3>3. x.text \in Names(params)
              <=> \E i \in 1..Len(h) : /\ h[i].kind = "param" /\ h[i].text = x.text
                                       /\ OwnScheme(h, i) = at[m]
        <4>1. x.text \in Names(params) <=> \E i \in OwnParams(h, at[m]) : h[i].text = x.text
          BY <2>8
        <4> QED BY <3>2, <4>1, Zenon
      <3> QED BY <2>5, <3>3, Zenon DEF NewSignal
    <2>10. TakeAuthParam(p, x) = PutParam(p, x)
      BY <1>6, <2>1 DEF TakeAuthParam
    <2>11. \A i \in DOMAIN h : h[i].kind = "param" => \E s \in 1..i : IsScheme(h, s)
      BY <1>1, Zenon DEF Knows
    <2>12. CASE x.text \in Names(params) /\ x.text \in Signals
      <3>1. PutParam(p, x) = Malformed(p)
        BY <2>2, <2>7, <2>12 DEF PutParam
      <3> QED BY <1>1, <1>4, <2>9, <2>10, <2>12, <3>1, Refused
    <2>13. CASE x.text \in Names(params) /\ x.text \notin Signals
      <3>1. PICK q : q = [p EXCEPT !.state = "params", !.sawComma = FALSE]
        OBVIOUS
      <3>2. PutParam(p, x) = q
        BY <2>2, <2>7, <2>13, <3>1 DEF PutParam
      <3>3. /\ q \in Parser /\ q.ok /\ ~q.sawComma /\ q.state = "params"
            /\ q.challenges = p.challenges
        BY <1>1, <3>1 DEF Parser
      <3>4. WellFormed(g)
        BY <1>4, <1>6, <2>9, <2>13
      <3>5. at \in [1..m -> DOMAIN g] /\ Listed(g, p.challenges, at)
        <4>1. \A k \in 1..m : OwnScheme(g, Len(h) + 1) = at[k]
                                => x.text \in Names(p.challenges[k].params)
          BY <2>5, <2>6, <2>7, <2>13
        <4>2. x.kind = "param" => /\ x.text \notin Signals
                                  /\ \A k \in 1..Len(p.challenges) :
                                       OwnScheme(g, Len(h) + 1) = at[k]
                                       => x.text \in Names(p.challenges[k].params)
          BY <2>2, <2>13, <4>1
        <4>3. at \in [1..Len(p.challenges) -> DOMAIN h]
          BY <2>2
        <4>4. at \in [1..Len(p.challenges) -> DOMAIN g] /\ Listed(g, p.challenges, at)
          BY <1>2, <2>4, <4>2, <4>3, ListStays, Zenon
        <4> QED BY <2>2, <4>4
      <3>6. \E s \in 1..Len(h) : IsScheme(h, s)
        BY <2>5
      <3>7. \E f \in [1..Len(q.challenges) -> DOMAIN g] : Listed(g, q.challenges, f)
        BY <2>2, <3>3, <3>5, Zenon
      <3>8. q.challenges # <<>>
        BY <2>1, <3>3
      <3>9. ParserInv(g, q)
        BY <2>11, <3>3, <3>4, <3>6, <3>7, <3>8, ParamKnown
      <3> QED BY <2>10, <3>2, <3>9
    <2>14. CASE x.text \notin Names(params)
      <3> DEFINE one == [name |-> x.text, value |-> x.value]
                 ds == [p.challenges EXCEPT ![m].params = params \cup {one}]
      <3>1. PICK q : q = [p EXCEPT !.state = "params", !.sawComma = FALSE, !.challenges = ds]
        OBVIOUS
      <3>2. PutParam(p, x) = q
        BY <2>2, <2>7, <2>14, <3>1 DEF PutParam
      <3>3. ds \in Seq(Challenge) /\ Len(ds) = m
        <4>1. one \in Param
          BY <1>1 DEF Param
        <4>2. p.challenges[m] \in Challenge
          BY <2>1, <2>2, <2>6
        <4>3. [p.challenges[m] EXCEPT !.params = params \cup {one}] \in Challenge
          BY <2>7, <4>1, <4>2 DEF Challenge
        <4>4. ds = [p.challenges EXCEPT ![m] = [p.challenges[m] EXCEPT !.params = params \cup {one}]]
          OBVIOUS
        <4> QED BY <2>1, <2>2, <2>6, <4>3, <4>4
      <3>4. /\ \A k \in 1..m : k # m => ds[k] = p.challenges[k]
            /\ ds[m].scheme = p.challenges[m].scheme
            /\ ds[m].params = p.challenges[m].params \cup {[name |-> x.text, value |-> x.value]}
        <4>1. DOMAIN p.challenges = 1..m
          BY <2>1, <2>2
        <4>2. p.challenges[m] \in Challenge
          BY <2>1, <2>2, <2>6
        <4> QED BY <2>6, <2>7, <4>1, <4>2 DEF Challenge
      <3> HIDE DEF ds
      <3>5. /\ q \in Parser /\ q.ok /\ ~q.sawComma /\ q.state = "params"
            /\ q.challenges = ds
        BY <1>1, <3>1, <3>3 DEF Parser
      <3>6. WellFormed(g)
        BY <1>4, <1>6, <2>9, <2>14
      <3>7. at \in [1..m -> DOMAIN g] /\ Listed(g, ds, at)
        BY <2>2, <2>3, <2>4, <3>3, <3>4, ListGetsParam, SMTT(60)
      <3>8. \E s \in 1..Len(h) : IsScheme(h, s)
        BY <2>5
      <3>9. \E f \in [1..Len(q.challenges) -> DOMAIN g] : Listed(g, q.challenges, f)
        BY <3>3, <3>5, <3>7, Zenon
      <3>10. q.challenges # <<>>
        BY <2>3, <3>3, <3>5
      <3>11. ParserInv(g, q)
        BY <2>11, <3>5, <3>6, <3>8, <3>9, <3>10, ParamKnown
      <3> QED BY <2>10, <3>2, <3>11
    <2> QED BY <2>12, <2>13, <2>14
  <1> QED BY <1>5, <1>6

(* A word starts a challenge after a comma, and completes one otherwise.   *)
LEMMA WordTaken ==
  ASSUME NEW h, NEW x, NEW g, Grown(h, x, g), NEW p, ParserInv(h, p), p.ok,
         x.kind \in {"word", "slashed", "odd"}
  PROVE  ParserInv(g, TakeBareWord(p, x))
  <1>1. /\ g \in Seq(Lexeme) /\ h \in Seq(Lexeme) /\ x \in Lexeme /\ p \in Parser
        /\ WellFormed(h) /\ Knows(h, p) /\ g[Len(h) + 1] = x
    BY DEF ParserInv, Grown
  <1>2. (p.sawComma <=> AfterComma(h)) /\ p.sawComma \in BOOLEAN
    BY <1>1 DEF Knows, Parser
  <1>3. IsScheme(g, Len(h) + 1) <=> p.sawComma
    BY <1>2, SchemesStay
  <1>4. FollowsScheme(g, Len(h) + 1) <=> p.state = "scheme" /\ ~p.sawComma
    BY <1>1, SchemeLast
  <1>5. WellFormed(g) <=> IF p.sawComma THEN IsHttpToken(x)
                          ELSE p.state = "scheme" /\ IsToken68(x)
    <2>1. NewSignal(h, x, g)
      BY DEF NewSignal
    <2>2. Allowed(g, Len(h) + 1) <=> IF IsScheme(g, Len(h) + 1) THEN IsHttpToken(x)
                                     ELSE FollowsScheme(g, Len(h) + 1) /\ IsToken68(x)
      BY <1>1 DEF Allowed
    <2> QED BY <1>1, <1>2, <1>3, <1>4, <2>1, <2>2, WellFormedGrows
  <1>6. CASE p.sawComma /\ IsHttpToken(x)
    <2>1. PICK one : one = [scheme |-> x.text, params |-> {}]
      OBVIOUS
    <2>2. one \in Challenge
      BY <1>1, <2>1 DEF Challenge
    <2>3. PICK ds : ds = Append(p.challenges, one)
      OBVIOUS
    <2>4. p.challenges \in Seq(Challenge)
      BY <1>1 DEF Parser
    <2>5. /\ ds \in Seq(Challenge) /\ Len(ds) = Len(p.challenges) + 1
          /\ \A k \in 1..Len(p.challenges) : ds[k] = p.challenges[k]
          /\ ds[Len(p.challenges) + 1] = one
      BY <2>2, <2>3, <2>4
    <2>6. PICK q : q = [p EXCEPT !.challenges = ds, !.state = "scheme", !.sawComma = FALSE]
      OBVIOUS
    <2>7. TakeBareWord(p, x) = q
      BY <1>6, <2>1, <2>3, <2>6 DEF TakeBareWord
    <2>8. /\ q \in Parser /\ q.ok /\ ~q.sawComma /\ q.state = "scheme" /\ q.challenges = ds
      BY <1>1, <2>5, <2>6 DEF Parser
    <2>9. PICK at \in [1..Len(p.challenges) -> DOMAIN h] : Listed(h, p.challenges, at)
      BY <1>1, Zenon DEF Knows
    <2>10. \A i \in DOMAIN h : h[i].kind = "param" => \E s \in 1..i : IsScheme(h, s)
      BY <1>1, Zenon DEF Knows
    <2>11. \E later \in [1..Len(ds) -> DOMAIN g] : Listed(g, ds, later)
      BY <1>3, <1>6, <2>1, <2>4, <2>5, <2>9, <2>10, ListGetsScheme
    <2>12. /\ Len(h) + 1 \in DOMAIN g /\ Len(h) + 1 \in Content(g)
           /\ \A i \in Content(g) : i <= Len(h) + 1
           /\ g[Len(h) + 1] = x /\ ~AfterComma(g)
      BY LastKnown
    <2>13. LastRead(g, Len(h) + 1, q.state)
      BY <1>3, <1>6, <2>8, <2>12 DEF LastRead
    <2>14. \A i \in DOMAIN g : g[i].kind = "param" => \E s \in 1..i : IsScheme(g, s)
      BY <2>10, ParamsKnown
    <2>15. q.challenges # <<>>
      <3>1. Len(p.challenges) \in Nat
        BY <2>4
      <3>2. PICK m \in Nat : m = Len(p.challenges)
        BY <3>1
      <3>3. Len(ds) = m + 1 /\ m + 1 # 0
        BY <2>5, <3>2
      <3> QED BY <2>8, <3>3
    <2>16. Knows(g, q)
      BY <2>8, <2>11, <2>12, <2>13, <2>14, <2>15, Zenon DEF Knows
    <2>17. WellFormed(g)
      BY <1>5, <1>6
    <2> QED BY <1>1, <2>7, <2>8, <2>16, <2>17, Zenon DEF ParserInv
  <1>7. CASE ~p.sawComma /\ p.state = "scheme" /\ IsToken68(x)
    <2>1. p.challenges # <<>>
      BY <1>1, <1>7 DEF Knows
    <2>2. TakeBareWord(p, x) = [p EXCEPT !.state = "token68"]
      BY <1>7 DEF TakeBareWord
    <2>3. WellFormed(g) /\ ~IsScheme(g, Len(h) + 1)
      BY <1>3, <1>5, <1>7
    <2> QED BY <1>7, <2>1, <2>2, <2>3, Token68Taken
  <1>8. CASE /\ ~(p.sawComma /\ IsHttpToken(x))
             /\ ~(~p.sawComma /\ p.state = "scheme" /\ IsToken68(x))
    <2>1. TakeBareWord(p, x) = Malformed(p)
      BY <1>8 DEF TakeBareWord
    <2>2. ~WellFormed(g)
      BY <1>2, <1>5, <1>8
    <2> QED BY <1>1, <2>1, <2>2, Refused
  <1> QED BY <1>6, <1>7, <1>8

(* Every lexeme is read as the grammar has it.                             *)
LEMMA LexemeRead ==
  ASSUME NEW h, NEW x, NEW g, Grown(h, x, g), NEW p, ParserInv(h, p)
  PROVE  ParserInv(g, ConsumeToken(p, x))
  <1>1. g \in Seq(Lexeme) /\ x \in Lexeme /\ p \in Parser /\ g[Len(h) + 1] = x
    BY DEF ParserInv, Grown
  <1>2. x.kind \in {"comma", "word", "slashed", "odd", "pad", "param", "bad"}
        /\ p.ok \in BOOLEAN
    BY <1>1, LexemeAssumption DEF Kinds, Parser
  <1>3. CASE ~p.ok
    <2>1. ~WellFormed(g)
      BY <1>3, WellFormedGrows DEF ParserInv
    <2>2. ConsumeToken(p, x) = p
      BY <1>3 DEF ConsumeToken
    <2> QED BY <1>1, <1>3, <2>1, <2>2, Refused
  <1>4. CASE p.ok /\ x.kind = "comma"
    <2>1. ConsumeToken(p, x) = TakeComma(p)
      BY <1>4 DEF ConsumeToken
    <2> QED BY <1>4, <2>1, CommaTaken
  <1>5. CASE p.ok /\ x.kind = "pad"
    <2>1. ConsumeToken(p, x) = TakeToken68Padding(p)
      BY <1>5 DEF ConsumeToken
    <2> QED BY <1>5, <2>1, PadTaken
  <1>6. CASE p.ok /\ x.kind = "param"
    <2>1. ConsumeToken(p, x) = TakeAuthParam(p, x)
      BY <1>6 DEF ConsumeToken
    <2> QED BY <1>6, <2>1, ParamTaken
  <1>7. CASE p.ok /\ x.kind \in {"word", "slashed", "odd"}
    <2>1. ConsumeToken(p, x) = TakeBareWord(p, x)
      BY <1>7 DEF ConsumeToken
    <2> QED BY <1>7, <2>1, WordTaken
  <1>8. CASE p.ok /\ x.kind = "bad"
    <2>1. ConsumeToken(p, x) = Malformed(p)
      BY <1>8 DEF ConsumeToken
    <2>2. ~Allowed(g, Len(h) + 1)
      BY <1>1, <1>8 DEF Allowed
    <2>3. ~WellFormed(g)
      BY <1>8, <2>2, WellFormedGrows
    <2> QED BY <1>1, <2>1, <2>3, Refused
  <1> QED BY <1>2, <1>3, <1>4, <1>5, <1>6, <1>7, <1>8

LEMMA HeadersAreRead == ChallengesSpec => []HeaderInv
  <1>1. ChallengesInit => HeaderInv
    <2> SUFFICES ASSUME ChallengesInit PROVE ParserInv(header, parsed)
      BY DEF HeaderInv
    <2>1. header = <<>> /\ parsed = NewParser
      BY DEF ChallengesInit
    <2>2. header \in Seq(Lexeme) /\ DOMAIN header = {} /\ Content(header) = {}
      BY <2>1 DEF Content
    <2>3. /\ parsed \in Parser /\ parsed.ok /\ parsed.sawComma /\ parsed.state = "boundary"
          /\ parsed.challenges = <<>>
      BY <2>1 DEF NewParser, Parser
    <2>4. WellFormed(header) /\ AfterComma(header)
      BY <2>1, <2>2 DEF WellFormed, SignalsOnce, AfterComma
    <2>5. \E at \in [1..Len(parsed.challenges) -> DOMAIN header] :
             Listed(header, parsed.challenges, at)
      <3>1. 1..Len(parsed.challenges) = {}
        BY <2>3
      <3>2. PICK at : at \in [1..Len(parsed.challenges) -> DOMAIN header]
        <4>1. [k \in 1..Len(parsed.challenges) |-> k]
                \in [1..Len(parsed.challenges) -> DOMAIN header]
          BY <3>1
        <4> QED BY <4>1
      <3>3. Listed(header, parsed.challenges, at)
        BY <2>2, <3>1, Zenon DEF Listed
      <3> QED BY <3>2, <3>3
    <2>6. Knows(header, parsed)
      BY <2>2, <2>3, <2>4, <2>5, Zenon DEF Knows
    <2> QED BY <2>2, <2>3, <2>4, <2>6, Zenon DEF ParserInv
  <1>2. HeaderInv /\ [ChallengesNext]_challengeVars => HeaderInv'
    <2> SUFFICES ASSUME ParserInv(header, parsed), [ChallengesNext]_challengeVars
                 PROVE  ParserInv(header', parsed')
      BY DEF HeaderInv
    <2>1. CASE UNCHANGED challengeVars
      BY <2>1 DEF challengeVars
    <2>2. CASE ReadLexeme
      <3>1. PICK x \in Lexeme : header' = Append(header, x) /\ parsed' = ConsumeToken(parsed, x)
        BY <2>2 DEF ReadLexeme
      <3>2. header \in Seq(Lexeme)
        BY DEF ParserInv
      <3>3. PICK g : g = header'
        OBVIOUS
      <3>4. Grown(header, x, Append(header, x))
        BY <3>2, AppendGrows
      <3>5. Grown(header, x, g)
        BY <3>1, <3>3, <3>4, Zenon
      <3>6. ParserInv(g, ConsumeToken(parsed, x))
        BY <3>5, LexemeRead
      <3> QED BY <3>1, <3>3, <3>6, Zenon
    <2> QED BY <2>1, <2>2 DEF ChallengesNext
  <1> QED BY <1>1, <1>2, PTL DEF ChallengesSpec

LEMMA Deeper ==
  ASSUME NEW last \in Nat, NEW d \in Nat, d < last, NEW inner \in BOOLEAN, NEW next,
         next = (d + 1 < last /\ last <= 9 /\ inner)
  PROVE  (d < last /\ last <= 9 /\ inner)
           <=> (d <= 8 /\ d < last /\ ((d + 1 = last /\ inner) \/ next))
  <1>1. CASE d + 1 = last
    <2>1. ~next
      <3>1. ~(d + 1 < last)
        BY <1>1
      <3> QED BY <3>1, Zenon
    <2>2. last <= 9 <=> d <= 8
      BY <1>1
    <2> QED BY <1>1, <2>1, <2>2, Zenon
  <1>2. CASE d + 1 < last
    <2>1. next <=> last <= 9 /\ inner
      BY <1>2, Zenon
    <2>2. last <= 9 => d <= 8
      BY <1>2
    <2>3. d + 1 # last
      BY <1>2
    <2> QED BY <2>1, <2>2, <2>3, Zenon
  <1>3. d + 1 = last \/ d + 1 < last
    OBVIOUS
  <1> QED BY <1>1, <1>2, <1>3

(* What is looked for in a nest of lists and objects is found in the       *)
(* innermost object, nine levels deep at most.                             *)
LEMMA BodySays ==
  ASSUME NEW b, b.inside \in Seq({"list", "object"})
  PROVE  DetectFromBody(b) <=> /\ Says(b) /\ b.inside # <<>> /\ Len(b.inside) <= 9
                               /\ b.inside[Len(b.inside)] = "object"
  <1>1. PICK last \in Nat : last = Len(b.inside)
    OBVIOUS
  <1>2. PICK inner \in BOOLEAN : inner <=> b.inside[last] = "object" /\ Says(b)
    OBVIOUS
  <1> DEFINE Sees(f, d) == /\ d <= MaxDepth /\ d < last
                           /\ \/ d + 1 = last /\ b.inside[last] = "object" /\ Says(b)
                              \/ f[d + 1]
             sees == CHOOSE f : f = [d \in 0..last |-> Sees(f, d)]
             Value(d) == d < last /\ last <= 9 /\ inner
             witness == [d \in 0..last |-> Value(d)]
  <1>3. DetectFromStructured(b) <=> sees[0]
    BY <1>1 DEF DetectFromStructured
  <1>4. witness = [d \in 0..last |-> Sees(witness, d)]
    <2>1. ASSUME NEW d \in 0..last PROVE Value(d) = Sees(witness, d)
      <3>1. CASE d = last
        <4>1. ~(d < last)
          BY <3>1
        <4> QED BY <4>1, Zenon
      <3>2. CASE d < last
        <4>1. d \in Nat /\ d + 1 \in 0..last
          BY <3>2
        <4>2. witness[d + 1] = Value(d + 1)
          BY <4>1
        <4> HIDE DEF witness
        <4>3. Value(d) <=> Sees(witness, d)
          BY <1>2, <3>2, <4>1, <4>2, Deeper DEF MaxDepth
        <4> QED BY <4>3
      <3>3. d = last \/ d < last
        OBVIOUS
      <3> QED BY <3>1, <3>2, <3>3
    <2> QED BY <2>1
  <1>5. sees = [d \in 0..last |-> Sees(sees, d)]
    <2> HIDE DEF witness, Sees
    <2> QED BY <1>4, Zenon
  <1>6. \A d \in 0..last : sees[d] = Sees(sees, d)
    <2> HIDE DEF sees, Sees
    <2> QED BY <1>5
  <1> HIDE DEF sees
  <1>7. sees[0] = Value(0)
    <2> DEFINE wrong == {d \in 1..(last + 1) : sees[d - 1] # Value(d - 1)}
    <2>1. ASSUME wrong # {} PROVE FALSE
      <3>1. PICK n \in wrong : \A m \in wrong : m <= n
        <4>1. wrong \in SUBSET (1..(last + 1)) /\ last + 1 \in Nat
          OBVIOUS
        <4> HIDE DEF wrong
        <4> QED BY <2>1, <4>1, GreatestOf
      <3>2. PICK d \in 0..last : d = n - 1 /\ n = d + 1
        OBVIOUS
      <3>3. sees[d] # Value(d)
        BY <3>2
      <3>4. d < last => sees[d + 1] = Value(d + 1)
        <4>1. ASSUME d < last PROVE ~(n + 1 \in wrong) /\ n + 1 \in 1..(last + 1) /\ (n + 1) - 1 = d + 1
          <5>1. n + 1 \in 1..(last + 1) /\ (n + 1) - 1 = d + 1 /\ ~(n + 1 <= n)
            BY <3>2, <4>1
          <5> HIDE DEF wrong
          <5> QED BY <3>1, <5>1
        <4> QED BY <4>1
      <3>5. sees[d] = Sees(sees, d)
        BY <1>6
      <3> HIDE DEF wrong
      <3>6. CASE d < last
        <4>1. d \in Nat /\ sees[d + 1] = Value(d + 1)
          BY <3>4, <3>6
        <4>2. Value(d) <=> Sees(sees, d)
          BY <1>2, <3>6, <4>1, Deeper DEF MaxDepth
        <4> QED BY <3>3, <3>5, <4>2
      <3>7. CASE d = last
        <4>1. ~(d < last)
          BY <3>7
        <4> QED BY <3>3, <3>5, <4>1, Zenon
      <3>8. d = last \/ d < last
        OBVIOUS
      <3> QED BY <3>6, <3>7, <3>8
    <2>2. 1 \in 1..(last + 1) /\ 1 - 1 = 0
      OBVIOUS
    <2> QED BY <2>1, <2>2
  <1>8. b.inside # <<>> <=> 0 < last
    BY <1>1, EmptySeq
  <1>9. DetectFromStructured(b) <=> /\ Says(b) /\ b.inside # <<>> /\ Len(b.inside) <= 9
                                    /\ b.inside[Len(b.inside)] = "object"
    BY <1>1, <1>2, <1>3, <1>7, <1>8
  <1>10. Says(b) => b.says # "broken"
    BY DEF Says
  <1> QED BY <1>9, <1>10, Zenon DEF DetectFromBody

(* A challenge says that a scope is missing exactly when its scheme is     *)
(* reported, and the first that says so names the scopes of that scheme.   *)
Foremost(h) == CHOOSE s \in Reported(h) : \A t \in Reported(h) : s <= t

LEMMA HeaderSays ==
  ASSUME NEW h, NEW p, ParserInv(h, p)
  PROVE  DetectFromChallenge(p) = IF WellFormed(h) /\ Reported(h) # {}
                                  THEN {[required |-> ScopesOf(h, Foremost(h))]} ELSE {}
  <1>1. h \in Seq(Lexeme) /\ p \in Parser /\ (p.ok <=> WellFormed(h))
    BY DEF ParserInv
  <1>2. CASE ~p.ok
    BY <1>1, <1>2 DEF DetectFromChallenge
  <1>3. CASE p.ok
    <2>1. PICK cs \in Seq(Challenge) : cs = p.challenges
      BY <1>1 DEF Parser
    <2>2. PICK m \in Nat : m = Len(cs) /\ DOMAIN cs = 1..m
      BY <2>1
    <2>3. PICK at \in [1..m -> DOMAIN h] : Listed(h, cs, at)
      BY <1>3, <2>1, <2>2, Zenon DEF ParserInv, Knows
    <2>4. /\ \A j, k \in 1..m : j < k => at[j] < at[k]
          /\ \A i \in DOMAIN h : IsScheme(h, i) <=> \E k \in 1..m : at[k] = i
      BY <2>2, <2>3, Zenon DEF Listed
    <2>5. ASSUME NEW k \in 1..m
          PROVE  /\ cs[k].scheme = h[at[k]].text
                 /\ \A q \in cs[k].params : \E i \in OwnParams(h, at[k]) : q = Read(h, i)
                 /\ \A i \in OwnParams(h, at[k]) :
                      h[i].text \in Signals => Read(h, i) \in cs[k].params
      BY <2>2, <2>3, <2>5, Zenon DEF Listed
    <2>6. \A k \in 1..m : at[k] \in DOMAIN h /\ IsScheme(h, at[k])
      BY <2>4
    <2>7. ASSUME NEW k \in 1..m PROVE Insufficient(cs[k]) <=> at[k] \in Reported(h)
      <3> DEFINE missing == [name |-> "error", value |-> "insufficient_scope"]
      <3>1. missing \in cs[k].params
              <=> \E i \in OwnParams(h, at[k]) :
                     h[i].text = "error" /\ h[i].value = "insufficient_scope"
        <4>1. ASSUME missing \in cs[k].params
              PROVE  \E i \in OwnParams(h, at[k]) :
                        h[i].text = "error" /\ h[i].value = "insufficient_scope"
          <5>1. PICK i \in OwnParams(h, at[k]) : missing = Read(h, i)
            BY <2>5, <4>1
          <5> QED BY <5>1 DEF Read
        <4>2. ASSUME NEW i \in OwnParams(h, at[k]),
                     h[i].text = "error" /\ h[i].value = "insufficient_scope"
              PROVE  missing \in cs[k].params
          <5>1. Read(h, i) = missing
            BY <4>2 DEF Read
          <5>2. Read(h, i) \in cs[k].params
            BY <2>5, <4>2 DEF Signals
          <5> QED BY <5>1, <5>2
        <4> QED BY <4>1, <4>2
      <3> HIDE DEF missing
      <3>2. Insufficient(cs[k]) <=> cs[k].scheme = "bearer" /\ missing \in cs[k].params
        BY DEF Insufficient, missing
      <3> QED BY <2>5, <2>6, <3>1, <3>2, Zenon DEF Reported
    <2>8. \A s \in Reported(h) : \E k \in 1..m : at[k] = s /\ Insufficient(cs[k])
      <3>1. \A s \in Reported(h) : s \in DOMAIN h /\ IsScheme(h, s)
        BY DEF Reported
      <3> QED BY <2>4, <2>7, <3>1, Zenon
    <2> DEFINE found == {i \in DOMAIN cs : Insufficient(cs[i])}
               first == CHOOSE i \in found : \A j \in found : i <= j
               scopes(params) == {q.value : q \in {r \in params : r.name = "scope"}}
    <2>9. DetectFromChallenge(p) = {[required |-> scopes(cs[first].params)] : i \in found}
      BY <1>3, <2>1 DEF DetectFromChallenge
    <2>10. CASE Reported(h) = {}
      <3>1. found = {}
        BY <2>2, <2>7, <2>10
      <3> QED BY <2>9, <2>10, <3>1
    <2>11. CASE Reported(h) # {}
      <3>1. found # {} /\ found \in SUBSET Nat
        BY <2>2, <2>8, <2>11
      <3>2. first \in found /\ \A j \in found : first <= j
        <4>1. \E n \in found : \A j \in found : n <= j
          <5> HIDE DEF found
          <5> QED BY <3>1, LeastOf
        <4> HIDE DEF found
        <4> QED BY <4>1
      <3>3. first \in 1..m /\ Insufficient(cs[first])
        BY <2>2, <3>2
      <3>4. PICK f \in 1..m : f = first
        BY <3>3
      <3>5. at[f] \in Reported(h)
        BY <2>7, <3>3, <3>4
      <3>6. \A t \in Reported(h) : at[f] <= t
        <4> SUFFICES ASSUME NEW t \in Reported(h) PROVE at[f] <= t
          OBVIOUS
        <4>1. PICK k \in 1..m : at[k] = t /\ Insufficient(cs[k])
          BY <2>8
        <4>2. f <= k
          BY <2>2, <3>2, <3>4, <4>1
        <4>3. at[f] \in 1..Len(h) /\ at[k] \in 1..Len(h)
          BY <1>1, <2>6
        <4>4. f < k => at[f] < at[k]
          BY <2>4
        <4>5. f = k \/ f < k
          BY <4>2
        <4> QED BY <4>1, <4>3, <4>4, <4>5
      <3>7. Foremost(h) = at[f]
        <4>1. Foremost(h) \in Reported(h) /\ \A t \in Reported(h) : Foremost(h) <= t
          BY <3>5, <3>6 DEF Foremost
        <4>2. Foremost(h) <= at[f] /\ at[f] <= Foremost(h)
          BY <3>5, <3>6, <4>1
        <4>3. Foremost(h) \in 1..Len(h) /\ at[f] \in 1..Len(h)
          BY <1>1, <3>5, <4>1 DEF Reported
        <4> QED BY <4>2, <4>3
      <3>8. scopes(cs[f].params) = ScopesOf(h, at[f])
        <4>1. ASSUME NEW v PROVE v \in scopes(cs[f].params) <=> v \in ScopesOf(h, at[f])
          <5>1. ASSUME v \in scopes(cs[f].params) PROVE v \in ScopesOf(h, at[f])
            <6>1. PICK q \in cs[f].params : q.name = "scope" /\ v = q.value
              BY <5>1
            <6>2. PICK i \in OwnParams(h, at[f]) : q = Read(h, i)
              BY <2>5, <6>1
            <6>3. h[i].text = "scope" /\ v = h[i].value
              BY <6>1, <6>2 DEF Read
            <6> QED BY <6>3 DEF ScopesOf
          <5>2. ASSUME v \in ScopesOf(h, at[f]) PROVE v \in scopes(cs[f].params)
            <6>1. PICK i \in OwnParams(h, at[f]) : h[i].text = "scope" /\ v = h[i].value
              BY <5>2 DEF ScopesOf
            <6>2. Read(h, i) \in cs[f].params
              BY <2>5, <6>1 DEF Signals
            <6>3. Read(h, i).name = "scope" /\ Read(h, i).value = v
              BY <6>1 DEF Read
            <6> QED BY <6>2, <6>3
          <5> QED BY <5>1, <5>2
        <4> HIDE DEF scopes
        <4> QED BY <4>1
      <3> HIDE DEF scopes, first
      <3>9. DetectFromChallenge(p) = {[required |-> scopes(cs[f].params)]}
        <4> HIDE DEF found
        <4> QED BY <2>9, <3>1, <3>4
      <3> QED BY <1>1, <1>3, <2>11, <3>7, <3>8, <3>9
    <2> QED BY <2>10, <2>11
  <1> QED BY <1>2, <1>3

(* For a header of any length, of any lexemes, and every body: the parser  *)
(* accepts exactly the grammar, a missing scope is reported exactly when   *)
(* the first reporting bearer scheme or the innermost object of the body   *)
(* says so, with the scopes of that scheme, and is never to be retried     *)
(* (parse_challenges, scope.rs).                                           *)
THEOREM ScopeErrorsRead == ChallengesSpec => []ScopeErrorsAreRead
  <1>1. HeaderInv => ScopeErrorsAreRead
    <2> SUFFICES ASSUME ParserInv(header, parsed) PROVE ScopeErrorsAreRead
      BY DEF HeaderInv
    <2>1. parsed.ok <=> WellFormed(header)
      BY DEF ParserInv
    <2>2. ASSUME NEW b \in ErrorBody
          PROVE  LET err == ToolErrorFromHttp(b.status, parsed, b)
                     byHeader == WellFormed(header) /\ Reported(header) # {}
                     byBody == /\ Says(b) /\ b.inside # <<>> /\ Len(b.inside) <= 9
                               /\ b.inside[Len(b.inside)] = "object"
                 IN /\ err.code = "oauth_scope_insufficient" <=> byHeader \/ byBody
                    /\ err.retryable => b.status >= 500 /\ ~byHeader /\ ~byBody
                    /\ byHeader => err.scopes = ScopesOf(header,
                          CHOOSE s \in Reported(header) : \A t \in Reported(header) : s <= t)
      <3> DEFINE err == ToolErrorFromHttp(b.status, parsed, b)
                 byHeader == WellFormed(header) /\ Reported(header) # {}
                 byBody == /\ Says(b) /\ b.inside # <<>> /\ Len(b.inside) <= 9
                           /\ b.inside[Len(b.inside)] = "object"
                 detected == DetectInsufficientScope(parsed, b)
                 named == [required |-> ScopesOf(header, Foremost(header))]
                 unnamed == [required |-> {}]
      <3>1. DetectFromBody(b) <=> byBody
        BY ErrorBodyAssumption, BodySays
      <3>2. DetectFromChallenge(parsed) = IF byHeader THEN {named} ELSE {}
        BY HeaderSays
      <3>3. named.required = ScopesOf(header, Foremost(header))
        OBVIOUS
      <3>4. err = IF detected # {}
                  THEN [code |-> "oauth_scope_insufficient", retryable |-> FALSE,
                        scopes |-> (CHOOSE d \in detected : TRUE).required]
                  ELSE [code |-> "http_error", retryable |-> b.status \in 500..599, scopes |-> {}]
        BY DEF ToolErrorFromHttp
      <3>5. detected = IF byHeader THEN {named} ELSE IF byBody THEN {unnamed} ELSE {}
        <4> HIDE DEF byHeader, byBody, named
        <4>1. {named} # {}
          OBVIOUS
        <4> QED BY <3>1, <3>2, <4>1 DEF DetectInsufficientScope
      <3> HIDE DEF err, byHeader, byBody, detected, named, unnamed
      <3>6. detected # {} <=> byHeader \/ byBody
        BY <3>5
      <3>7. err.code = "oauth_scope_insufficient" <=> byHeader \/ byBody
        BY <3>4, <3>6
      <3>8. err.retryable => b.status >= 500 /\ ~byHeader /\ ~byBody
        <4>1. CASE detected # {}
          BY <3>4, <4>1
        <4>2. CASE detected = {}
          <5>1. err.retryable <=> b.status \in 500..599
            BY <3>4, <4>2
          <5>2. b.status \in 500..599 => b.status >= 500
            OBVIOUS
          <5> QED BY <3>6, <4>2, <5>1, <5>2
        <4> QED BY <4>1, <4>2
      <3>9. ASSUME byHeader PROVE err.scopes = ScopesOf(header, Foremost(header))
        <4>1. detected = {named}
          BY <3>5, <3>9
        <4>2. (CHOOSE e \in detected : TRUE) = named
          BY <4>1
        <4>3. err.scopes = named.required
          BY <3>4, <4>1, <4>2
        <4> QED BY <3>3, <4>3
      <3> QED BY <3>7, <3>8, <3>9 DEF err, byHeader, byBody, Foremost
    <2> QED BY <2>1, <2>2, Zenon DEF ScopeErrorsAreRead
  <1> QED BY <1>1, HeadersAreRead, PTL

=============================================================================
