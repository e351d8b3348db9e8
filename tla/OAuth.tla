-------------------------------- MODULE OAuth --------------------------------
(***************************************************************************)
(* How a call gets the token of an OAuth connection: oauth::prepare, the   *)
(* enterprise-managed chain of ema.rs before it (discovery, exchange of    *)
(* the identity assertion for an ID-JAG, redemption), client credentials,  *)
(* and the pause for a person.  Servers answer as they like; a value of    *)
(* the connection is given or not, and blank ones are left out.            *)
(***************************************************************************)
EXTENDS Integers, FiniteSets

CONSTANTS
    OScope,          \* scopes the method asks for
    Candidates,      \* well-known URLs that discovery tries (2 or 3)
    Unnamed          \* the identity provider names no scopes

ASSUME CandidatesAssumption == Candidates \in Nat \ {0}

VARIABLES
    method,          \* [oauth, tokenUrl, authUrl]
    given,           \* the connection's values
    stage,           \* what prepare waits for
    tried,           \* candidates that had no metadata
    granted,         \* scopes the identity provider put into the ID-JAG
    result,          \* what prepare returns
    \* history, read by properties only
    refused,         \* a server refused or failed in the chain
    advertised,      \* the server's metadata had the ID-JAG profile
    redeemed,        \* what the assertion was that was redeemed
    asked            \* scopes asked for at redemption

prepareVars == <<method, given, stage, tried, granted, result, refused, advertised, redeemed,
                 asked>>

Keys == {"token", "identity_assertion", "idp_token_url", "idp_client_id", "audience",
         "client_id", "client_secret", "token_url"}
EmaKeys == {"identity_assertion", "idp_token_url", "idp_client_id", "audience", "client_id"}

PrepareInit ==
    /\ method = [oauth |-> FALSE, tokenUrl |-> FALSE, authUrl |-> FALSE]
    /\ given = {} /\ stage = "idle" /\ tried = 0 /\ granted = {} /\ result = "none"
    /\ refused = FALSE /\ advertised = FALSE /\ redeemed = "nothing" /\ asked = {}

PrepareReturns(r) == stage' = "done" /\ result' = r
GoTo(s) == stage' = s /\ UNCHANGED result

(* The wiring that mint_input_from wants. *)
EmaWired(m, keys) == EmaKeys \subseteq keys /\ (m.tokenUrl \/ "token_url" \in keys)

Prepare == \E m \in [oauth : BOOLEAN, tokenUrl : BOOLEAN, authUrl : BOOLEAN],
              keys \in SUBSET Keys, rollout \in BOOLEAN :
    /\ stage = "idle"
    /\ method' = m
    /\ given' = keys
    /\ IF ~m.oauth \/ "token" \in keys THEN PrepareReturns("as_is")
       ELSE GoTo(IF rollout /\ EmaWired(m, keys) THEN "discover" ELSE "fallback")
    /\ UNCHANGED <<tried, granted, refused, advertised, redeemed, asked>>

(* Faulty: a server that cannot be reached does not stop the fallback.     *)
FallbackUnlessDenied(err) ==
    IF err \in {"unsupported", "unavailable"} THEN GoTo("fallback") ELSE PrepareReturns("refused")

(* EmaError.may_fallback. *)
AfterEmaError(err) ==
    IF err = "unsupported" THEN GoTo("fallback") ELSE PrepareReturns("refused")

(* What a candidate answers: metadata needs an issuer and an endpoint.     *)
MetadataReply == [reached : BOOLEAN, success : BOOLEAN, issuer : BOOLEAN, endpoint : BOOLEAN,
                  idJag : BOOLEAN]
Fetched(reply) ==
    CASE ~reply.reached -> "unavailable"
      [] reply.reached /\ ~(reply.success /\ reply.issuer /\ reply.endpoint) -> "nothing"
      [] OTHER -> IF reply.idJag THEN "id-jag" ELSE "unsupported"

(* Metadata with the ID-JAG profile starts the exchange, under the issuer  *)
(* and the endpoint it names; without metadata it is unsupported.          *)
RunEnterprise == GoTo("exchange")
TryFillToken(answer) ==
    IF answer = "id-jag" THEN RunEnterprise ELSE AfterEmaError(answer)

(* The candidates in turn; the first metadata decides.                     *)
FetchMetadata == \E reply \in MetadataReply :
    LET answer == Fetched(reply) IN
    /\ stage = "discover"
    /\ CASE answer = "nothing" /\ tried + 1 < Candidates -> GoTo("discover")
         [] answer = "nothing" /\ tried + 1 >= Candidates -> TryFillToken("unsupported")
         [] OTHER -> TryFillToken(answer)
    /\ tried' = tried + 1
    /\ advertised' = (answer = "id-jag")
    /\ refused' = (answer = "unavailable")
    /\ UNCHANGED <<method, given, granted, redeemed, asked>>

(* What a token endpoint answers: its status; an error code in `error' or  *)
(* at the head of a text in `errors'; an access token and its types.       *)
Code == {"none", "invalid_grant", "access_denied"}
TokenReply == [success : BOOLEAN, code : Code, listed : BOOLEAN, token : BOOLEAN,
               types : {"id-jag", "other"}]
Rfc6749 == {"invalid_grant"}

(* In a list of texts only the codes of RFC 6749 are recognised.           *)
OauthErrorFromBody(reply) ==
    IF reply.listed /\ reply.code \notin Rfc6749 THEN "none" ELSE reply.code

ExchangeFailure(reply) ==
    CASE OauthErrorFromBody(reply) = "invalid_grant" -> "subject_token_rejected"
      [] OauthErrorFromBody(reply) = "none" -> "unavailable"
      [] OTHER -> "policy_denied"
RedemptionFailure(reply) ==
    IF OauthErrorFromBody(reply) = "none" THEN "unavailable" ELSE "redemption_rejected"

ParseIdJagBody(reply) ==
    IF reply.token /\ reply.types = "id-jag" THEN "none" ELSE "unavailable"

(* The identity provider: an ID-JAG, of the scopes it names or, naming     *)
(* none, of those asked for; or an error; or it cannot be reached.         *)
Exchange == \E reply \in TokenReply, reached \in BOOLEAN, named \in (SUBSET OScope) \cup {Unnamed} :
    LET err == CASE ~reached -> "unavailable"
                 [] reached /\ reply.success -> ParseIdJagBody(reply)
                 [] OTHER -> ExchangeFailure(reply) IN
    /\ stage = "exchange"
    /\ IF err = "none" THEN GoTo("redeem") ELSE AfterEmaError(err)
    /\ granted' = IF err # "none" THEN {} ELSE IF named = Unnamed THEN OScope ELSE named
    /\ refused' = (~reached \/ ~reply.success \/ ~reply.token \/ reply.types # "id-jag")
    /\ redeemed' = IF err = "none" THEN reply.types ELSE redeemed
    /\ UNCHANGED <<method, given, tried, advertised, asked>>

(* The resource's server, at the endpoint of its metadata.                 *)
Redeem == \E reply \in TokenReply, reached \in BOOLEAN :
    LET err == CASE ~reached -> "unavailable"
                 [] reached /\ reply.success -> IF reply.token THEN "none" ELSE "unavailable"
                 [] OTHER -> RedemptionFailure(reply) IN
    /\ stage = "redeem"
    /\ asked' = granted
    /\ IF err = "none" THEN PrepareReturns("enterprise_token") ELSE AfterEmaError(err)
    /\ refused' = (refused \/ err # "none")
    /\ UNCHANGED <<method, given, tried, granted, advertised, redeemed>>

HasClientCredentials ==
    /\ method.tokenUrl \/ "token_url" \in given
    /\ {"client_id", "client_secret"} \subseteq given

ClientCredentials == \E r \in {"client_token", "plugin_error"} :
    /\ stage = "fallback" /\ HasClientCredentials
    /\ PrepareReturns(r)
    /\ UNCHANGED <<method, given, tried, granted, refused, advertised, redeemed, asked>>

(* No client credentials: a URL for a person, or nothing that helps. *)
AskAPerson ==
    /\ stage = "fallback" /\ ~HasClientCredentials
    /\ PrepareReturns(IF method.authUrl /\ "client_id" \in given THEN "paused"
              ELSE "credential_error")
    /\ UNCHANGED <<method, given, tried, granted, refused, advertised, redeemed, asked>>

PrepareNext == Prepare \/ FetchMetadata \/ Exchange \/ Redeem \/ ClientCredentials \/ AskAPerson
PrepareSpec == PrepareInit /\ [][PrepareNext]_prepareVars
-----------------------------------------------------------------------------
(* Only a server that does not advertise the profile lets the call fall    *)
(* back (core/ema.rs, EmaError): once a server of the chain refused or     *)
(* could not be reached, the call ends in that error, with no weaker grant *)
(* and no person asked in its place.  The enterprise token comes from a    *)
(* server that advertised the profile, for an assertion that is an ID-JAG, *)
(* and no scope is asked for at redemption that the identity provider      *)
(* struck off the request.                                                 *)
RefusalIsFinal ==
    /\ result \in {"client_token", "plugin_error", "paused", "credential_error"} => ~refused
    /\ result = "refused" => refused
    /\ result = "enterprise_token" => 
         advertised /\ ~refused /\ redeemed = "id-jag" /\ asked \subseteq granted
=============================================================================
