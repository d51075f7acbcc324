----------------------------- MODULE ModelRequests -----------------------------
(***************************************************************************)
(* The agent service's paid requests: POST /agent/execute and the credit   *)
(* and provider routes of server.py, the agent and its tools behind the    *)
(* first, and the client of creditProxy (llm_provider.py) with its retries *)
(* behind all of them; and the slots of local image generation.  Prompts   *)
(* and formatting are left out.                                            *)
(*                                                                         *)
(* creditProxy is outside src/.  What reached it may still be served, and  *)
(* charged, after the client has stopped waiting; only /v1/chat carries an *)
(* idempotency key, and nothing is sent twice with one.                    *)
(***************************************************************************)
EXTENDS Integers, Sequences, FiniteSets

CONSTANTS
    Calls,          \* requests to the service
    MaxAttempts,    \* stop_after_attempt
    MaxImages       \* image_generation_max_concurrent

ASSUME RequestAssumption == MaxAttempts \in Nat \ {0} /\ MaxImages \in Nat \ {0}

VARIABLES
    req,            \* each request: [at, kind, attempts, lost, reply]; lost is a
                    \* history: how many of its attempts broke off
    inflight,       \* the attempts of each that creditProxy has and may serve
    charges         \* how often it served, and charged, each

requestVars == <<req, inflight, charges>>

WithContext == {"brainstormIdeas", "generateNextLines", "enhanceText", "generateStoryChoices"}
WithVoice == {"generateNextLines", "enhanceText"}
Actions == WithContext \cup {"summarizeChapter", "enhanceWizardInput"}
Routes == {"balance", "catalog", "validate", "purchase"}
RequestKinds == Actions \cup Routes \cup {"voice", "chat", "image"}

NoReply == <<0, "">>
NoRequest == [at |-> "idle", kind |-> "image", attempts |-> 0, lost |-> 0, reply |-> NoReply]

RequestInit ==
    /\ req = [c \in Calls |-> NoRequest]
    /\ inflight = [c \in Calls |-> {}]
    /\ charges = [c \in Calls |-> 0]

Goto(c, place) == req' = [req EXCEPT ![c].at = place]
Ended(r, reply) == [r EXCEPT !.at = "end", !.reply = reply]
Replies(c, reply) == req' = [req EXCEPT ![c] = Ended(@, reply)]
gatewayVars == <<inflight, charges>>

Success == <<200, "">>
Unhandled == <<500, "">>
BadRequest == <<400, "BAD_REQUEST">>
Internal == <<500, "INTERNAL_ERROR">>

-----------------------------------------------------------------------------
(* llm_provider._classify_http_error: the first rule that matches, by the  *)
(* status and what the body mentions.  Of the statuses that share a rule   *)
(* one stands for all: 401 for 403, 503 for 500, 502 and 504, 418 for the  *)
(* rest.                                                                   *)
Statuses == {400, 401, 402, 404, 409, 418, 429, 503}
Mentions == {"nothing", "credits", "auth", "rate"}

Classify(status, mention, named) ==
    IF status = 402 \/ mention = "credits" THEN "InsufficientCredits"
    ELSE IF status = 401 \/ mention = "auth" THEN "ProviderAuth"
    ELSE IF status = 429 \/ mention = "rate" THEN "RateLimited"
    ELSE CASE status = 404 -> IF named THEN "ProviderNotFound" ELSE "BackendUnavailable"
           [] status = 400 -> "InvalidRequest"
           [] status = 409 -> "BillingCommit"
           [] status = 503 -> "BackendUnavailable"
           [] OTHER -> "LLMProvider"

Refusals == {Classify(status, mention, named) :
                status \in Statuses, mention \in Mentions, named \in BOOLEAN}

(* What the route answers for each error of the provider. *)
AgentReplies == [
    InsufficientCredits |-> <<500, "INSUFFICIENT_CREDITS">>,
    ProviderAuth |-> <<500, "UNAUTHORIZED">>,
    BackendUnavailable |-> <<500, "BACKEND_UNAVAILABLE">>,
    ProviderNotFound |-> <<500, "PROVIDER_NOT_FOUND">>,
    RateLimited |-> <<500, "RATE_LIMITED">>,
    LLMTimeout |-> <<500, "TIMEOUT">>,
    InvalidRequest |-> <<400, "INVALID_REQUEST">>,
    BillingCommit |-> <<500, "BILLING_ERROR">>,
    LLMProvider |-> Internal]

Unavailable == <<503, "BACKEND_UNAVAILABLE">>
TooMany == <<429, "RATE_LIMITED">>

RouteReply(k, e) ==
    CASE k = "catalog" -> Unavailable
      [] k = "validate" -> IF e = "RateLimited" THEN TooMany ELSE Unavailable
      [] e = "BackendUnavailable" -> Unavailable
      [] k = "purchase" /\ e = "RateLimited" -> TooMany
      [] k = "purchase" /\ e = "InvalidRequest" -> AgentReplies[e]
      [] OTHER -> Internal

ReplyTo(k, e) ==
    CASE k \in Actions -> AgentReplies[e]
      [] k \in Routes -> RouteReply(k, e)
      [] OTHER -> Unhandled           \* the run loop and the voice route see the exception

-----------------------------------------------------------------------------
(* Arrival, with what refuses a request before it costs anything: the      *)
(* internal token, the limiter (ConnectorFront has its table), the action  *)
(* schemas, the credit tiers; summarizing nothing needs no model.          *)

Begins(c, k, place) ==
    req' = [req EXCEPT ![c] = [NoRequest EXCEPT !.kind = k, !.at = place]]

Arrives(c, k) ==
    /\ req[c].at = "idle"
    /\ k \in Actions \cup Routes \cup {"chat"}
    /\ Begins(c, k, IF k \in WithContext THEN "context" ELSE "ready")
    /\ UNCHANGED gatewayVars

RefusalsOf(k) ==
    {<<401, "UNAUTHORIZED">>}
    \cup (IF k \in Actions THEN {TooMany, <<422, "VALIDATION_ERROR">>, BadRequest} ELSE {})
    \cup (IF k = "purchase" THEN {<<400, "VALIDATION_ERROR">>} ELSE {})
    \cup (IF k = "summarizeChapter" THEN {Success} ELSE {})

TurnedAway(c, k) ==
    /\ req[c].at = "idle"
    /\ k \in Actions \cup Routes
    /\ \E reply \in RefusalsOf(k) :
          req' = [req EXCEPT ![c] = Ended([NoRequest EXCEPT !.kind = k], reply)]
    /\ UNCHANGED gatewayVars

(* postgres_context.context: a story that is not there is a ValueError. *)
ReadsContext(c) ==
    /\ req[c].at = "context"
    /\ \/ Goto(c, IF req[c].kind \in WithVoice THEN "storyVoice" ELSE "ready")
       \/ \E reply \in {BadRequest, Internal} : Replies(c, reply)
    /\ UNCHANGED gatewayVars

(* _add_story_voice: the prose goes on without a profile. *)
AddsStoryVoice(c) ==
    /\ req[c].at = "storyVoice"
    /\ \/ Goto(c, "ready")
       \/ Replies(c, Internal)      \* not a StoryDataError
    /\ UNCHANGED gatewayVars

-----------------------------------------------------------------------------
(* The client of creditProxy.                                              *)

(* @retry is on generate_content_async alone. *)
Retried(k) == k \in Actions \cup {"voice"}

RetriesTimeouts(k, e) ==    \* mutant: a request given up on is sent again
    Retried(k) /\ e \in {"BackendUnavailable", "LLMTimeout"}
Retries(k, e) == Retried(k) /\ e = "BackendUnavailable"

Sends(c) ==
    /\ req[c].at = "ready"
    /\ req' = [req EXCEPT ![c].at = "waiting", ![c].attempts = @ + 1]
    /\ inflight' = [inflight EXCEPT ![c] = @ \cup {req[c].attempts + 1}]
    /\ UNCHANGED charges

AttemptLimit == MaxAttempts

(* An attempt has failed; inTime: fewer than 30 seconds since the first    *)
(* was sent.                                                               *)
Raises(c, e, lost) ==
    \E inTime \in BOOLEAN :
       LET failed == [req[c] EXCEPT !.lost = @ + lost]
       IN  req' = [req EXCEPT ![c] =
                      IF Retries(req[c].kind, e) /\ req[c].attempts < AttemptLimit /\ inTime
                        THEN [failed EXCEPT !.at = "ready"]
                        ELSE Ended(failed, ReplyTo(req[c].kind, e))]

Awaited(c, i) == req[c].at = "waiting" /\ i = req[c].attempts

(* creditProxy's side: it serves, or refuses, an attempt it has.  That it  *)
(* never charges for what it refuses is assumed of it.                     *)
Serves(c) ==
    \E i \in inflight[c] :
       /\ inflight' = [inflight EXCEPT ![c] = @ \ {i}]
       /\ charges' = [charges EXCEPT ![c] = @ + 1]
       /\ IF Awaited(c, i) THEN Goto(c, "answer") ELSE UNCHANGED req

Refuses(c) ==
    \E i \in inflight[c] :
       /\ inflight' = [inflight EXCEPT ![c] = @ \ {i}]
       /\ UNCHANGED charges
       /\ IF Awaited(c, i)
            THEN \E e \in Refusals : Raises(c, e, 0)
            ELSE UNCHANGED req

(* The connection fails, before or after the request got through; or a     *)
(* 5xx comes back for a request that may have been served, or still may:   *)
(* from a gateway, or from creditProxy when it fails after the charge.     *)
Disconnects(c) ==
    /\ req[c].at = "waiting"
    /\ Raises(c, "BackendUnavailable", 1)
    /\ UNCHANGED gatewayVars

TimesOut(c) ==
    /\ req[c].at = "waiting"
    /\ Raises(c, "LLMTimeout", 0)
    /\ UNCHANGED gatewayVars

(* A stream breaks off, or is not one, after it was served. *)
StreamBreaks(c) ==
    /\ req[c].at = "answer" /\ req[c].kind = "chat"
    /\ \E e \in {"BackendUnavailable", "LLMTimeout"} : Raises(c, e, 0)
    /\ UNCHANGED gatewayVars

(* The tool makes its result of the answer.  Next lines and story choices  *)
(* must be as many as asked for, a body that is no JSON is a ValueError,   *)
(* and one without an output a KeyError; the other tools take what comes.  *)
Parses(c) ==
    /\ req[c].at = "answer" /\ req[c].kind # "voice"
    /\ \E reply \in {Success}
             \cup (IF req[c].kind \in Actions THEN {BadRequest} ELSE {})
             \cup (IF req[c].kind \in Actions \ {"generateNextLines"} THEN {Internal} ELSE {})
             \cup (IF req[c].kind \in Routes THEN {Unhandled} ELSE {})
             \cup (IF req[c].kind \in {"catalog", "validate"} THEN {Unavailable} ELSE {}) :
          Replies(c, reply)
    /\ UNCHANGED gatewayVars

-----------------------------------------------------------------------------
(* Images: the slot is taken or refused without waiting, and given back    *)
(* when the endpoint is done.                                              *)

Imaging == {c \in Calls : req[c].at = "imaging"}

ImageArrives(c) ==
    /\ req[c].at = "idle"
    /\ IF Cardinality(Imaging) = MaxImages
         THEN req' = [req EXCEPT ![c] = Ended(NoRequest, <<429, "HTTP_ERROR">>)]
         ELSE Begins(c, "image", "imaging")
    /\ UNCHANGED gatewayVars

ImageEnds(c) ==
    /\ req[c].at = "imaging"
    /\ \E reply \in {Success, <<500, "HTTP_ERROR">>} : Replies(c, reply)
    /\ UNCHANGED gatewayVars

-----------------------------------------------------------------------------
RequestStep(c) ==
    \/ ReadsContext(c) \/ AddsStoryVoice(c)
    \/ Sends(c) \/ Serves(c) \/ Refuses(c) \/ Disconnects(c) \/ TimesOut(c)
    \/ StreamBreaks(c) \/ Parses(c) \/ ImageEnds(c)

(* "Once a stream has emitted a byte, retrying it could ... charge a       *)
(* second reservation" (llm_provider.py): a call is paid for once, counting *)
(* what creditProxy may yet serve.  Only a generation is sent again, and   *)
(* then each further charge answers to an attempt that broke off: its      *)
(* connection, or with a 5xx.  One that timed out is never followed.       *)
PaidOnce ==
    \A c \in Calls :
        charges[c] + Cardinality(inflight[c])
            <= IF Retried(req[c].kind) THEN req[c].lost + 1 ELSE 1
=============================================================================
