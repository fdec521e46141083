---------------------------- MODULE RetryPolicy ----------------------------
(***************************************************************************)
(* Which failed completion requests the agent repeats, how often and after *)
(* what delay: retry_strategy_for and handle_completion_error of           *)
(* crates/agent2/src/thread.rs.  Pure operators; no state.                 *)
(*                                                                         *)
(* An error is a record of the variant of LanguageModelCompletionError,    *)
(* the HTTP status it carries (0 when it carries none) and the server's    *)
(* retry_after in seconds (NoHint for Option::None).  The variants whose   *)
(* match arms are the same are kept apart, so that the table below can be  *)
(* compared with the code line by line.                                    *)
(***************************************************************************)
EXTENDS Integers

MAX_RETRY_ATTEMPTS == 4
BASE_RETRY_DELAY   == 5
NoHint             == -1

TOO_MANY_REQUESTS     == 429
SERVICE_UNAVAILABLE   == 503
INTERNAL_SERVER_ERROR == 500
UnofficialOverloaded  == 529
NeverHelps            == {413, 403, 401}
                      \* PAYLOAD_TOO_LARGE, FORBIDDEN, UNAUTHORIZED

is_client_error(status) == status \in 400..499
is_server_error(status) == status \in 500..599

\* `Other` wraps an anyhow::Error; two of the wrapped types are recognised.
Variants ==
  { "PromptTooLarge", "NoApiKey", "RateLimitExceeded", "ServerOverloaded",
    "ApiInternalServerError", "UpstreamProviderError", "HttpResponseError",
    "BadRequestFormat", "AuthenticationError", "PermissionError",
    "ApiEndpointNotFound", "ApiReadResponseError", "SerializeRequest",
    "BuildRequestBody", "HttpSend", "DeserializeResponse",
    "OtherPaymentRequired", "OtherModelRequestLimit", "Other" }

\* Option<RetryStrategy>: max_attempts = 0 stands for None.
Exponential(max) ==
  [kind |-> "ExponentialBackoff", delay |-> BASE_RETRY_DELAY, max_attempts |-> max]
Fixed(delay, max) ==
  [kind |-> "Fixed", delay |-> delay, max_attempts |-> max]
NoRetry == [kind |-> "None", delay |-> 0, max_attempts |-> 0]

HintOrBase(e) == IF e.retry_after = NoHint THEN BASE_RETRY_DELAY ELSE e.retry_after

upstream_strategy(e) ==
  CASE e.status \in {TOO_MANY_REQUESTS, SERVICE_UNAVAILABLE, UnofficialOverloaded} ->
         Fixed(HintOrBase(e), MAX_RETRY_ATTEMPTS)
    [] e.status = INTERNAL_SERVER_ERROR -> Fixed(HintOrBase(e), 3)
    [] OTHER -> Fixed(HintOrBase(e), 2)

http_strategy(e) ==
  CASE e.status = TOO_MANY_REQUESTS -> Exponential(MAX_RETRY_ATTEMPTS)
    [] e.status \in NeverHelps -> NoRetry
    [] /\ e.status \notin NeverHelps \cup {TOO_MANY_REQUESTS}
       /\ is_client_error(e.status) \/ is_server_error(e.status) ->
         Fixed(BASE_RETRY_DELAY, 3)
    [] OTHER -> Fixed(BASE_RETRY_DELAY, 2)

retry_strategy_for(e) ==
  CASE e.variant = "HttpResponseError" -> http_strategy(e)
    [] e.variant = "UpstreamProviderError" -> upstream_strategy(e)
    [] e.variant \in {"ServerOverloaded", "RateLimitExceeded"} ->
         Fixed(HintOrBase(e), MAX_RETRY_ATTEMPTS)
    [] e.variant \in {"ApiInternalServerError", "ApiReadResponseError", "HttpSend",
                      "DeserializeResponse", "BadRequestFormat"} ->
         Fixed(BASE_RETRY_DELAY, 3)
    [] e.variant \in {"AuthenticationError", "PermissionError", "NoApiKey",
                      "ApiEndpointNotFound", "PromptTooLarge",
                      "OtherPaymentRequired", "OtherModelRequestLimit"} -> NoRetry
    [] e.variant \in {"SerializeRequest", "BuildRequestBody"} ->
         Fixed(BASE_RETRY_DELAY, 1)
    [] OTHER -> Fixed(BASE_RETRY_DELAY, 2)

\* Requests to the hosted provider are only repeated for some plans; every
\* other provider (the OpenAI-compatible one included) always may be.
\* Variant: the plan is not looked at.
auto_retry_Always(cloud, plan, burn) == TRUE

auto_retry(cloud, plan, burn) ==
  cloud => (plan = "V2" \/ (plan = "V1" /\ burn))

\* Variant: one attempt too many.
Retried_OffByOne(e, attempt) == attempt - 1 <= retry_strategy_for(e).max_attempts

\* The error is repeated: attempt counts this failure.
Retried(e, attempt) == attempt <= retry_strategy_for(e).max_attempts

\* Variant: the exponent counts from one.
retry_delay_TooLong(e, attempt) ==
  LET s == retry_strategy_for(e)
  IN  IF s.kind = "ExponentialBackoff" THEN s.delay * 2^attempt ELSE s.delay

retry_delay(e, attempt) ==
  LET s == retry_strategy_for(e)
  IN  IF s.kind = "ExponentialBackoff" THEN s.delay * 2^(attempt - 1) ELSE s.delay
=============================================================================
