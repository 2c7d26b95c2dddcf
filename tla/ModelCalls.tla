----------------------------- MODULE ModelCalls -----------------------------
(***************************************************************************)
(* How a service asks a model (models/router.py, output_repair.py,         *)
(* minimax.py, minimax_transport.py, codex.py, fake.py and the wirings of  *)
(* minimax_m3_composition.py): the router picks the adapter of the role,   *)
(* asks again while the answer is a rate limit, has a malformed answer     *)
(* repaired once, then asks the fallback; every HTTP outcome becomes an    *)
(* error kind or a payload.                                                *)
(*                                                                         *)
(* Simplifications: prompts and payloads are left out, what a service can  *)
(* tell of a payload stays: "invalid" for its schema, "outside" the paths  *)
(* a plan may name, else "valid"; "prose" for text that is no JSON. Token  *)
(* and timeout values are constants of the adapters; back-off is time      *)
(* passing.                                                                *)
(***************************************************************************)
EXTENDS Naturals

CONSTANTS
  MaxAttempts,  \* RetryPolicy.max_attempts
  Http          \* the HTTP outcomes the provider may show

Role == {"planning", "implementation", "remediation", "review", "delivery"}
Provider == {"minimax", "codex"}

ErrorKind == {"timeout", "provider_failure", "malformed_output", "auth", "rate_limit"}
Payload == {"valid", "outside", "invalid", "prose"}

\* "raised": invoke raises instead of returning a response.
Answer == ErrorKind \cup Payload \cup {"raised"}

HttpOutcome ==
  {"no_token", "timeout", "connection_failure", "http_error", "401", "429", "5xx",
   "oversized", "not_json", "json_list", "base_auth", "base_error", "no_content",
   "prose", "list", "valid", "outside", "invalid"}

ASSUME CallAssumption ==
  /\ MaxAttempts \in Nat \ {0}
  /\ Http \subseteq HttpOutcome

\* How a composition is built. The deterministic one asks no model; "default" is a
\* router with both adapters, "fake" one with the adapters of the tests; "local",
\* without its API key "keyless", and "offline" are the two MiniMax compositions.
Wiring == {"deterministic", "default", "fake", "local", "keyless", "offline"}
MiniMaxWiring == {"local", "keyless", "offline"}

VARIABLES
  wiring,  \* how the composition was built
  call,    \* the router call under way
  asked    \* history: requests this call has sent

callVars == <<wiring, call, asked>>

Call == [state : {"idle", "primary", "repair", "fallback", "answered"},
         role : Role, provider : Provider, answer : Answer]

NoRequest == [state |-> "idle", role |-> "planning", provider |-> "minimax",
              answer |-> "raised"]

CallInit ==
  /\ wiring \in Wiring
  /\ call = NoRequest
  /\ asked = 0

-----------------------------------------------------------------------------
\* HttpMiniMaxTransport.complete: the error kind or the content of an outcome.
\* A status that is no error for it and a body without content are malformed
\* output; a body that is a list has no get and raises.
Normalised(http) ==
  CASE http \in {"no_token", "401", "base_auth"} -> "auth"
    [] http = "timeout" -> "timeout"
    [] http = "connection_failure" -> "connection_failure"
    [] http \in {"http_error", "5xx", "base_error"} -> "provider_failure"
    [] http = "429" -> "rate_limit"
    [] http = "oversized" -> "oversized_response"
    [] http \in {"not_json", "no_content"} -> "malformed_output"
    [] http = "json_list" -> "raised"
    [] OTHER -> http

\* _parse_structured_output: text that is no JSON counts as an answer without
\* payload; a payload that is a list does not fit ModelResponse.parsed, whose
\* construction raises.
Parsed(content) == IF content = "list" THEN "raised" ELSE content

\* MiniMaxAdapter.invoke: transport errors map onto the closed set of kinds.
Adapted(http) ==
  CASE Normalised(http) = "oversized_response" -> "malformed_output"
    [] Normalised(http) = "connection_failure" -> "provider_failure"
    [] OTHER -> Parsed(Normalised(http))

\* FakeModelAdapter.invoke: what its fixtures can say.
Fixtures == {"raised", "provider_failure", "timeout", "malformed_output", "valid", "invalid"}

\* CodexAdapter.invoke: not implemented.
CodexResponse == "provider_failure"

\* RecordingMiniMaxTransport.complete: the queued responses, then a failure.
Recorded == {Adapted(http) : http \in Http} \cup {"provider_failure"}

\* invoke of a provider's adapter.
Responses(provider) ==
  CASE wiring = "fake" -> Fixtures
    [] wiring # "fake" /\ provider = "codex" -> {CodexResponse}
    [] wiring = "keyless" /\ provider = "minimax" -> {Adapted("no_token")}
    [] wiring = "offline" /\ provider = "minimax" -> Recorded
    [] OTHER -> {Adapted(http) : http \in Http}

\* _probe_readiness: an adapter is live with its key in the environment and the
\* HTTP transport. Only the MiniMax adapter can say so.
Live(built, provider) == provider = "minimax" /\ built \in {"default", "local"}

\* requires_repair: only the fake adapter ever sets it.
RequiresRepair(answer) == wiring = "fake" /\ answer = "malformed_output"

\* DEFAULT_ROUTING, and the role map of the author router.
DefaultRouting(role) == IF role \in {"implementation", "remediation"} THEN "codex" ELSE "minimax"
AuthorRoles == Role \ {"review"}

\* The provider the router of a service has for a role, or "none". The MiniMax
\* compositions hand the author router to every service, and only the offline
\* one gives the review service the review router afterwards.
Routing(role) ==
  CASE wiring \in {"local", "keyless"} ->
         IF role \in AuthorRoles THEN "minimax" ELSE "none"
    [] wiring = "offline" -> "minimax"
    [] OTHER -> DefaultRouting(role)

\* DEFAULT_FALLBACK is in force in every wiring, because _build_router is called
\* without a table.
Fallback(provider) == IF provider = "minimax" THEN "codex" ELSE "minimax"

\* The adapters of the router: the MiniMax wirings register one.
AdaptersOf(built) == IF built \in MiniMaxWiring THEN {"minimax"} ELSE Provider
Adapters == AdaptersOf(wiring)

\* validate_router_readiness for the production profile.
AllLive(built) == \A provider \in AdaptersOf(built) : Live(built, provider)

\* A payload that the schema of its request takes.
Fits(answer) == answer \in {"valid", "outside"}

\* validate_plan_against_policy
WithinPolicy(answer) == answer # "outside"

-----------------------------------------------------------------------------
NoCall == call.state = "idle"
Asking == call.state \in {"primary", "repair", "fallback"}
Answered == call.state = "answered"

\* The service asks its router; _select_primary and _adapter_for may raise.
Ask(role) ==
  /\ call' = IF Routing(role) \notin Adapters
             THEN [call EXCEPT !.state = "answered", !.role = role, !.answer = "raised"]
             ELSE [call EXCEPT !.state = "primary", !.role = role,
                               !.provider = Routing(role)]
  /\ asked' = 0
  /\ UNCHANGED wiring

Sent == asked' = asked + 1 /\ UNCHANGED wiring

\* _is_routable_failure
Routable(answer) == answer \in {"provider_failure", "timeout", "malformed_output", "rate_limit"}

\* Mutant of MayRetry: a rate limit is retried for ever.
MayRetryAlways == TRUE

\* There is a retry left for a rate limit.
MayRetry == asked + 1 < MaxAttempts

\* _invoke_with_rate_limit_retry: the primary is asked again after the back-off.
Retry(answer) ==
  /\ call.state = "primary" /\ answer = "rate_limit" /\ MayRetry
  /\ Sent
  /\ UNCHANGED call

\* maybe_repair: one more request to the same adapter.
Repair(answer) ==
  /\ call.state = "primary" /\ RequiresRepair(answer)
  /\ Sent
  /\ call' = [call EXCEPT !.state = "repair"]

\* Mutant of Return: a routable failure of the fallback is not returned.
ReturnUnlessRoutable(answer) ==
  /\ \/ call.state \in {"primary", "fallback"} /\ ~Routable(answer)
     \/ call.state = "repair" /\ answer \notin ErrorKind
  /\ Sent
  /\ call' = [call EXCEPT !.state = "answered", !.answer = answer]

\* The router returns what the adapter said, or the exception passes through.
Return(answer) ==
  /\ \/ call.state = "primary" /\ ~Routable(answer)
     \/ call.state = "repair" /\ answer \notin ErrorKind
     \/ call.state = "fallback"
  /\ Sent
  /\ call' = [call EXCEPT !.state = "answered", !.answer = answer]

\* The primary has failed for good: a routable failure with no retry and no
\* repair left.
GivesUp(answer) ==
  \/ /\ call.state = "primary" /\ Routable(answer) /\ ~RequiresRepair(answer)
     /\ ~(answer = "rate_limit" /\ MayRetry)
  \/ call.state = "repair" /\ answer \in ErrorKind

\* The fallback provider is asked once; a provider without adapter makes
\* _adapter_for raise.
FallBack(answer) ==
  /\ GivesUp(answer)
  /\ Sent
  /\ LET next == Fallback(call.provider)
     IN  call' = IF next \in Adapters
                 THEN [call EXCEPT !.state = "fallback", !.provider = next]
                 ELSE [call EXCEPT !.state = "answered", !.answer = "raised"]

Respond(answer) ==
  /\ Asking
  /\ Retry(answer) \/ Repair(answer) \/ Return(answer) \/ FallBack(answer)

\* The service has taken the answer, or its process died.
HangUp ==
  /\ call' = NoRequest
  /\ asked' = 0
  /\ UNCHANGED wiring
-----------------------------------------------------------------------------
CallTypeOK ==
  /\ wiring \in Wiring
  /\ call \in Call
  /\ asked \in Nat
=============================================================================
