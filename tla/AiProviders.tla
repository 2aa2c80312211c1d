---------------------------- MODULE AiProviders ----------------------------
(***************************************************************************)
(* The AI provider: which adapter the settings select, when it answers,    *)
(* and what the health check says of it.  The API and the worker have      *)
(* adapters of their own.  The settings are read anew for every call.  Of  *)
(* an answer over HTTP only the class of the status counts.                *)
(***************************************************************************)
EXTENDS Naturals

CONSTANT Providers      \* settings together with what the endpoints answer

Adapters == {"none", "ollama", "openai-compat"}

Statuses == {"ok", "auth", "missing", "error", "silent"}

\* url, token: these settings are not empty; relaxed: the certificate is one only
\* CONNECTIVITY_ALLOW_SELF_SIGNED accepts, which is set; models: GET /models or
\* /api/tags; chat: POST /chat/completions or /api/chat.
ProviderType ==
    [enabled : BOOLEAN, key : Adapters, url : BOOLEAN, token : BOOLEAN, relaxed : BOOLEAN,
     models : Statuses, chat : Statuses]

ASSUME ProvidersAssumption == Providers \subseteq ProviderType

VARIABLES
    provider,   \* the settings and the endpoints as they are now
    fallback,   \* healthFallbackValidUntil lies in the future
    health      \* what the last health check returned

providerVars == <<provider, fallback, health>>

\* getAdapter: the NoOp adapter has no endpoint at all.
AdapterKey == IF provider.enabled THEN provider.key ELSE "none"

Down(reason) == [connected |-> FALSE, reason |-> reason]
Up == [connected |-> TRUE, reason |-> "none"]

Reason(status) ==
    CASE status = "auth" -> "unauthorized"
      [] status = "silent" -> "unreachable"
      [] OTHER -> "http-error"

FromStatus(status) == IF status = "ok" THEN Up ELSE Down(Reason(status))

\* chatCompletion: the text of the answer, or null for every failure.
OllamaChat == provider.chat = "ok"
OpenAiChat == provider.url /\ provider.chat = "ok"

Answers(key) ==
    \/ key = "ollama" /\ OllamaChat
    \/ key = "openai-compat" /\ OpenAiChat

-----------------------------------------------------------------------------
(* The worker.                                                             *)

\* Any other name means Ollama here, and no provider at all in the API.
WorkerAdapterKey ==
    IF ~provider.enabled THEN "none"
    ELSE IF provider.key = "openai-compat" THEN "openai-compat" ELSE "ollama"

\* chatCompletionRaw; certificates are always checked.
WorkerOllamaChat == ~provider.relaxed /\ provider.chat = "ok"

\* Broken variant: no request without a key.
WorkerOpenAiChatKeyed ==
    provider.url /\ provider.token /\ ~provider.relaxed /\ provider.chat = "ok"

WorkerOpenAiChat == provider.url /\ ~provider.relaxed /\ provider.chat = "ok"

WorkerAnswers ==
    \/ WorkerAdapterKey = "ollama" /\ WorkerOllamaChat
    \/ WorkerAdapterKey = "openai-compat" /\ WorkerOpenAiChat

-----------------------------------------------------------------------------
(* The health check of the API.                                            *)

OllamaHealth == FromStatus(provider.models)

\* A provider without a list of models is asked for a completion instead.
NeedsFallback == provider.url /\ ~fallback /\ provider.models = "missing"

OpenAiHealth ==
    IF ~provider.url THEN Down("not-configured")
    ELSE IF fallback THEN Up
    ELSE IF NeedsFallback THEN FromStatus(provider.chat)
    ELSE FromStatus(provider.models)

AdapterHealth(key) ==
    CASE key = "ollama" -> OllamaHealth
      [] key = "openai-compat" -> OpenAiHealth
      [] OTHER -> Down("not-configured")

ProviderInit ==
    /\ provider \in Providers
    /\ fallback = FALSE
    /\ health = Down("disabled")

\* The answer of a fallback that succeeded is reused, whatever becomes of the provider.
HealthCheck ==
    /\ health' = IF provider.enabled THEN AdapterHealth(provider.key) ELSE Down("disabled")
    /\ fallback' = (\/ fallback
                    \/ /\ AdapterKey = "openai-compat"
                       /\ NeedsFallback /\ provider.chat = "ok")
    /\ UNCHANGED provider

FallbackExpires ==
    /\ fallback
    /\ fallback' = FALSE
    /\ UNCHANGED <<provider, health>>

\* An administrator changes the settings, or an endpoint goes away or comes back.
ProviderChanges ==
    /\ provider' \in Providers
    /\ UNCHANGED <<fallback, health>>

ProviderNext == HealthCheck \/ FallbackExpires \/ ProviderChanges

ProviderTypeOK ==
    /\ provider \in Providers
    /\ fallback \in BOOLEAN
    /\ health.connected \in BOOLEAN

(* "requiring a key made every extraction silently fail while the admin    *)
(* connectivity test reported HTTP 200" (ai-extraction.processor.ts:230):  *)
(* what answers the API answers the worker, unless its certificate is one  *)
(* that only the API accepts or the settings name no adapter.              *)
WorkerAgrees ==
    provider.key # "none" /\ ~provider.relaxed => (WorkerAnswers <=> Answers(AdapterKey))

=============================================================================
