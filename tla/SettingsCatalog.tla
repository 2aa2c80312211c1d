-------------------------- MODULE SettingsCatalog --------------------------
(***************************************************************************)
(* The settings catalog (settings-catalog.ts), the rules a text must meet  *)
(* to be a value of a key (settings-validation.ts), and what the           *)
(* configuration schema (app-config.schema.ts) makes of the environment    *)
(* when a process is built.                                                *)
(*                                                                         *)
(* A text is a record: shape says what it reads as, spelling how it is     *)
(* written: the canonical way, in other letters or digits ("TRUE", "007"), *)
(* or with blanks around it.  Of the catalog the descriptions, groups and  *)
(* hints are left out.                                                     *)
(***************************************************************************)
EXTENDS Integers

Text(shape, word, number) ==
    [shape |-> shape, word |-> word, number |-> number,
     spelling |-> "canonical"]

None == Text("none", "", 0)
Blank == Text("blank", "", 0)
Yes == Text("boolean", "true", 0)
No == Text("boolean", "false", 0)
Number(n) == Text("number", "", n)
Word(w) == Text("string", w, 0)
Spelt(text, spelling) == [text EXCEPT !.spelling = spelling]

-----------------------------------------------------------------------------
(* The catalog.  A boolean or a string has no bounds; a string without     *)
(* choices takes any word.                                                 *)

Entry(category, type, default, min, max, choices) ==
    [category |-> category, type |-> type, default |-> default,
     min |-> min, max |-> max, choices |-> choices, boot |-> FALSE]

Switch(category, default) == Entry(category, "boolean", default, 0, 0, {})
Range(category, default, min, max) ==
    Entry(category, "number", Number(default), min, max, {})
Free(category, default) == Entry(category, "string", default, 0, 0, {})
Choice(category, default, choices) == Entry(category, "string", default, 0, 0, choices)

AiCatalog ==
    [AI_ENABLED |-> Switch("runtime", No),
     AI_PROVIDER |-> Choice("runtime", Word("ollama"), {"ollama", "openai-compat"}),
     AI_OLLAMA_BASE_URL |-> Free("runtime", Word("http://localhost:11434")),
     AI_OLLAMA_MODEL |-> Free("runtime", Word("llama3")),
     AI_OPENAI_COMPAT_BASE_URL |-> Free("runtime", None),
     AI_OPENAI_COMPAT_API_KEY |-> Free("secret", None),
     AI_OPENAI_COMPAT_MODEL |-> Free("runtime", Word("gpt-4o-mini")),
     AI_EXTRACTION_TIMEOUT_MS |-> Range("runtime", 60000, 1000, 600000),
     AI_MAX_RETRIES |-> Range("runtime", 3, 0, 10),
     AI_MAX_INPUT_TOKENS |-> Range("runtime", 4096, 0, 1000000)]

IntegrationCatalog ==
    [PAPERLESS_ENABLED |-> Switch("runtime", No),
     PAPERLESS_URL |-> Free("runtime", None),
     PAPERLESS_API_TOKEN |-> Free("secret", None),
     PAPERLESS_TAG_SYNC_ENABLED |-> Switch("runtime", Yes),
     PAPERLESS_TAG_SYNC_INTERVAL_MS |-> Range("runtime", 300000, 30000, 86400000),
     STORAGE_ENABLED |-> Switch("restart", No),
     FAMILY_SHARING_ENABLED |-> Switch("runtime", Yes),
     CONNECTIVITY_ALLOW_PRIVATE_ENDPOINTS |-> Switch("runtime", No),
     CONNECTIVITY_ALLOW_SELF_SIGNED |-> Switch("runtime", No)]

SignInCatalog ==
    [LOCAL_AUTH_MAX_ATTEMPTS |-> Range("restart", 5, 1, 100),
     LOCAL_AUTH_RATE_LIMIT_WINDOW_MS |-> Range("restart", 900000, 1000, 86400000),
     OIDC_ENABLED |-> Switch("restart", No),
     OIDC_ISSUER_URL |-> Free("restart", None),
     OIDC_CLIENT_ID |-> Free("restart", None),
     OIDC_CLIENT_SECRET |-> [Free("secret", None) EXCEPT !.boot = TRUE],
     OIDC_CALLBACK_URL |-> Free("restart", None)]

\* Bootstrap keys come from the environment only; no text is ever validated
\* for one, so their types and bounds are left out.
HostKeys ==
    {"NODE_ENV", "APP_PORT", "WEB_PORT", "CORS_ORIGINS", "TRUST_PROXY", "COOKIE_SECURE",
     "DATABASE_URL", "REDIS_URL", "DOCUMENTS_STORAGE_PATH", "LOCAL_AUTH_ENABLED",
     "LOCAL_ADMIN_USERNAME", "LOCAL_ADMIN_PASSWORD"}

InfrastructureKeys ==
    {"SETTINGS_ENCRYPTION_KEY", "SESSION_SECRET", "S3_ENDPOINT", "S3_BUCKET",
     "S3_ACCESS_KEY", "S3_SECRET_KEY", "MINIO_ROOT_USER", "MINIO_ROOT_PASSWORD",
     "NEXT_PUBLIC_API_BASE_URL", "NEXT_ALLOWED_DEV_ORIGINS", "WORKER_HEALTH_PORT",
     "WORKER_HEARTBEAT_INTERVAL_MS", "WORKER_HEARTBEAT_TIMEOUT_MS"}

BootstrapCatalog == [k \in HostKeys \cup InfrastructureKeys |-> Free("bootstrap", None)]

Catalog ==
    [k \in DOMAIN AiCatalog \cup DOMAIN IntegrationCatalog
           \cup DOMAIN SignInCatalog \cup DOMAIN BootstrapCatalog |->
        CASE k \in DOMAIN AiCatalog -> AiCatalog[k]
          [] k \in DOMAIN IntegrationCatalog -> IntegrationCatalog[k]
          [] k \in DOMAIN SignInCatalog -> SignInCatalog[k]
          [] k \in DOMAIN BootstrapCatalog -> BootstrapCatalog[k]]

IsSecret(k) == Catalog[k].category = "secret"
UiConfigurable(k) == k \in DOMAIN Catalog /\ Catalog[k].category # "bootstrap"

\* The keys that are copied from the database into the environment at boot.
BootPreload(k) ==
    \/ Catalog[k].category = "restart"
    \/ Catalog[k].category = "secret" /\ Catalog[k].boot

-----------------------------------------------------------------------------
(* Validation of a text against its catalog entry.                         *)

NotBlank(text) == text.shape \notin {"none", "blank"}

Valid(k, text) ==
    /\ NotBlank(text)
    /\ CASE Catalog[k].type = "boolean" -> text.shape = "boolean"
         [] Catalog[k].type = "number" ->
              text.shape = "number" /\ text.number \in Catalog[k].min..Catalog[k].max
         [] Catalog[k].type = "string" ->
              Catalog[k].choices = {} \/ text.word \in Catalog[k].choices

\* The typed value, and the text that is stored for it.
Canonical(text) == Spelt(text, "canonical")

-----------------------------------------------------------------------------
(* The schema of the environment, for the keys the preload can change.  It *)
(* is not the catalog: it has no upper bounds, and STORAGE_ENABLED takes   *)
(* no blanks around a boolean.                                             *)

\* parseAppConfig takes the text; otherwise the process dies while it is built.
Parses(k, text) ==
    \/ text = None
    \/ Catalog[k].type = "string"
    \/ k = "STORAGE_ENABLED" /\ text.shape = "boolean" /\ text.spelling # "blanks"
    \/ k = "OIDC_ENABLED" /\ (text.shape = "boolean" \/ ~NotBlank(text))
    \/ Catalog[k].type = "number" /\ text.shape = "number" /\ text.number > 0

\* What AppConfigService.get then returns; these keys have the catalog's
\* defaults.  A string is taken as it is written.
Configured(k, text) ==
    IF text = None \/ (k = "OIDC_ENABLED" /\ ~NotBlank(text)) THEN Catalog[k].default
    ELSE IF Catalog[k].type = "string" THEN text
    ELSE Canonical(text)

=============================================================================
