--------------------------- MODULE SystemSettings ---------------------------
(***************************************************************************)
(* One settings key on its way from the admin UI into the two processes:   *)
(* SystemConfigService and the older admin endpoints over                  *)
(* SettingsStoreService, SettingsResolverService, the boot preload, and    *)
(* the restart that API and worker are asked for through Redis             *)
(* (RestartService, RestartCoordinatorService, both main.ts).              *)
(*                                                                         *)
(* A behaviour follows one key, chosen at the start.  Two keys meet in one *)
(* place only: the API starts if one of OIDC_ENABLED and                   *)
(* LOCAL_AUTH_ENABLED lets people sign in.  The second comes from the      *)
(* environment alone and is the constant part of a behaviour (local).  The *)
(* row may hold what an older release let in.  Everything that goes wrong  *)
(* outside the program (the database does not answer the preload in time,  *)
(* Redis loses or refuses a request) is a mishap.                          *)
(***************************************************************************)
EXTENDS SettingsCatalog

CONSTANTS
    Keys,           \* the keys a behaviour may follow
    Admins,         \* requests of admins that run at the same time
    MaxEvents       \* bound: admin requests, restarts and mishaps together

ASSUME SettingsAssumption == Keys \subseteq DOMAIN Catalog /\ MaxEvents \in Nat

VARIABLES
    key,
    file,           \* its text in the compose environment
    local,          \* local sign-in is on: LOCAL_AUTH_ENABLED, or its default
    row,            \* GlobalIntegrationSetting, or NoRow
    calls,          \* per admin: the request being served, or Idle
    events,         \* of those, so far
    procs,          \* per process: how far it is
    asked,          \* versigo:restart:request is in Redis
    mishap          \* there was one

settingsVars == <<key, file, local, row, calls, events, procs, asked, mishap>>

Processes == {"api", "worker"}

NoRow == [plain |-> None, sealed |-> None, secret |-> FALSE, there |-> FALSE]
Row(text, secret) ==
    [plain |-> IF secret THEN None ELSE text,
     sealed |-> IF secret THEN text ELSE None,
     secret |-> secret, there |-> TRUE]

Idle == [op |-> "idle", text |-> None, seen |-> NoRow]

\* state: down, boot (before Nest), opening (the API has its configuration and
\* sees whether anybody can sign in), up, leaving (process.exit is on its way).
\* work: the preload's own progress, which a timeout does not stop.
Down == [state |-> "down", work |-> "none", env |-> None, seen |-> NoRow,
         built |-> None, late |-> FALSE]

\* The texts worth trying for a key: a value, one spelt otherwise, no value.
Texts(k) ==
    CASE Catalog[k].type = "boolean" ->
           {Yes, Spelt(No, "blanks"), Word("x")}
      [] Catalog[k].type = "number" ->
           {Number(Catalog[k].min), Spelt(Number(Catalog[k].max), "digits"),
            Number(Catalog[k].max + 1)}
      [] Catalog[k].type = "string" ->
           {Word("u"), Spelt(Word("v"), "blanks"), Blank}

SettingsInit ==
    /\ key \in Keys
    /\ file \in {text \in Texts(key) \cup {None} : Parses(key, text)}
    /\ local \in IF key = "OIDC_ENABLED" THEN BOOLEAN ELSE {TRUE}
    /\ row \in {NoRow} \cup {Row(text, IsSecret(key)) : text \in Texts(key)}
    /\ calls = [a \in Admins |-> Idle]
    /\ events = 0
    /\ procs = [p \in Processes |-> Down]
    /\ asked = FALSE
    /\ mishap = FALSE

Event == events < MaxEvents /\ events' = events + 1
Mishap == Event /\ mishap' = TRUE

-----------------------------------------------------------------------------
(* What the key resolves to in a process: a valid row, then a valid text   *)
(* of the environment, then the default.                                   *)

Stored(r) == IF r.sealed # None THEN r.sealed ELSE r.plain

FromEnvironment(k, env) ==
    IF Valid(k, env)
    THEN [value |-> Canonical(env), source |-> "ENV"]
    ELSE [value |-> Catalog[k].default, source |-> "DEFAULT"]

Resolution(value, source, pending) ==
    [value |-> value, source |-> source, pending |-> pending]

\* The row's value at once, whatever the category.
ResolvedAtOnce(k, r, env) ==
    IF Valid(k, Stored(r))
    THEN Resolution(Canonical(Stored(r)), "UI", None)
    ELSE Resolution(FromEnvironment(k, env).value, FromEnvironment(k, env).source, None)

\* A row of the restart category only waits for the next start.
Resolved(k, r, env) ==
    LET active == FromEnvironment(k, env)
        saved == Canonical(Stored(r))
    IN  IF ~Valid(k, Stored(r))
        THEN Resolution(active.value, active.source, None)
        ELSE IF Catalog[k].category = "restart"
        THEN Resolution(active.value, active.source,
                        IF active.value = saved THEN None ELSE saved)
        ELSE Resolution(saved, "UI", None)

\* The entry of the admin UI, as the API process builds it; null is None.
ShownEntry ==
    LET r == Resolved(key, row, procs["api"].env)
    IN  [effectiveValue |-> IF IsSecret(key) THEN None ELSE r.value,
         secretSet |-> IsSecret(key) /\ r.value # None,
         source |-> r.source,
         restartRequired |-> Catalog[key].category = "restart" /\ r.pending # None,
         pendingRestartValue |-> r.pending]

-----------------------------------------------------------------------------
(* The admin's requests.  Each looks for the row, which decides what it    *)
(* will write (op), and then writes.                                       *)

ApiServes == procs["api"].state \in {"up", "leaving"}

\* PUT admin/system-config/:key validates before it looks.
UpsertLooks(a, text) ==
    /\ UiConfigurable(key) /\ Valid(key, text)
    /\ calls' = [calls EXCEPT ![a] = [op |-> IF row.there THEN "update" ELSE "create",
                                      text |-> Canonical(text), seen |-> row]]

\* DELETE of the value there; an absent row is fine.
ResetLooks(a) ==
    /\ UiConfigurable(key)
    /\ calls' = [calls EXCEPT ![a] = [op |-> "delete", text |-> None, seen |-> row]]

\* POST admin/settings: a value is needed, a row must not be there.
CreateLooks(a, text) ==
    /\ UiConfigurable(key) /\ Valid(key, text) /\ ~row.there
    /\ calls' = [calls EXCEPT ![a] = [op |-> "create", text |-> Canonical(text), seen |-> row]]

\* PATCH admin/settings/:key: without a value the row keeps the one it has.
PatchLooks(a, text) ==
    /\ UiConfigurable(key) /\ row.there
    /\ text = None \/ Valid(key, text)
    /\ calls' = [calls EXCEPT ![a] = [op |-> "update", text |-> Canonical(text), seen |-> row]]

\* DELETE admin/settings/:key.
DeleteLooks(a) ==
    /\ row.there
    /\ calls' = [calls EXCEPT ![a] = [op |-> "delete", text |-> None, seen |-> row]]

Look(a) ==
    /\ ApiServes /\ Event /\ calls[a] = Idle
    /\ \/ \E text \in Texts(key) :
            UpsertLooks(a, text) \/ CreateLooks(a, text) \/ PatchLooks(a, text)
       \/ PatchLooks(a, None)
       \/ ResetLooks(a)
       \/ DeleteLooks(a)
    /\ UNCHANGED <<key, file, local, row, procs, asked, mishap>>

\* The caller's flag decides what is encrypted.
SecretAsAsked(k) == FALSE

\* isSecret never comes from the caller.
SecretOf(k) == IsSecret(k)

\* Prisma leaves a column alone that is undefined: the value goes to one
\* column, and the other keeps what it holds.
Updated(r, text) ==
    [r EXCEPT !.plain = IF SecretOf(key) THEN r.plain ELSE text,
              !.sealed = IF SecretOf(key) THEN text ELSE r.sealed,
              !.secret = SecretOf(key)]

\* A PATCH without a value writes back what it read.
WrittenBack(r, seen) ==
    [r EXCEPT !.plain = IF seen.plain # None THEN seen.plain ELSE r.plain,
              !.sealed = IF seen.sealed # None THEN seen.sealed ELSE r.sealed,
              !.secret = SecretOf(key)]

\* A row that is there by then, or gone by then, fails the request.
Write(a) ==
    LET c == calls[a]
    IN  /\ ApiServes /\ c # Idle
        /\ row' =
             IF c.op = "create" /\ ~row.there THEN Row(c.text, SecretOf(key))
             ELSE IF c.op = "update" /\ row.there /\ c.text = None THEN WrittenBack(row, c.seen)
             ELSE IF c.op = "update" /\ row.there THEN Updated(row, c.text)
             ELSE IF c.op = "delete" /\ c.seen.there THEN NoRow
             ELSE row
        /\ calls' = [calls EXCEPT ![a] = Idle]
        /\ UNCHANGED <<key, file, local, events, procs, asked, mishap>>

-----------------------------------------------------------------------------
(* A process: Compose starts it with the file's text; main.ts preloads,    *)
(* then builds the application.                                            *)

Start(p) ==
    /\ procs[p].state = "down"
    /\ procs' = [procs EXCEPT ![p] =
         [Down EXCEPT !.state = "boot", !.env = file,
                      !.work = IF BootPreload(key) THEN "reading" ELSE "done"]]
    /\ UNCHANGED <<key, file, local, row, calls, events, asked, mishap>>

PreloadRead(p) ==
    /\ procs[p].state # "down" /\ procs[p].work = "reading"
    /\ procs' = [procs EXCEPT ![p].work = "applying", ![p].seen = row]
    /\ UNCHANGED <<key, file, local, row, calls, events, asked, mishap>>

\* The text is copied as it stands in the row.
CopiedUnchecked(k, r, env) == IF r.there THEN Stored(r) ELSE env

\* Only a valid text, in its canonical form, is copied.
Copied(k, r, env) ==
    IF Valid(k, Stored(r)) THEN Canonical(Stored(r)) ELSE env

PreloadApply(p) ==
    /\ procs[p].state # "down" /\ procs[p].work = "applying"
    /\ procs' = [procs EXCEPT ![p].work = "done",
                              ![p].env = Copied(key, procs[p].seen, procs[p].env)]
    /\ UNCHANGED <<key, file, local, row, calls, events, asked, mishap>>

\* The database refuses: the process starts with the file's text.
PreloadFails(p) ==
    /\ procs[p].state # "down" /\ procs[p].work \in {"reading", "applying"}
    /\ Mishap
    /\ procs' = [procs EXCEPT ![p].work = "done"]
    /\ UNCHANGED <<key, file, local, row, calls, asked>>

\* The configuration is taken from the environment; only the API has more to
\* see to before it is up.  A process that cannot take it ends.
Built(p) ==
    procs' = [procs EXCEPT ![p] =
        IF Parses(key, procs[p].env)
        THEN [procs[p] EXCEPT
                !.state = IF p = "api" THEN "opening" ELSE "up",
                !.built = Configured(key, procs[p].env),
                !.late = procs[p].work # "done"]
        ELSE Down]

Build(p) ==
    /\ procs[p].state = "boot" /\ procs[p].work = "done"
    /\ Built(p)
    /\ UNCHANGED <<key, file, local, row, calls, events, asked, mishap>>

\* The race is lost after 15 s: the application is built, the preload goes on.
BuildAfterTimeout(p) ==
    /\ procs[p].state = "boot" /\ procs[p].work # "done"
    /\ Mishap
    /\ Built(p)
    /\ UNCHANGED <<key, file, local, row, calls, asked>>

\* Somebody can sign in, if the key has this value.
SignIn(value) == local \/ key # "OIDC_ENABLED" \/ value = Yes

OpenedWith(value) ==
    procs' = [procs EXCEPT !["api"] =
        IF SignIn(value) THEN [procs["api"] EXCEPT !.state = "up"] ELSE Down]

\* The API does not start if nobody could sign in.  The resolver answers from
\* the environment as it is now, which a late preload may have changed since
\* the configuration was taken.
Open ==
    /\ procs["api"].state = "opening"
    /\ OpenedWith(FromEnvironment(key, procs["api"].env).value)
    /\ UNCHANGED <<key, file, local, row, calls, events, asked, mishap>>

\* The database refuses the resolver: the configuration decides.
OpenWithoutDatabase ==
    /\ procs["api"].state = "opening"
    /\ Mishap
    /\ OpenedWith(procs["api"].built)
    /\ UNCHANGED <<key, file, local, row, calls, asked>>

\* A process ends, with the requests it was serving.
Leave(p) ==
    /\ procs[p].state = "leaving"
    /\ procs' = [procs EXCEPT ![p] = Down]
    /\ calls' = IF p = "api" THEN [a \in Admins |-> Idle] ELSE calls
    /\ UNCHANGED <<key, file, local, row, events, asked, mishap>>

-----------------------------------------------------------------------------
(* The restart: the API stores the request for the worker and leaves after *)
(* 1.5 s, even when Redis refuses it; the worker fetches it every 5 s.     *)

RequestRestart ==
    /\ procs["api"].state = "up"
    /\ procs' = [procs EXCEPT !["api"].state = "leaving"]
    /\ Event
    /\ \/ asked' = TRUE /\ UNCHANGED mishap
       \/ mishap' = TRUE /\ UNCHANGED asked
    /\ UNCHANGED <<key, file, local, row, calls>>

\* The worker takes the request away and stays.
DrainOnly ==
    /\ asked /\ procs["worker"].state = "up"
    /\ asked' = FALSE
    /\ UNCHANGED <<key, file, local, row, calls, events, procs, mishap>>

\* GET and DEL in one MULTI; then the worker closes.
DrainRequest ==
    /\ asked /\ procs["worker"].state = "up"
    /\ asked' = FALSE
    /\ procs' = [procs EXCEPT !["worker"].state = "leaving"]
    /\ UNCHANGED <<key, file, local, row, calls, events, mishap>>

\* The answer of the MULTI is lost, or the 300 s of the key are over.
RequestLost ==
    /\ asked /\ Mishap
    /\ asked' = FALSE
    /\ UNCHANGED <<key, file, local, row, calls, procs>>

-----------------------------------------------------------------------------
ProcessNext(p) ==
    \/ Start(p)
    \/ PreloadRead(p)
    \/ PreloadApply(p)
    \/ PreloadFails(p)
    \/ Build(p)
    \/ BuildAfterTimeout(p)
    \/ Leave(p)

SettingsNext ==
    \/ \E a \in Admins : Look(a) \/ Write(a)
    \/ \E p \in Processes : ProcessNext(p)
    \/ Open
    \/ OpenWithoutDatabase
    \/ RequestRestart
    \/ DrainRequest
    \/ RequestLost

\* Compose keeps both processes running, their code goes on, and the worker
\* polls.  Nobody need ever change a setting or ask for a restart.
SettingsFairness ==
    /\ \A p \in Processes :
         WF_settingsVars(Start(p)) /\ WF_settingsVars(PreloadRead(p))
         /\ WF_settingsVars(PreloadApply(p)) /\ WF_settingsVars(Build(p))
         /\ WF_settingsVars(Leave(p))
    /\ WF_settingsVars(Open)
    /\ WF_settingsVars(DrainRequest)

SettingsSpec == SettingsInit /\ [][SettingsNext]_settingsVars /\ SettingsFairness

-----------------------------------------------------------------------------
TextSet == {None} \cup UNION {Texts(k) \cup {Canonical(t) : t \in Texts(k)} : k \in Keys}
RowSet == [plain : TextSet, sealed : TextSet, secret : BOOLEAN, there : BOOLEAN]

CallSet ==
    [op : {"idle", "create", "update", "delete"}, text : TextSet, seen : RowSet]

ProcessSet ==
    [state : {"down", "boot", "opening", "up", "leaving"},
     work : {"none", "reading", "applying", "done"},
     env : TextSet, seen : RowSet, built : TextSet \cup {Catalog[key].default},
     late : BOOLEAN]

\* A secret lies encrypted and nothing else does, whichever endpoint wrote it.
SecretsSealed ==
    row.there =>
        /\ row.secret = IsSecret(key)
        /\ IsSecret(key) => row.plain = None
        /\ ~IsSecret(key) => row.sealed = None

\* Every variable has its type, and a row holds its text in the column its
\* category asks for.
SettingsTypeOK ==
    /\ key \in Keys /\ file \in TextSet /\ local \in BOOLEAN /\ row \in RowSet
    /\ calls \in [Admins -> CallSet]
    /\ events \in 0..MaxEvents
    /\ procs \in [Processes -> ProcessSet]
    /\ asked \in BOOLEAN
    /\ mishap \in BOOLEAN
    /\ SecretsSealed

\* For a key that is read once per start, the admin UI shows the value the API
\* was built with, and the value it announces is the one the next start takes
\* (settings-resolver.service.ts:42-47).  Exceptions: a preload that came too
\* late, and a text of the file that schema and catalog read differently.
EffectiveIsRunning ==
    (/\ ApiServes /\ ~procs["api"].late /\ Catalog[key].category = "restart"
     /\ Configured(key, file) = FromEnvironment(key, file).value) =>
        /\ ShownEntry.effectiveValue = procs["api"].built
        /\ Valid(key, Stored(row)) =>
             IF ShownEntry.restartRequired
             THEN ShownEntry.pendingRestartValue = Canonical(Stored(row))
             ELSE procs["api"].built = Canonical(Stored(row))

\* The row turns OIDC off where it is the only way to sign in.
LocksOut(r) ==
    /\ key = "OIDC_ENABLED" /\ ~local
    /\ Valid(key, Stored(r)) /\ Canonical(Stored(r)) = No

\* What the preload copies never keeps a process from being built, if the file
\* does not (settings-preload.ts:81-84), and the API whose file lets people
\* sign in is kept from starting by one row only: a valid OIDC_ENABLED=false,
\* read at this start, with local sign-in off (settings-catalog.ts:527-529).
BootSurvives ==
    /\ \A p \in Processes : procs[p].state = "boot" => Parses(key, procs[p].env)
    /\ (procs["api"].state = "opening" /\ SignIn(Configured(key, file))) =>
         \/ SignIn(FromEnvironment(key, procs["api"].env).value) /\ SignIn(procs["api"].built)
         \/ LocksOut(procs["api"].seen)

\* A saved value takes effect: once a restart is asked for and nobody changes
\* the row any more, both processes are up with it in the end, unless there is
\* a mishap or the value leaves nobody a way to sign in.
SavedTakesEffect ==
    (/\ asked /\ procs["api"].state = "leaving"
     /\ BootPreload(key) /\ Valid(key, Stored(row)) /\ ~LocksOut(row)
     /\ events = MaxEvents /\ \A a \in Admins : calls[a] = Idle)
    ~> (\/ mishap
        \/ \A p \in Processes :
             procs[p].state = "up" /\ procs[p].built = Canonical(Stored(row)))

=============================================================================
