--------------------------- MODULE PaperlessServer ---------------------------
(***************************************************************************)
(* One request to Paperless: the adapter of the API (paperless-ngx.service)*)
(* and the client of the worker (paperless-tag.client) resolve URL and     *)
(* token anew for every request, so the requests of one call may go to     *)
(* different servers.  The adapter also asks which dialect the server      *)
(* speaks and remembers it; the client sends no versioned header.          *)
(*                                                                         *)
(* The servers, the administrator who changes the settings and people who  *)
(* work in Paperless are outside.  One request with its answer is a step.  *)
(***************************************************************************)
EXTENDS Naturals, FiniteSets

CONSTANTS
    Askers,      \* calls under way
    Hosts,       \* servers PAPERLESS_URL can name
    Nowhere,     \* Paperless is off, or its settings are incomplete
    LastPaper,   \* the documents are 1..LastPaper, in the order of their ids
    Stickers,    \* tags
    Buried,      \* tags not among the first 100 whose name contains theirs
    PageSize,    \* documents on a page
    MaxPages,    \* pages walked at most
    MaxTurns     \* bound on what happens outside

ASSUME ServerAssumption ==
    /\ {LastPaper, PageSize, MaxPages} \subseteq Nat \ {0} /\ MaxTurns \in Nat
    /\ Stickers # {}
    /\ Nowhere \notin Hosts \cup Askers

VARIABLES
    host,        \* the server the effective settings name
    flavour,     \* the dialect each server speaks
    dialects,    \* the adapter's cache
    catalogue,   \* the tags that exist on each server
    marks,       \* the tags of each document
    accepted,    \* bulk edits a server has accepted and not carried out
    asks,        \* the calls, by caller
    turns        \* how often something happened outside

serverVars == <<host, flavour, dialects, catalogue, marks, accepted, asks, turns>>

Papers == 1..LastPaper
Flavours == {"v2", "legacy"}
Failures == {"NOT_CONFIGURED", "UNREACHABLE", "AUTH_FAILED", "REJECTED", "NOT_FOUND",
             "DOCUMENT_NOT_FOUND", "API_ERROR", "VERIFY_FAILED", "nothing"}

\* What a call remembers; the last five entries are for the properties.
Ask ==
    [op : {"idle", "create", "assign", "list", "tag", "metadata", "documents"},
     app : {"api", "worker"},
     step : {"find", "post", "again", "before", "bulk", "patch", "verify", "page", "get",
             "names", "dialect", "done"},
     sticker : Stickers, paper : Papers,
     seen : SUBSET Stickers, read : BOOLEAN,   \* what the call read of its document
     found : SUBSET Papers, page : 1..MaxPages, minimal : BOOLEAN,
     tries : 0..2, bulk : {"ok", "missing", "noMethod"}, dialect : Flavours,
     result : {"none", "ok"} \cup Failures,
     heard : BOOLEAN,           \* every request was answered as it should be
     alone : BOOLEAN,           \* nobody else changed anything meanwhile
     steady : BOOLEAN,          \* no document lost the tag meanwhile
     kept : SUBSET Papers,      \* the documents that had the tag at the start
     lossy : BOOLEAN]           \* the call took a tag from a document

Idle ==
    [op |-> "idle", app |-> "api", step |-> "done", sticker |-> CHOOSE t \in Stickers : TRUE,
     paper |-> 1, seen |-> {}, read |-> FALSE, found |-> {}, page |-> 1, minimal |-> FALSE,
     tries |-> 0, bulk |-> "ok", dialect |-> "v2", result |-> "none", heard |-> TRUE,
     alone |-> TRUE, steady |-> TRUE, kept |-> {}, lossy |-> FALSE]

Tagged(m, h, t) == IF h = Nowhere THEN {} ELSE {p \in Papers : t \in m[h][p]}

ServerInit ==
    /\ host \in Hosts \cup {Nowhere}
    /\ flavour \in [Hosts -> Flavours]
    /\ dialects = [h \in Hosts |-> "unknown"]
    /\ \E ts \in SUBSET Stickers : catalogue = [h \in Hosts |-> ts]
    /\ \E m \in [Papers -> SUBSET Stickers] : marks = [h \in Hosts |-> m]
    /\ accepted = [h \in Hosts |-> {}]
    /\ asks = [c \in Askers |-> Idle]
    /\ turns = 0

-----------------------------------------------------------------------------
(* One request.                                                            *)

\* Broken variant: a probe that failed counts as an answer.
PinnedDialects(h) ==
    IF dialects[h] # "unknown" THEN {<<dialects[h], dialects>>}
    ELSE {<<d, [dialects EXCEPT ![h] = d]>> : d \in {flavour[h], "v2"}}

\* The cached dialect, or a probe: 406 means legacy and a good answer v2.  After
\* any other answer this call speaks v2 and the next one asks again.
ResolveDialect(h) ==
    IF dialects[h] # "unknown" THEN {<<dialects[h], dialects>>}
    ELSE {<<flavour[h], [dialects EXCEPT ![h] = flavour[h]]>>, <<"v2", dialects>>}

\* "lost": no connection or a timeout; "odd": 200 with a body nobody can use.
Answers(h, dialect) ==
    IF dialect = "v2" /\ flavour[h] = "legacy" THEN {"refused", "lost"}
    ELSE {"ok", "odd", "denied", "missing", "noMethod", "badRequest", "error", "lost"}

\* What comes after the answer to a request of call c, on the server named now.
OneRequest(c, Then(_)) ==
    IF host = Nowhere THEN Then("lost") /\ UNCHANGED dialects
    ELSE \E r \in IF asks[c].app = "api" THEN ResolveDialect(host)
                  ELSE {<<"plain", dialects>>} :
            /\ dialects' = r[2]
            /\ \E answer \in Answers(host, r[1]) : Then(answer)

ClassifyTagRequest(answer) ==
    CASE answer = "denied" -> "AUTH_FAILED"
      [] answer \in {"error", "lost", "odd"} -> "UNREACHABLE"
      [] OTHER -> "REJECTED"

-----------------------------------------------------------------------------
(* How calls begin and end.                                                *)

\* isConfigured comes first; nothing is asked when it fails.
BeginAsk(c, op, app, step, t, p) ==
    /\ asks[c].op = "idle"
    /\ asks' = [asks EXCEPT ![c] =
          [Idle EXCEPT !.op = op, !.app = app, !.sticker = t, !.paper = p,
                       !.step = IF host = Nowhere THEN "done" ELSE step,
                       !.result = IF host = Nowhere THEN "NOT_CONFIGURED" ELSE "none",
                       !.kept = Tagged(marks, host, t)]]
    /\ UNCHANGED <<host, flavour, dialects, catalogue, marks, accepted, turns>>

At(c, op, step) == asks[c].op = op /\ asks[c].step = step

\* Somebody other than call c changed what it may have read.
Noticed(c, m, h) ==
    [d \in Askers |->
        IF d = c \/ asks[d].op = "idle" THEN asks[d]
        ELSE [asks[d] EXCEPT
                !.alone = FALSE,
                !.steady = @ /\ h = host /\ Tagged(marks, h, asks[d].sticker)
                                               \subseteq Tagged(m, h, asks[d].sticker)]]

Over(c, op) == At(c, op, "done")

\* After a request, and whether it was answered as it should be.
Heard(a, good) == [a EXCEPT !.heard = @ /\ good]

Ended(a, result) == [a EXCEPT !.step = "done", !.result = result]
Ends(c, result) == asks' = [asks EXCEPT ![c] = Ended(@, result)]

\* The call goes on without an answer it can use.
Unheard(c, step) == asks' = [asks EXCEPT ![c].step = step, ![c].heard = FALSE]

AskReturns(c) ==
    /\ asks[c].op # "idle" /\ asks[c].step = "done"
    /\ asks' = [asks EXCEPT ![c] = Idle]
    /\ UNCHANGED <<host, flavour, dialects, catalogue, marks, accepted, turns>>

-----------------------------------------------------------------------------
(* What happens outside.                                                   *)

Turn == turns < MaxTurns /\ turns' = turns + 1

\* Somebody, or another call of ours, sets or clears a tag in Paperless.
EditPaper(h, p, t) ==
    /\ Turn
    /\ marks' = [marks EXCEPT ![h][p] = IF t \in @ THEN @ \ {t} ELSE @ \cup {t}]
    /\ asks' = Noticed(Nowhere, marks', host)
    /\ UNCHANGED <<host, flavour, dialects, catalogue, accepted>>

\* A tag is created or deleted, perhaps by another call of createTag.
AddName(h, t) ==
    /\ Turn
    /\ t \notin catalogue[h]
    /\ catalogue' = [catalogue EXCEPT ![h] = @ \cup {t}]
    /\ UNCHANGED <<host, flavour, dialects, marks, accepted, asks>>

DeleteName(h, t) ==
    /\ Turn
    /\ t \in catalogue[h]
    /\ catalogue' = [catalogue EXCEPT ![h] = @ \ {t}]
    /\ marks' = [marks EXCEPT ![h] = [p \in Papers |-> @[p] \ {t}]]
    /\ asks' = Noticed(Nowhere, marks', host)
    /\ UNCHANGED <<host, flavour, dialects, accepted>>

\* An administrator switches Paperless off or to another server.
ChangeHost(h) ==
    /\ Turn
    /\ h # host
    /\ host' = h
    /\ asks' = Noticed(Nowhere, marks, h)
    /\ UNCHANGED <<flavour, dialects, catalogue, marks, accepted>>

\* A bulk edit is carried out after it was accepted, or lost.
CarryOut(h) ==
    /\ \E b \in accepted[h] :
          /\ accepted' = [accepted EXCEPT ![h] = @ \ {b}]
          /\ \/ /\ marks' = [marks EXCEPT ![h][b[1]] = @ \cup {b[2]}]
                /\ asks' = Noticed(Nowhere, marks', host)
             \/ UNCHANGED <<marks, asks>>
    /\ UNCHANGED <<host, flavour, dialects, catalogue, turns>>

OutsideAny ==
    \/ \E h \in Hosts \cup {Nowhere} : ChangeHost(h)
    \/ \E c \in Askers : AskReturns(c)

OutsideNames ==
    OutsideAny \/ \E h \in Hosts, t \in Stickers : AddName(h, t) \/ DeleteName(h, t)

OutsideMarks(ps) ==
    \/ OutsideAny
    \/ \E h \in Hosts, p \in ps, t \in Stickers : EditPaper(h, p, t)
    \/ \E h \in Hosts : CarryOut(h)

-----------------------------------------------------------------------------
ServerTypeOK ==
    /\ host \in Hosts \cup {Nowhere}
    /\ flavour \in [Hosts -> Flavours]
    /\ dialects \in [Hosts -> Flavours \cup {"unknown"}]
    /\ catalogue \in [Hosts -> SUBSET Stickers]
    /\ marks \in [Hosts -> [Papers -> SUBSET Stickers]]
    /\ accepted \in [Hosts -> SUBSET (Papers \X Stickers)]
    /\ \A c \in Askers : DOMAIN asks[c] = DOMAIN Idle /\ asks[c].tries \in 0..2
    /\ turns \in 0..MaxTurns

(* A dialect in the cache is the server's own: a probe that got no answer  *)
(* does not pin one (paperless-ngx.service.ts:158-163).                    *)
DialectsFit == \A h \in Hosts : dialects[h] \in {"unknown", flavour[h]}

=============================================================================
