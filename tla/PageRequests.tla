---------------------------- MODULE PageRequests ----------------------------
(***************************************************************************)
(* What the pages outside of a policy share: rows read from the API, one   *)
(* busyId for the row whose action is under way, one lock for the form.    *)
(* Requests carry no numbers here: every answer writes state.  An action   *)
(* that went well reads the rows again.  Other users of the API are left   *)
(* out, so what a page shows is old only through its own requests.         *)
(***************************************************************************)
EXTENDS TabRequests

CONSTANT MaxClicks   \* bound on what the user starts

VARIABLES
    table,        \* the rows in the database: a value for each id
    posts,        \* requests under way
    onPage,       \* the rows on the page, and the filter they were read with
    pageFilter,   \* the filter the user has set
    awaiting,     \* the page shows that it is loading, and nothing else
    busyId,       \* the row that is locked
    formLocked,
    clicks,
    crossed       \* requests crossed or failed: the rows on the page may be old

pageVars ==
    <<table, posts, onPage, pageFilter, awaiting, busyId, formLocked, clicks, crossed>>

Values == {"none", "PENDING_APPROVAL", "ACTIVE", "DISABLED", "READ", "WRITE", "first", "second"}
Filters == {"all", "PENDING_APPROVAL", "ACTIVE", "DISABLED"}

RowWrites == {"approve", "reject", "disable", "enable", "role", "permission", "revoke"}
FormWrites == {"resetPassword", "createShare", "saveSetting", "refreshSaved"}
Reads == {"rows", "documents", "entry", "refreshSaved"}

Post ==
    [kind : RowWrites \cup FormWrites \cup Reads \cup {"unset", "test"},
     row : Ids \cup {None}, filter : Filters, value : Values,
     stage : {"sent", "ok", "failed"}, rows : [Ids -> Values]]

ASSUME PostAssumption == None \notin Post

NewPost(kind, i, f, v) ==
    [kind |-> kind, row |-> i, filter |-> f, value |-> v, stage |-> "sent",
     rows |-> [j \in Ids |-> "none"]]

Posted(s, kind, i, f, v) == [posts EXCEPT ![s] = NewPost(kind, i, f, v)]
Unposted(s) == [posts EXCEPT ![s] = None]

Vacant(s) == posts[s] = None
Underway(kinds) == {s \in Slots : posts[s] # None /\ posts[s].kind \in kinds}
CameBack(s, kinds) == s \in Underway(kinds) /\ posts[s].stage # "sent"
WentWell(s) == posts[s].stage = "ok"

\* The rows as the API answers them.
RowsOf(f) == [i \in Ids |-> IF f = "all" \/ table[i] = f THEN table[i] ELSE "none"]

\* One more click, which finds a place for its request.
NextClick(s) == Vacant(s) /\ clicks < MaxClicks /\ clicks' = clicks + 1

PageBegins(values) ==
    /\ table \in [Ids -> values]
    /\ \E s \in Slots :
          posts = [t \in Slots |-> IF t = s THEN NewPost("rows", None, "all", "none") ELSE None]
    /\ awaiting = TRUE

PageRestsElse ==
    /\ onPage = [filter |-> "all", rows |-> [i \in Ids |-> "none"]]
    /\ pageFilter = "all" /\ busyId = None /\ formLocked = FALSE
    /\ clicks = 0 /\ crossed = FALSE

-----------------------------------------------------------------------------
(* The API.                                                                *)

AnswerRows(s) ==
    /\ s \in Underway(Reads) /\ posts[s].stage = "sent"
    /\ posts' = [posts EXCEPT ![s].stage = "ok", ![s].rows = RowsOf(posts[s].filter)]
    /\ UNCHANGED <<table, onPage, pageFilter, awaiting, busyId, formLocked, clicks, crossed>>

\* A write is committed; its answer may be lost on the way.
AnswerWrite(s, kinds, i, v) ==
    /\ s \in Underway(kinds) /\ posts[s].stage = "sent"
    /\ table' = [table EXCEPT ![i] = v]
    /\ \E outcome \in {"ok", "failed"} : posts' = [posts EXCEPT ![s].stage = outcome]
    /\ UNCHANGED <<onPage, pageFilter, awaiting, busyId, formLocked, clicks, crossed>>

RefusePost(s) ==
    /\ ~Vacant(s) /\ posts[s].stage = "sent"
    /\ posts' = [posts EXCEPT ![s].stage = "failed"]
    /\ UNCHANGED <<table, onPage, pageFilter, awaiting, busyId, formLocked, clicks, crossed>>

-----------------------------------------------------------------------------
(* The page.                                                               *)

\* The rows are asked for in slot s, with the filter the caller knows.
AskRows(s, f) ==
    /\ posts' = Posted(s, "rows", None, f, "none")
    /\ crossed' = (Underway({"rows"}) # {} \/ f # pageFilter')

RowsArrive(s) ==
    /\ CameBack(s, {"rows"})
    /\ onPage' = IF WentWell(s) THEN [filter |-> posts[s].filter, rows |-> posts[s].rows]
                                ELSE onPage
    /\ crossed' = (crossed \/ ~WentWell(s))
    /\ awaiting' = FALSE
    /\ posts' = Unposted(s)
    /\ UNCHANGED <<table, pageFilter, busyId, formLocked, clicks>>

StartRowAction(s, kind, i, v) ==
    /\ ~awaiting /\ busyId # i
    /\ NextClick(s)
    /\ posts' = Posted(s, kind, i, pageFilter, v)
    /\ busyId' = i
    /\ UNCHANGED <<table, onPage, pageFilter, awaiting, formLocked, crossed>>

StartForm(s, kind, i, v) ==
    /\ ~awaiting /\ ~formLocked
    /\ NextClick(s)
    /\ posts' = Posted(s, kind, i, pageFilter, v)
    /\ formLocked' = TRUE
    /\ UNCHANGED <<table, onPage, pageFilter, awaiting, busyId, crossed>>

-----------------------------------------------------------------------------
PageTypeOK ==
    /\ table \in [Ids -> Values] /\ posts \in [Slots -> Post \cup {None}]
    /\ onPage \in [filter : Filters, rows : [Ids -> Values]]
    /\ pageFilter \in Filters /\ busyId \in Ids \cup {None}
    /\ {awaiting, formLocked, crossed} \subseteq BOOLEAN

\* What is locked, or said to be loading, waits for a request that ends it.
PageLocksBacked ==
    /\ awaiting => Underway({"rows"}) # {}
    /\ busyId # None => \E s \in Underway(RowWrites) : posts[s].row = busyId
    /\ formLocked <=> Underway(FormWrites) # {}
    /\ Cardinality(Underway(FormWrites)) <= 1

\* A page at rest shows the rows of the database, those of the filter the user has set;
\* unless requests crossed (two reads at once, or an action that began under another
\* filter) or failed.
PageAtRestIsTrue ==
    (\A s \in Slots : Vacant(s)) /\ ~crossed =>
        onPage = [filter |-> pageFilter, rows |-> RowsOf(pageFilter)]

=============================================================================
