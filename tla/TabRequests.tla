---------------------------- MODULE TabRequests -----------------------------
(***************************************************************************)
(* What the tabs of the policy page share: a list read from the API, one   *)
(* form, and fetches that overlap.  Each tab numbers its loads with a      *)
(* counter, requestSeq; an answer may write state only while its request   *)
(* still holds the newest number.  The model keeps no numbers: a request   *)
(* is fresh until the counter moves.                                       *)
(*                                                                         *)
(* page.tsx unmounts a tab when the user opens another one or another      *)
(* policy.  React ignores what an unmounted tab still sets, so its         *)
(* requests are not mine any more; the API works on them all the same.     *)
(* Error texts and the contents of rows and forms are left out.            *)
(***************************************************************************)
EXTENDS Naturals, FiniteSets

CONSTANTS
    Ids,        \* ids of the rows of one policy; an id is used once
    Slots,      \* fetches under way at a time
    None,       \* no fetch, no row
    MaxRev,     \* bound on writes to the rows
    MaxMounts   \* bound on how often the tab is opened

VARIABLES
    store,      \* the rows in the database
    rev,        \* number of writes to them
    calls,      \* fetches that are not answered yet
    list,       \* the rows the tab shows
    listRev,    \* rev when the API read them
    loading,    \* the spinner stands in place of the list
    form,       \* "closed", "new", or the row being edited
    busy,       \* the submit button is locked
    mounts      \* how often the tab has been opened

tabVars == <<store, rev, calls, list, listRev, loading, form, busy, mounts>>

\* A reload is awaited by a save, a report by a poll that saw the end of a run.
Spins == {"load", "reload", "report"}
Loads == Spins \cup {"quiet"}
Saves == {"create", "update", "suggest"}
Statuses == {"status", "tick"}

Fetch ==
    [kind : Loads \cup Saves \cup Statuses
              \cup {"delete", "link", "retry", "classify", "assign", "remove", "sync"},
     row : Ids \cup {None},
     fresh : BOOLEAN,
     mine : BOOLEAN,
     stage : {"sent", "ok", "failed"},
     data : SUBSET Ids,
     rev : 0..MaxRev,
     job : {"none", "active", "ended"}]

ASSUME TabAssumption ==
    MaxRev \in Nat /\ MaxMounts \in Nat \ {0} /\ None \notin Fetch

Live == {i \in Ids : store[i] = "live"}

Request(kind, row) ==
    [kind |-> kind, row |-> row, fresh |-> TRUE, mine |-> TRUE,
     stage |-> "sent", data |-> {}, rev |-> 0, job |-> "none"]

EachCall(Op(_)) == [s \in Slots |-> IF calls[s] = None THEN None ELSE Op(calls[s])]

\* The counter moves: every request under way loses its number.
Renumbered == LET Aged(c) == [c EXCEPT !.fresh = FALSE] IN EachCall(Aged)

Sent(s, kind, row) == [calls EXCEPT ![s] = Request(kind, row)]
SentAnew(s, kind, row) == [Renumbered EXCEPT ![s] = Request(kind, row)]
Freed(s) == [calls EXCEPT ![s] = None]

Free(s) == calls[s] = None
Under(s, kinds) == calls[s] # None /\ calls[s].kind \in kinds
Answered(s, kinds) == Under(s, kinds) /\ calls[s].mine /\ calls[s].stage # "sent"
Succeeded(s, kinds) == Answered(s, kinds) /\ calls[s].stage = "ok"

\* Requests of the mounted tab.
Mine(kinds) == {s \in Slots : Under(s, kinds) /\ calls[s].mine}

TabInit ==
    /\ store \in [Ids -> {"new", "live"}]
    /\ rev = 0
    /\ \E s \in Slots : calls = [t \in Slots |-> IF t = s THEN Request("load", None) ELSE None]
    /\ list = {} /\ listRev = 0 /\ loading = TRUE
    /\ form = "closed" /\ busy = FALSE
    /\ mounts = 1

-----------------------------------------------------------------------------
(* The API, as far as every tab uses it alike.                             *)

ServeList(s) ==
    /\ Under(s, Loads) /\ calls[s].stage = "sent"
    /\ calls' = [calls EXCEPT ![s].stage = "ok", ![s].data = Live, ![s].rev = rev]
    /\ UNCHANGED <<store, rev, list, listRev, loading, form, busy, mounts>>

\* An error status, or no connection: nothing was written.
Refuse(s) ==
    /\ calls[s] # None /\ calls[s].stage = "sent"
    /\ calls' = [calls EXCEPT ![s].stage = "failed"]
    /\ UNCHANGED <<store, rev, list, listRev, loading, form, busy, mounts>>

\* A write is committed; its answer may be lost on the way.
Commit(s, written) ==
    /\ rev < MaxRev
    /\ store' = written
    /\ rev' = rev + 1
    /\ \E outcome \in {"ok", "failed"} : calls' = [calls EXCEPT ![s].stage = outcome]
    /\ UNCHANGED <<list, listRev, loading, form, busy, mounts>>

Insert(s, kind) ==
    /\ Under(s, {kind}) /\ calls[s].stage = "sent"
    /\ \E i \in Ids : store[i] = "new" /\ Commit(s, [store EXCEPT ![i] = "live"])

Change(s, kind) ==
    /\ Under(s, {kind}) /\ calls[s].stage = "sent"
    /\ calls[s].row \in Live
    /\ Commit(s, store)

Erase(s, kind) ==
    /\ Under(s, {kind}) /\ calls[s].stage = "sent"
    /\ calls[s].row \in Live
    /\ Commit(s, [store EXCEPT ![calls[s].row] = "gone"])

-----------------------------------------------------------------------------
\* The tab is left and opened again.
Remount(s) ==
    /\ mounts < MaxMounts
    /\ Free(s)
    /\ LET Left(c) == [c EXCEPT !.fresh = FALSE, !.mine = FALSE]
       IN  calls' = [EachCall(Left) EXCEPT ![s] = Request("load", None)]
    /\ list' = {} /\ listRev' = 0 /\ loading' = TRUE
    /\ form' = "closed" /\ busy' = FALSE
    /\ mounts' = mounts + 1
    /\ UNCHANGED <<store, rev>>

\* What a tab that is gone is told.
Ignore(s) ==
    /\ calls[s] # None /\ ~calls[s].mine /\ calls[s].stage # "sent"
    /\ calls' = Freed(s)
    /\ UNCHANGED <<store, rev, list, listRev, loading, form, busy, mounts>>

-----------------------------------------------------------------------------
\* Every variable has its type.
TabTypeOK ==
    /\ store \in [Ids -> {"new", "live", "gone"}]
    /\ rev \in 0..MaxRev
    /\ calls \in [Slots -> Fetch \cup {None}]
    /\ list \subseteq Ids
    /\ listRev \in 0..MaxRev
    /\ loading \in BOOLEAN
    /\ form \in {"closed", "new"} \cup Ids
    /\ busy \in BOOLEAN
    /\ mounts \in 1..MaxMounts

\* A spinner is taken away by an answer that is still to come: a load that holds the
\* newest number.  "otherwise the spinner stays stuck" (covered-persons-tab.tsx:120-123).
SpinnerEnds ==
    loading => \E s \in Mine(Spins) : calls[s].fresh

\* The submit button is locked as long as a save of this tab is under way, and there is
\* never a second one: a lock that is not reset blocks the form for good
\* (costs-overview-card.tsx:296-301).
LockIsSave ==
    /\ busy <=> Mine(Saves) # {}
    /\ Cardinality(Mine(Saves)) <= 1

\* As long as the tab stays open its list never goes back to an earlier state of the
\* rows: "only the newest request may write state" (covered-persons-tab.tsx:88-93).
ListNeverGoesBack ==
    [][mounts' = mounts => listRev' >= listRev]_tabVars

=============================================================================
