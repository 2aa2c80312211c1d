-------------------------- MODULE PaperlessSearch ---------------------------
(***************************************************************************)
(* The two searches of the documents tab that wait 350 ms for the user to  *)
(* stop typing: for tags (paperless-tag-section.tsx), which numbers its    *)
(* requests, and for documents (documents-tab.tsx), which does not count   *)
(* its number up between two requests.  A row stands for a search term and *)
(* its hits; form is the term typed, "closed" one that is too short or a   *)
(* closed panel; list holds the term whose hits are shown, loading is the  *)
(* spinner.  A failed search shows no hits under the newest term.          *)
(***************************************************************************)
EXTENDS TabRequests

VARIABLES
    numbered,   \* the search for tags
    waiting     \* the timer runs

searchVars == <<numbered, waiting>>

SearchInit ==
    /\ store = [i \in Ids |-> "live"] /\ rev = 0
    /\ calls = [s \in Slots |-> None]
    /\ list = {} /\ listRev = 0 /\ loading = FALSE
    /\ form = "closed" /\ busy = FALSE
    /\ mounts = 1
    /\ numbered \in BOOLEAN /\ waiting = FALSE

\* Broken variant: what is on its way for the longer term is not given up.
TypeTooShortQuietly ==
    /\ form # "closed"
    /\ form' = "closed" /\ waiting' = FALSE
    /\ list' = {}
    /\ loading' = (loading /\ ~numbered)
    /\ UNCHANGED <<store, rev, calls, listRev, busy, mounts, numbered>>

\* No request will be made; only the search for tags gives up the one under way.
TypeTooShort ==
    /\ form # "closed"
    /\ form' = "closed" /\ waiting' = FALSE
    /\ list' = {}
    /\ calls' = IF numbered THEN Renumbered ELSE calls
    /\ loading' = (loading /\ ~numbered)
    /\ UNCHANGED <<store, rev, listRev, busy, mounts, numbered>>

TypeTerm(i) ==
    /\ form # i
    /\ form' = i /\ waiting' = TRUE
    /\ loading' = TRUE
    /\ UNCHANGED <<store, rev, calls, list, listRev, busy, mounts, numbered>>

SendSearch(s) ==
    /\ waiting /\ Free(s)
    /\ waiting' = FALSE
    /\ calls' = IF numbered THEN SentAnew(s, "load", form) ELSE Sent(s, "load", form)
    /\ UNCHANGED <<store, rev, list, listRev, loading, form, busy, mounts, numbered>>

ServeSearch(s) ==
    /\ Under(s, {"load"}) /\ calls[s].stage = "sent"
    /\ \E outcome \in {"ok", "failed"} : calls' = [calls EXCEPT ![s].stage = outcome]
    /\ UNCHANGED <<store, rev, list, listRev, loading, form, busy, mounts, searchVars>>

SearchAnswered(s) ==
    /\ Answered(s, {"load"})
    /\ calls' = Freed(s)
    /\ IF calls[s].fresh
          THEN /\ list' = IF Succeeded(s, {"load"}) THEN {calls[s].row} ELSE {}
               /\ loading' = FALSE
          ELSE UNCHANGED <<list, loading>>
    /\ UNCHANGED <<store, rev, listRev, form, busy, mounts, searchVars>>

SearchNext ==
    \/ TypeTooShort
    \/ \E i \in Ids : TypeTerm(i)
    \/ \E s \in Slots : SendSearch(s) \/ ServeSearch(s) \/ SearchAnswered(s)

-----------------------------------------------------------------------------
\* When the search for tags has come to rest there is no spinner, and only hits of the
\* term typed are shown: "a late answer cannot render hits under a term the user already
\* cleared" (paperless-tag-section.tsx:303-306).
TagSearchSettles ==
    numbered /\ ~waiting /\ (\A s \in Mine({"load"}) : ~calls[s].fresh)
        => ~loading /\ list \subseteq {form}

=============================================================================
