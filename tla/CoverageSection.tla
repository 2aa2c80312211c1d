-------------------------- MODULE CoverageSection ---------------------------
(***************************************************************************)
(* coverage-summary-section.tsx: one view state, written by whichever      *)
(* request is answered, without numbers.  The summary is loaded after the  *)
(* state of the AI provider (a status request), and once more after every  *)
(* generation.  rev counts the summaries stored; which of them is shown is *)
(* left out, and so is the list of contract documents the picker offers.   *)
(***************************************************************************)
EXTENDS TabRequests

VARIABLES
    view,       \* viewState.status
    ticked,     \* the box for the transfer of document contents
    central,    \* the consent stored with the user's preferences
    chosen      \* documents picked

coverageVars == <<view, ticked, central, chosen>>

Views == {"loading", "unavailable", "checkError", "idle", "loadError",
          "loaded", "generating", "generateError"}

CoverageInit ==
    /\ store = [i \in Ids |-> "live"] /\ rev = 0
    /\ \E s, t \in Slots :
         /\ s # t
         /\ calls = [u \in Slots |-> IF u = s THEN Request("status", None)
                                     ELSE IF u = t THEN Request("quiet", None) ELSE None]
    /\ list = {} /\ listRev = 0 /\ loading = FALSE
    /\ form = "closed" /\ busy = FALSE
    /\ mounts = 1
    /\ view = "loading" /\ ticked = FALSE /\ central \in BOOLEAN /\ chosen = {}

-----------------------------------------------------------------------------
\* No answer, an unusable provider, or on to the summary.
AiStatusAnswered(s) ==
    /\ Answered(s, {"status"})
    /\ \/ calls[s].stage = "failed" /\ view' = "checkError" /\ calls' = Freed(s)
       \/ calls[s].job = "none" /\ view' = "unavailable" /\ calls' = Freed(s)
       \/ calls[s].job = "active" /\ calls' = Sent(s, "load", None) /\ UNCHANGED view
    /\ UNCHANGED <<store, rev, list, listRev, loading, form, busy, mounts,
                   ticked, central, chosen>>

SummaryAnswered(s) ==
    /\ Answered(s, {"load"})
    /\ calls' = Freed(s)
    /\ view' = IF calls[s].stage = "failed" THEN "loadError"
               ELSE IF calls[s].rev = 0 THEN "idle" ELSE "loaded"
    /\ UNCHANGED <<store, rev, list, listRev, loading, form, busy, mounts,
                   ticked, central, chosen>>

RetryLoad(s) ==
    /\ view = "loadError" /\ Free(s)
    /\ view' = "loading"
    /\ calls' = Sent(s, "load", None)
    /\ UNCHANGED <<store, rev, list, listRev, loading, form, busy, mounts,
                   ticked, central, chosen>>

\* The stored consent ticks the box; its absence leaves it alone.
ConsentArrives(s) ==
    /\ Answered(s, {"quiet"})
    /\ calls' = Freed(s)
    /\ ticked' = (ticked \/ (central /\ Succeeded(s, {"quiet"})))
    /\ UNCHANGED <<store, rev, list, listRev, loading, form, busy, mounts,
                   view, central, chosen>>

Pickable == view \in {"idle", "loaded", "generateError"}

TickConsent ==
    /\ Pickable
    /\ ticked' = ~ticked
    /\ UNCHANGED <<tabVars, view, central, chosen>>

ToggleDocument(i) ==
    /\ Pickable
    /\ chosen' = IF i \in chosen THEN chosen \ {i} ELSE chosen \cup {i}
    /\ UNCHANGED <<tabVars, view, ticked, central>>

\* Every button asks for the tick but "regenerate", shown with a summary.
RunSummarize(s) ==
    /\ Pickable /\ (ticked \/ view = "loaded")
    /\ Free(s)
    /\ view' = "generating"
    /\ calls' = [calls EXCEPT ![s] = [Request("create", None) EXCEPT !.data = chosen]]
    /\ UNCHANGED <<store, rev, list, listRev, loading, form, busy, mounts,
                   ticked, central, chosen>>

\* Broken variant: an error status is reported above the spinner.
SummarizedQuietly(s) ==
    /\ Answered(s, {"create"})
    /\ IF Succeeded(s, {"create"})
          THEN view' = "loaded" /\ calls' = Sent(s, "load", None)
          ELSE view' \in {view, "generateError"} /\ calls' = Freed(s)
    /\ UNCHANGED <<store, rev, list, listRev, loading, form, busy, mounts,
                   ticked, central, chosen>>

\* The stored row is loaded on top of the answer; an error status leads back to the
\* picker, also if a summary was shown before.
Summarized(s) ==
    /\ Answered(s, {"create"})
    /\ IF Succeeded(s, {"create"})
          THEN view' = "loaded" /\ calls' = Sent(s, "load", None)
          ELSE view' \in {"idle", "generateError"} /\ calls' = Freed(s)
    /\ UNCHANGED <<store, rev, list, listRev, loading, form, busy, mounts,
                   ticked, central, chosen>>

-----------------------------------------------------------------------------
(* The API.                                                                *)

CheckProvider(s) ==
    /\ Under(s, {"status"}) /\ calls[s].stage = "sent"
    /\ \E found \in {"none", "active"} :
           calls' = [calls EXCEPT ![s].stage = "ok", ![s].job = found]
    /\ UNCHANGED <<store, rev, list, listRev, loading, form, busy, mounts, coverageVars>>

StoreSummary(s) ==
    /\ Under(s, {"create"}) /\ calls[s].stage = "sent"
    /\ Commit(s, store)
    /\ UNCHANGED coverageVars

RemountCoverage(s, t) ==
    /\ s # t /\ Free(t)
    /\ mounts < MaxMounts
    /\ Free(s)
    /\ LET Left(c) == [c EXCEPT !.fresh = FALSE, !.mine = FALSE]
       IN  calls' = [EachCall(Left) EXCEPT ![s] = Request("status", None),
                                           ![t] = Request("quiet", None)]
    /\ mounts' = mounts + 1
    /\ view' = "loading" /\ ticked' = FALSE /\ chosen' = {}
    /\ UNCHANGED <<store, rev, list, listRev, loading, form, busy, central>>

CoverageNext ==
    \/ TickConsent
    \/ \E i \in Ids : ToggleDocument(i)
    \/ \E s \in Slots :
         \/ AiStatusAnswered(s) \/ SummaryAnswered(s) \/ RetryLoad(s) \/ ConsentArrives(s)
         \/ RunSummarize(s) \/ Summarized(s)
         \/ CheckProvider(s) \/ StoreSummary(s)
         \/ (ServeList(s) \/ Refuse(s) \/ Ignore(s)) /\ UNCHANGED coverageVars
         \/ \E t \in Slots : RemountCoverage(s, t)

-----------------------------------------------------------------------------
\* Whoever sees the section load or generate waits for a request under way: two requests
\* answered in any order never leave a spinner behind
\* (coverage-summary-section.tsx:307-425).
ViewIsAwaited ==
    /\ view = "loading" => Mine({"status", "load"}) # {}
    /\ view = "generating" => Mine({"create"}) # {}

=============================================================================
