----------------------------- MODULE PolicyPage -----------------------------
(***************************************************************************)
(* policies/[id]/page.tsx: the header and master data of the policy in the *)
(* address bar.  A row is a policy, list the one shown, busy the locked    *)
(* delete button.  The tabs, which it mounts below the header once the     *)
(* policy is there, are the other modules.                                 *)
(***************************************************************************)
EXTENDS TabRequests

VARIABLE url        \* the policy in the address bar; None: the list of policies

PageInit ==
    /\ store = [i \in Ids |-> "live"] /\ rev = 0
    /\ url \in Ids
    /\ \E s \in Slots : calls = [t \in Slots |-> IF t = s THEN Request("load", url) ELSE None]
    /\ list = {} /\ listRev = 0 /\ loading = TRUE
    /\ form = "closed" /\ busy = FALSE
    /\ mounts = 1

\* The effect on [policyId, t]; its cleanup cancels the request before.  A switch of the
\* language asks for the same policy again.
OpenPolicy(s, i) ==
    /\ url # None /\ Free(s)
    /\ url' = i
    /\ LET Cancelled(c) == [c EXCEPT !.fresh = c.fresh /\ c.kind # "load"]
       IN  calls' = [EachCall(Cancelled) EXCEPT ![s] = Request("load", i)]
    /\ list' = {} /\ loading' = TRUE
    /\ UNCHANGED <<store, rev, listRev, form, busy, mounts>>

\* An archived policy is found as well.
ServePolicy(s) ==
    /\ Under(s, {"load"}) /\ calls[s].stage = "sent"
    /\ calls' = [calls EXCEPT ![s].stage = "ok", ![s].data = {calls[s].row}, ![s].rev = rev]
    /\ UNCHANGED <<store, rev, list, listRev, loading, form, busy, mounts, url>>

PolicyLoaded(s) ==
    /\ Answered(s, {"load"})
    /\ calls' = Freed(s)
    /\ IF calls[s].fresh
          THEN /\ list' = IF Succeeded(s, {"load"}) THEN calls[s].data ELSE {}
               /\ loading' = FALSE
          ELSE UNCHANGED <<list, loading>>
    /\ UNCHANGED <<store, rev, listRev, form, busy, mounts, url>>

DeletePolicy(s) ==
    /\ url # None /\ ~loading /\ list # {} /\ ~busy
    /\ Free(s)
    /\ calls' = Sent(s, "delete", url)
    /\ busy' = TRUE
    /\ UNCHANGED <<store, rev, list, listRev, loading, form, mounts, url>>

ArchivePolicy(s) == Erase(s, "delete") /\ UNCHANGED url

\* Wherever the user is by now, a success leads to the list of archived policies.
PolicyDeleted(s) ==
    /\ Answered(s, {"delete"})
    /\ IF Succeeded(s, {"delete"})
          THEN /\ url' = None
               /\ calls' = [t \in Slots |-> None]
               /\ UNCHANGED busy
          ELSE /\ calls' = Freed(s)
               /\ busy' = FALSE
               /\ UNCHANGED url
    /\ UNCHANGED <<store, rev, list, listRev, loading, form, mounts>>

PageNext ==
    \E s \in Slots :
        \/ \E i \in Ids : OpenPolicy(s, i)
        \/ ServePolicy(s) \/ PolicyLoaded(s)
        \/ DeletePolicy(s) \/ ArchivePolicy(s) \/ PolicyDeleted(s)
        \/ Refuse(s) /\ UNCHANGED url

-----------------------------------------------------------------------------
\* "neither the header nor the master data of A may transiently appear under /policies/B"
\* (page.tsx:102-106), and the spinner waits for the request that takes it away.
PageIsUrl ==
    url # None => /\ list \subseteq {url}
                  /\ loading => \E s \in Mine({"load"}) : calls[s].fresh /\ calls[s].row = url

=============================================================================
