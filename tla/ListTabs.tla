------------------------------ MODULE ListTabs ------------------------------
(***************************************************************************)
(* The tabs of the policy page that are a list with a form, with the       *)
(* endpoints they call: covered persons, portal links, and the costs, whose*)
(* tab has a card with the cost entries and, beside it, the documents that *)
(* bills can be read from (costs-tab.tsx).  For persons and links a submit *)
(* takes the current number, a delete takes a new one.                     *)
(***************************************************************************)
EXTENDS TabRequests

(* covered-persons-tab.tsx.  A reload clears the list.                     *)

\* Broken variant: whatever arrives is shown.
PersonsLoadedAnyhow(s) ==
    /\ Answered(s, {"load"})
    /\ calls' = Freed(s)
    /\ IF Succeeded(s, {"load"}) THEN list' = calls[s].data /\ listRev' = calls[s].rev
                                 ELSE UNCHANGED <<list, listRev>>
    /\ loading' = (loading /\ ~calls[s].fresh)
    /\ UNCHANGED <<store, rev, form, busy, mounts>>

PersonsLoaded(s) ==
    /\ Answered(s, {"load"})
    /\ calls' = Freed(s)
    /\ IF Succeeded(s, {"load"}) /\ calls[s].fresh
          THEN list' = calls[s].data /\ listRev' = calls[s].rev
          ELSE UNCHANGED <<list, listRev>>
    /\ loading' = (loading /\ ~calls[s].fresh)
    /\ UNCHANGED <<store, rev, form, busy, mounts>>

\* The request in slot s is done; a reload takes its place.
ReloadPersons(s) ==
    /\ calls' = SentAnew(s, "load", None)
    /\ list' = {}
    /\ loading' = TRUE
    /\ UNCHANGED listRev

AddPerson ==
    /\ form' = "new"
    /\ UNCHANGED <<store, rev, calls, list, listRev, loading, busy, mounts>>

EditPerson(i) ==
    /\ ~loading /\ i \in list
    /\ form' = i
    /\ UNCHANGED <<store, rev, calls, list, listRev, loading, busy, mounts>>

CancelPerson ==
    /\ form' = "closed"
    /\ UNCHANGED <<store, rev, calls, list, listRev, loading, busy, mounts>>

SubmitPerson(s) ==
    /\ form # "closed" /\ ~busy
    /\ Free(s)
    /\ calls' = IF form = "new" THEN Sent(s, "create", None) ELSE Sent(s, "update", form)
    /\ busy' = TRUE
    /\ UNCHANGED <<store, rev, list, listRev, loading, form, mounts>>

\* Broken variant: only the newest request gives the button free.
PersonSavedGated(s) ==
    /\ Answered(s, Saves)
    /\ IF Succeeded(s, Saves) /\ calls[s].fresh
          THEN form' = "closed" /\ ReloadPersons(s)
          ELSE calls' = Freed(s) /\ UNCHANGED <<list, listRev, loading, form>>
    /\ busy' = ~calls[s].fresh
    /\ UNCHANGED <<store, rev, mounts>>

\* The lock goes whatever came back; the form only closes if nothing was deleted meanwhile.
PersonSaved(s) ==
    /\ Answered(s, Saves)
    /\ IF Succeeded(s, Saves) /\ calls[s].fresh
          THEN form' = "closed" /\ ReloadPersons(s)
          ELSE calls' = Freed(s) /\ UNCHANGED <<list, listRev, loading, form>>
    /\ busy' = FALSE
    /\ UNCHANGED <<store, rev, mounts>>

DeletePerson(s, i) ==
    /\ ~loading /\ i \in list
    /\ Free(s)
    /\ calls' = SentAnew(s, "delete", i)
    /\ UNCHANGED <<store, rev, list, listRev, loading, form, busy, mounts>>

PersonDeleted(s) ==
    /\ Answered(s, {"delete"})
    /\ IF Succeeded(s, {"delete"}) /\ calls[s].fresh
          THEN ReloadPersons(s)
          ELSE calls' = Freed(s) /\ UNCHANGED <<list, listRev, loading>>
    /\ UNCHANGED <<store, rev, form, busy, mounts>>

AddCoveredPerson(s) == Insert(s, "create")
UpdateCoveredPerson(s) == Change(s, "update")
RemoveCoveredPerson(s) == Erase(s, "delete")

PersonsNext ==
    \/ AddPerson \/ CancelPerson
    \/ \E i \in Ids : EditPerson(i)
    \/ \E s \in Slots :
         \/ PersonsLoaded(s) \/ SubmitPerson(s) \/ PersonSaved(s) \/ PersonDeleted(s)
         \/ \E i \in Ids : DeletePerson(s, i)
         \/ AddCoveredPerson(s) \/ UpdateCoveredPerson(s) \/ RemoveCoveredPerson(s)
         \/ ServeList(s) \/ Refuse(s) \/ Remount(s) \/ Ignore(s)

-----------------------------------------------------------------------------
(* portal-links-tab.tsx repeats these steps for another list and other     *)
(* endpoints.  The portal URL of the policy that prefills a new link comes *)
(* and goes with the list; form contents are left out, the emptied fields  *)
(* that a PATCH does not send included.                                    *)

LinksLoaded(s) == PersonsLoaded(s)

ReloadLinks(s) == ReloadPersons(s)

StartCreate == AddPerson

EditLink(i) == EditPerson(i)

CancelLink == CancelPerson

SubmitLink(s) == SubmitPerson(s)

LinkSaved(s) ==
    /\ Answered(s, Saves)
    /\ IF Succeeded(s, Saves) /\ calls[s].fresh
          THEN form' = "closed" /\ ReloadLinks(s)
          ELSE calls' = Freed(s) /\ UNCHANGED <<list, listRev, loading, form>>
    /\ busy' = FALSE
    /\ UNCHANGED <<store, rev, mounts>>

DeleteLink(s, i) == DeletePerson(s, i)

LinkDeleted(s) ==
    /\ Answered(s, {"delete"})
    /\ IF Succeeded(s, {"delete"}) /\ calls[s].fresh
          THEN ReloadLinks(s)
          ELSE calls' = Freed(s) /\ UNCHANGED <<list, listRev, loading>>
    /\ UNCHANGED <<store, rev, form, busy, mounts>>

CreatePortalLink(s) == Insert(s, "create")
UpdatePortalLink(s) == Change(s, "update")
RemovePortalLink(s) == Erase(s, "delete")

LinksNext ==
    \/ StartCreate \/ CancelLink
    \/ \E i \in Ids : EditLink(i)
    \/ \E s \in Slots :
         \/ LinksLoaded(s) \/ SubmitLink(s) \/ LinkSaved(s) \/ LinkDeleted(s)
         \/ \E i \in Ids : DeleteLink(s, i)
         \/ CreatePortalLink(s) \/ UpdatePortalLink(s) \/ RemovePortalLink(s)
         \/ ServeList(s) \/ Refuse(s) \/ Remount(s) \/ Ignore(s)

-----------------------------------------------------------------------------
(* costs-overview-card.tsx with the endpoints of the cost entries.  Every  *)
(* request takes a new number, saves too, and a reload keeps what is shown *)
(* until it is answered.  The form of a new entry is always open; form holds*)
(* the row under edit.  The schedule and the entries of one reload are read*)
(* as one, and what an AI proposal fills in is left out.                   *)

\* Both are set, to nothing after a failure.
CostsLoaded(s) ==
    /\ Answered(s, {"load"})
    /\ calls' = Freed(s)
    /\ IF calls[s].fresh
          THEN /\ list' = IF Succeeded(s, {"load"}) THEN calls[s].data ELSE {}
               /\ listRev' = IF Succeeded(s, {"load"}) THEN calls[s].rev ELSE listRev
               /\ loading' = FALSE
          ELSE UNCHANGED <<list, listRev, loading>>
    /\ UNCHANGED <<store, rev, form, busy, mounts>>

ReloadCosts(s) == calls' = SentAnew(s, "load", None)

CreateCost(s) ==
    /\ ~loading /\ ~busy
    /\ Free(s)
    /\ calls' = SentAnew(s, "create", None)
    /\ busy' = TRUE
    /\ UNCHANGED <<store, rev, list, listRev, loading, form, mounts>>

CostCreated(s) ==
    /\ Answered(s, {"create"})
    /\ IF Succeeded(s, {"create"}) /\ calls[s].fresh THEN ReloadCosts(s) ELSE calls' = Freed(s)
    /\ busy' = FALSE
    /\ UNCHANGED <<store, rev, list, listRev, loading, form, mounts>>

EditCost(i) ==
    /\ ~loading /\ i \in list
    /\ form' = i
    /\ UNCHANGED <<store, rev, calls, list, listRev, loading, busy, mounts>>

CancelCost ==
    /\ ~loading /\ form \in list
    /\ form' = "closed"
    /\ UNCHANGED <<store, rev, calls, list, listRev, loading, busy, mounts>>

\* The edit row is only there while its entry is listed.
UpdateCost(s) ==
    /\ ~loading /\ ~busy /\ form \in list
    /\ Free(s)
    /\ calls' = SentAnew(s, "update", form)
    /\ busy' = TRUE
    /\ UNCHANGED <<store, rev, list, listRev, loading, form, mounts>>

\* Whatever row is being edited by now is closed.
CostUpdated(s) ==
    /\ Answered(s, {"update"})
    /\ IF Succeeded(s, {"update"}) /\ calls[s].fresh
          THEN form' = "closed" /\ ReloadCosts(s)
          ELSE calls' = Freed(s) /\ UNCHANGED form
    /\ busy' = FALSE
    /\ UNCHANGED <<store, rev, list, listRev, loading, mounts>>

DeleteCost(s, i) ==
    /\ ~loading /\ i \in list \ {form}
    /\ Free(s)
    /\ calls' = SentAnew(s, "delete", i)
    /\ UNCHANGED <<store, rev, list, listRev, loading, form, busy, mounts>>

\* No edit is closed: the handler looks at the editingId of the click, when the row
\* under edit offered no delete.
CostDeleted(s) ==
    /\ Answered(s, {"delete"})
    /\ IF Succeeded(s, {"delete"}) /\ calls[s].fresh THEN ReloadCosts(s) ELSE calls' = Freed(s)
    /\ UNCHANGED <<store, rev, list, listRev, loading, form, busy, mounts>>

InsertEntry(s) == Insert(s, "create")
ChangeEntry(s) == Change(s, "update")
EraseEntry(s) == Erase(s, "delete")

CardNext ==
    \/ CancelCost
    \/ \E i \in Ids : EditCost(i)
    \/ \E s \in Slots :
         \/ CostsLoaded(s) \/ CreateCost(s) \/ CostCreated(s)
         \/ UpdateCost(s) \/ CostUpdated(s) \/ CostDeleted(s)
         \/ \E i \in Ids : DeleteCost(s, i)
         \/ InsertEntry(s) \/ ChangeEntry(s) \/ EraseEntry(s)
         \/ ServeList(s) \/ Refuse(s) \/ Remount(s) \/ Ignore(s)

-----------------------------------------------------------------------------
(* billing-documents-sidebar.tsx.  Its list is loaded again, without a     *)
(* spinner, whenever the card has written an entry: each load cancels the  *)
(* one before.  One proposal at a time is asked from the AI provider; busy *)
(* holds while it is.  Here rev counts the cost entries written, which     *)
(* decide what the list marks as used.                                     *)

BillingLoaded(s) ==
    /\ Answered(s, {"load"})
    /\ calls' = Freed(s)
    /\ IF calls[s].fresh
          THEN /\ list' = IF Succeeded(s, {"load"}) THEN calls[s].data ELSE {}
               /\ listRev' = IF Succeeded(s, {"load"}) THEN calls[s].rev ELSE listRev
               /\ loading' = FALSE
          ELSE UNCHANGED <<list, listRev, loading>>
    /\ UNCHANGED <<store, rev, form, busy, mounts>>

\* The card counts refreshToken up after a write: the effect runs again.
EntriesChanged(s) ==
    /\ Free(s)
    /\ LET Cancelled(c) == [c EXCEPT !.fresh = c.fresh /\ c.kind # "load"]
       IN  calls' = [EachCall(Cancelled) EXCEPT ![s] = Request("load", None)]
    /\ UNCHANGED <<store, rev, list, listRev, loading, form, busy, mounts>>

\* Only with the consent box ticked and while no other proposal is awaited.
RequestSuggestion(s, i) ==
    /\ ~loading /\ i \in list /\ ~busy
    /\ Free(s)
    /\ calls' = Sent(s, "suggest", i)
    /\ busy' = TRUE
    /\ UNCHANGED <<store, rev, list, listRev, loading, form, mounts>>

\* A proposal goes to the card, a failure is shown here.
SuggestionArrives(s) ==
    /\ Answered(s, {"suggest"})
    /\ calls' = Freed(s)
    /\ busy' = FALSE
    /\ UNCHANGED <<store, rev, list, listRev, loading, form, mounts>>

Suggest(s) ==
    /\ Under(s, {"suggest"}) /\ calls[s].stage = "sent"
    /\ calls' = [calls EXCEPT ![s].stage = "ok"]
    /\ UNCHANGED <<store, rev, list, listRev, loading, form, busy, mounts>>

\* Another entry refers to one of the documents, or a document is classified.
EntryWritten ==
    /\ rev < MaxRev
    /\ rev' = rev + 1
    /\ \E i \in Ids : store' = [store EXCEPT ![i] = IF store[i] = "live" THEN "gone" ELSE "live"]
    /\ UNCHANGED <<calls, list, listRev, loading, form, busy, mounts>>

SidebarNext ==
    \/ EntryWritten
    \/ \E s \in Slots :
         \/ BillingLoaded(s) \/ EntriesChanged(s) \/ SuggestionArrives(s) \/ Suggest(s)
         \/ \E i \in Ids : RequestSuggestion(s, i)
         \/ ServeList(s) \/ Refuse(s) \/ Remount(s) \/ Ignore(s)

=============================================================================
