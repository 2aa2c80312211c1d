---------------------------- MODULE DocumentsTab ----------------------------
(***************************************************************************)
(* documents-tab.tsx: the list of documents with upload, linking, removal, *)
(* retry of a failed tag and bulk classification, and the quiet refresh    *)
(* its tag section asks for after a reconciliation.  The class filter is   *)
(* applied in the browser; an effect takes out of the selection what is    *)
(* not visible any more.  Which origin a document has, and so whether its  *)
(* row offers to delete it, is left open.                                  *)
(***************************************************************************)
EXTENDS TabRequests

VARIABLES
    passing,    \* documents of the class the filter asks for; Ids: no filter
    selected,   \* ticked for the bulk classification
    classifying \* its button is locked

docVars == <<passing, selected, classifying>>

Visible == list \cap passing

DocInit ==
    /\ TabInit
    /\ passing = Ids /\ selected = {} /\ classifying = FALSE

\* Broken variant of PruneSelection: what has vanished stays ticked.
KeepSelection(ids, visible) == ids

PruneSelection(ids, visible) == ids \cap visible

\* The rows come with their classes; the effect on [documents, filterValue] follows.
ShowDocuments(docs) ==
    /\ list' = docs
    /\ passing' \in IF passing = Ids THEN {Ids} ELSE SUBSET Ids
    /\ selected' = PruneSelection(selected, docs \cap passing')

ReloadDocuments(s) ==
    /\ calls' = SentAnew(s, "load", None)
    /\ ShowDocuments({})
    /\ loading' = TRUE
    /\ UNCHANGED listRev

DocumentsLoaded(s) ==
    /\ Answered(s, {"load"})
    /\ calls' = Freed(s)
    /\ IF Succeeded(s, {"load"}) /\ calls[s].fresh
          THEN ShowDocuments(calls[s].data) /\ listRev' = calls[s].rev
          ELSE UNCHANGED <<list, listRev, passing, selected>>
    /\ loading' = (loading /\ ~calls[s].fresh)
    /\ UNCHANGED <<store, rev, form, busy, mounts, classifying>>

\* PaperlessTagSection calls onDocumentsChanged.
RefreshDocumentsQuiet(s) ==
    /\ Free(s)
    /\ calls' = SentAnew(s, "quiet", None)
    /\ UNCHANGED <<store, rev, list, listRev, loading, form, busy, mounts, docVars>>

DocumentsRefreshed(s) ==
    /\ Answered(s, {"quiet"})
    /\ calls' = Freed(s)
    /\ IF Succeeded(s, {"quiet"}) /\ calls[s].fresh
          THEN ShowDocuments(calls[s].data) /\ listRev' = calls[s].rev
          ELSE UNCHANGED <<list, listRev, passing, selected>>
    /\ UNCHANGED <<store, rev, loading, form, busy, mounts, classifying>>

-----------------------------------------------------------------------------
OpenUpload ==
    /\ form' = "new"
    /\ UNCHANGED <<store, rev, calls, list, listRev, loading, busy, mounts, docVars>>

CancelUpload ==
    /\ form' = "closed"
    /\ UNCHANGED <<store, rev, calls, list, listRev, loading, busy, mounts, docVars>>

SubmitUpload(s) ==
    /\ form = "new" /\ ~busy
    /\ Free(s)
    /\ calls' = Sent(s, "create", None)
    /\ busy' = TRUE
    /\ UNCHANGED <<store, rev, list, listRev, loading, form, mounts, docVars>>

UploadDone(s) ==
    /\ Answered(s, {"create"})
    /\ IF Succeeded(s, {"create"}) /\ calls[s].fresh
          THEN form' = "closed" /\ ReloadDocuments(s)
          ELSE /\ calls' = Freed(s)
               /\ UNCHANGED <<list, listRev, loading, form, passing, selected>>
    /\ busy' = FALSE
    /\ UNCHANGED <<store, rev, mounts, classifying>>

\* A click on a search hit links it, one on "try again" repeats a failed tagging.
Click(s, kind, row) ==
    /\ Free(s)
    /\ calls' = IF kind = "delete" THEN SentAnew(s, kind, row) ELSE Sent(s, kind, row)
    /\ UNCHANGED <<store, rev, list, listRev, loading, form, busy, mounts, docVars>>

HandleLinkPaperless(s) == Click(s, "link", None)
HandleRetryTagging(s, i) == ~loading /\ i \in Visible /\ Click(s, "retry", i)
HandleDelete(s, i) == ~loading /\ i \in Visible /\ Click(s, "delete", i)

\* Each of the three reloads the list if it succeeded and nothing newer was asked.
ClickDone(s) ==
    /\ Answered(s, {"link", "retry", "delete"})
    /\ IF calls[s].stage = "ok" /\ calls[s].fresh
          THEN ReloadDocuments(s)
          ELSE calls' = Freed(s) /\ UNCHANGED <<list, listRev, loading, passing, selected>>
    /\ UNCHANGED <<store, rev, form, busy, mounts, classifying>>

-----------------------------------------------------------------------------
SetFilter(shown) ==
    /\ ~loading /\ list # {}
    /\ passing' = shown
    /\ selected' = PruneSelection(selected, list \cap shown)
    /\ UNCHANGED <<tabVars, classifying>>

ToggleSelected(i) ==
    /\ ~loading /\ i \in Visible
    /\ selected' = IF i \in selected THEN selected \ {i} ELSE selected \cup {i}
    /\ UNCHANGED <<tabVars, passing, classifying>>

HandleBulkClassify(s) ==
    /\ ~loading /\ Visible # {}
    /\ ~classifying /\ selected # {}
    /\ Free(s)
    /\ calls' = Sent(s, "classify", None)
    /\ classifying' = TRUE
    /\ UNCHANGED <<store, rev, list, listRev, loading, form, busy, mounts, passing, selected>>

\* The reload empties the selection as well.
BulkClassified(s) ==
    /\ Answered(s, {"classify"})
    /\ IF Succeeded(s, {"classify"}) /\ calls[s].fresh
          THEN ReloadDocuments(s)
          ELSE calls' = Freed(s) /\ UNCHANGED <<list, listRev, loading, passing, selected>>
    /\ classifying' = FALSE
    /\ UNCHANGED <<store, rev, form, busy, mounts>>

-----------------------------------------------------------------------------
(* The API.  Linking finds a document that is linked already; the other    *)
(* two write columns the model does not have.                              *)

StoreDocument(s) == Insert(s, "create") /\ UNCHANGED docVars
RemoveDocument(s) == Erase(s, "delete") /\ UNCHANGED docVars
LinkDocument(s) ==
    /\ Under(s, {"link"}) /\ calls[s].stage = "sent"
    /\ \E i \in Ids : store[i] # "gone" /\ Commit(s, [store EXCEPT ![i] = "live"])
    /\ UNCHANGED docVars
RetryTagging(s) == Change(s, "retry") /\ UNCHANGED docVars
ClassifyDocuments(s) ==
    /\ Under(s, {"classify"}) /\ calls[s].stage = "sent"
    /\ Commit(s, store)
    /\ UNCHANGED docVars

RemountDocuments(s) ==
    /\ Remount(s)
    /\ passing' = Ids /\ selected' = {} /\ classifying' = FALSE

DocumentsNext ==
    \/ OpenUpload \/ CancelUpload
    \/ \E shown \in SUBSET Ids : SetFilter(shown)
    \/ \E i \in Ids : ToggleSelected(i)
    \/ \E s \in Slots :
         \/ DocumentsLoaded(s) \/ RefreshDocumentsQuiet(s) \/ DocumentsRefreshed(s)
         \/ SubmitUpload(s) \/ UploadDone(s)
         \/ HandleLinkPaperless(s) \/ ClickDone(s)
         \/ \E i \in Ids : HandleRetryTagging(s, i) \/ HandleDelete(s, i)
         \/ HandleBulkClassify(s) \/ BulkClassified(s)
         \/ StoreDocument(s) \/ RemoveDocument(s) \/ LinkDocument(s)
         \/ RetryTagging(s) \/ ClassifyDocuments(s)
         \/ (ServeList(s) \/ Refuse(s) \/ Ignore(s)) /\ UNCHANGED docVars
         \/ RemountDocuments(s)

-----------------------------------------------------------------------------
\* Every variable has its type.
DocTypeOK ==
    /\ TabTypeOK
    /\ passing \subseteq Ids /\ selected \subseteq Ids /\ classifying \in BOOLEAN

\* A reload or a filter never leaves a document ticked that the user cannot see: "otherwise
\* the bulk action would reclassify documents the user cannot see any more"
\* (documents-tab.tsx:504-507).
SelectedVisible == selected \subseteq Visible

\* The bulk button is locked as long as its request is under way.
ClassifyingIsClassify == classifying <=> Mine({"classify"}) # {}

=============================================================================
