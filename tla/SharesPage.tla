------------------------------ MODULE SharesPage ------------------------------
(***************************************************************************)
(* household/shares/page.tsx: the shares of the household, a change of     *)
(* permission or a revocation per row, and the form that creates a share.  *)
(* For a share of one document the form first takes a policy and then      *)
(* offers its documents; for a share of a policy it takes the same policy  *)
(* field, and no documents are read.  Either field has a blank option,     *)
(* None.  Of the documents the model keeps whose they are; policies have   *)
(* ids of Ids too, and the scope INSURANCE stands for all others.          *)
(***************************************************************************)
EXTENDS PageRequests

VARIABLES
    scopeType,   \* of the form: "INSURANCE" or "DOCUMENT"
    policyId,    \* of the form
    documents,   \* the policy whose documents are offered
    astray       \* reads of documents crossed, or the policy was set without one

formVars == <<scopeType, policyId, documents, astray>>
sharesVars == <<pageVars, formVars>>

SharesInit ==
    /\ PageBegins({"none", "READ", "WRITE"}) /\ PageRestsElse
    /\ scopeType = "INSURANCE" /\ policyId = None /\ documents = None /\ astray = FALSE

ChooseScope ==
    /\ ~awaiting
    /\ scopeType' = IF scopeType = "DOCUMENT" THEN "INSURANCE" ELSE "DOCUMENT"
    /\ UNCHANGED <<pageVars, policyId, documents, astray>>

\* The value of a read is the policy it is for.
DocumentReads == {s \in Slots : posts[s] # None /\ posts[s].kind = "documents"}

ChooseInsurance(p) ==
    /\ ~awaiting /\ scopeType = "INSURANCE" /\ p # policyId
    /\ policyId' = p
    /\ astray' = (astray \/ documents # None \/ DocumentReads # {})
    /\ UNCHANGED <<pageVars, scopeType, documents>>

\* Nothing is read for the blank option; a read under way goes on.
ReadDocuments(s, p) ==
    /\ IF p = None THEN UNCHANGED <<posts, clicks>>
       ELSE NextClick(s) /\ posts' = Posted(s, "documents", p, "all", "none")
    /\ astray' = (DocumentReads # {})

\* Broken variant: the documents of the policy before stay until the answer.
LoadDocumentsLate(s, p) == ReadDocuments(s, p) /\ UNCHANGED documents

\* Whatever was offered is taken away first.
LoadDocumentsForPolicy(s, p) == ReadDocuments(s, p) /\ documents' = None

ChooseDocumentPolicy(s, p) ==
    /\ ~awaiting /\ scopeType = "DOCUMENT" /\ p # policyId
    /\ policyId' = p
    /\ LoadDocumentsForPolicy(s, p)
    /\ UNCHANGED <<table, onPage, pageFilter, awaiting, busyId, formLocked, crossed, scopeType>>

\* An error status leaves the documents alone, a lost connection takes them away.
DocumentsArrive(s) ==
    /\ CameBack(s, {"documents"})
    /\ documents' \in IF WentWell(s) THEN {posts[s].row} ELSE {documents, None}
    /\ posts' = Unposted(s)
    /\ UNCHANGED <<table, onPage, pageFilter, awaiting, busyId, formLocked, clicks, crossed,
                   scopeType, policyId, astray>>

HandleCreate(s) ==
    /\ scopeType = "DOCUMENT" => documents # None
    /\ StartForm(s, "createShare", None, "READ")
    /\ UNCHANGED formVars

\* The form is emptied, and so are the documents; a read of them goes on.
CreateDone(s) ==
    /\ CameBack(s, {"createShare"})
    /\ UNCHANGED pageFilter
    /\ IF WentWell(s)
          THEN /\ AskRows(s, "all")
               /\ policyId' = None /\ documents' = None
               /\ scopeType' = "INSURANCE"
               /\ astray' = (DocumentReads # {})
          ELSE /\ posts' = Unposted(s)
               /\ crossed' = TRUE
               /\ UNCHANGED formVars
    /\ formLocked' = FALSE
    /\ UNCHANGED <<table, onPage, awaiting, busyId, clicks>>

ChangePermission2(s, i, v) ==
    /\ onPage.rows[i] # "none" /\ onPage.rows[i] # v
    /\ StartRowAction(s, "permission", i, v)
    /\ UNCHANGED formVars

RevokeShare2(s, i) ==
    /\ onPage.rows[i] # "none"
    /\ StartRowAction(s, "revoke", i, "none")
    /\ UNCHANGED formVars

\* Broken variant: an action that failed leaves its row locked.
ShareActionDoneLocked(s) ==
    /\ CameBack(s, {"permission", "revoke"})
    /\ UNCHANGED pageFilter
    /\ IF WentWell(s) THEN AskRows(s, "all") /\ busyId' = None
                      ELSE posts' = Unposted(s) /\ crossed' = TRUE /\ UNCHANGED busyId
    /\ UNCHANGED <<table, onPage, awaiting, formLocked, clicks, formVars>>

ShareActionDone(s) ==
    /\ CameBack(s, {"permission", "revoke"})
    /\ UNCHANGED pageFilter
    /\ IF WentWell(s) THEN AskRows(s, "all")
                      ELSE posts' = Unposted(s) /\ crossed' = TRUE
    /\ busyId' = None
    /\ UNCHANGED <<table, onPage, awaiting, formLocked, clicks, formVars>>

-----------------------------------------------------------------------------
(* family-sharing.service.ts: 404 for a share that is gone.                *)

ServeShareWrite(s) ==
    /\ \/ \E i \in Ids : table[i] = "none" /\ AnswerWrite(s, {"createShare"}, i, "READ")
       \/ /\ s \in Underway({"permission", "revoke"}) /\ table[posts[s].row] # "none"
          /\ AnswerWrite(s, {"permission", "revoke"}, posts[s].row, posts[s].value)
    /\ UNCHANGED formVars

SharesPageNext ==
    \/ ChooseScope
    \/ \E p \in Ids \cup {None} : ChooseInsurance(p)
    \/ \E s \in Slots :
         \/ \E p \in Ids \cup {None} : ChooseDocumentPolicy(s, p)
         \/ \E i \in Ids : RevokeShare2(s, i) \/ \E v \in {"READ", "WRITE"} : ChangePermission2(s, i, v)
         \/ DocumentsArrive(s) \/ HandleCreate(s) \/ CreateDone(s) \/ ShareActionDone(s)
         \/ ServeShareWrite(s)
         \/ (AnswerRows(s) \/ RefusePost(s) \/ RowsArrive(s)) /\ UNCHANGED formVars

-----------------------------------------------------------------------------
\* The documents the form offers are those of the policy it shows, and none are
\* offered under the blank option; unless a policy or the blank was chosen while
\* documents were being read or under the other scope.
DocumentsOfPolicy == ~astray => documents \in {None, policyId}

=============================================================================
