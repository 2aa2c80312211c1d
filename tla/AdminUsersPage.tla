--------------------------- MODULE AdminUsersPage ---------------------------
(***************************************************************************)
(* admin/users/page.tsx with the endpoints it calls: the list of accounts  *)
(* with its filter, the actions on a row, and the dialog that sets a new   *)
(* password.  An action reads the rows again with the filter of the moment *)
(* it began (loadUsers is the one of that rendering).                      *)
(***************************************************************************)
EXTENDS PageRequests

VARIABLE resetTarget   \* the account the dialog is open for

StatusActions == {"approve", "reject", "disable", "enable"}

\* What the API asks for, which is when the page offers the button, and what it writes.
Before(action) ==
    CASE action \in {"approve", "reject"} -> "PENDING_APPROVAL"
      [] action = "disable" -> "ACTIVE"
      [] action = "enable" -> "DISABLED"

After(action) == IF action \in {"approve", "enable"} THEN "ACTIVE" ELSE "DISABLED"

UsersInit ==
    /\ PageBegins({"PENDING_APPROVAL", "ACTIVE", "DISABLED"}) /\ PageRestsElse
    /\ resetTarget = None

SetStatusFilter(s, f) ==
    /\ ~awaiting /\ f # pageFilter
    /\ NextClick(s)
    /\ pageFilter' = f
    /\ AskRows(s, f)
    /\ awaiting' = TRUE
    /\ UNCHANGED <<table, onPage, busyId, formLocked, resetTarget>>

RunAction(s, action, i) ==
    /\ onPage.rows[i] = Before(action)
    /\ StartRowAction(s, action, i, After(action))
    /\ UNCHANGED resetTarget

ApplyRole(s, i) ==
    /\ onPage.rows[i] # "none"
    /\ StartRowAction(s, "role", i, "none")
    /\ UNCHANGED resetTarget

\* Broken variant: the list is not read again.
ActionDoneUnread(s) ==
    /\ CameBack(s, StatusActions \cup {"role"})
    /\ posts' = Unposted(s)
    /\ crossed' = (crossed \/ ~WentWell(s))
    /\ busyId' = None
    /\ UNCHANGED <<table, onPage, pageFilter, awaiting, formLocked, clicks, resetTarget>>

ActionDone(s) ==
    /\ CameBack(s, StatusActions \cup {"role"})
    /\ UNCHANGED pageFilter
    /\ IF WentWell(s)
          THEN AskRows(s, posts[s].filter) /\ awaiting' = TRUE
          ELSE posts' = Unposted(s) /\ crossed' = TRUE /\ UNCHANGED awaiting
    /\ busyId' = None
    /\ UNCHANGED <<table, onPage, formLocked, clicks, resetTarget>>

OpenResetDialog(i) ==
    /\ ~awaiting /\ onPage.rows[i] # "none" /\ busyId # i
    /\ resetTarget' = i
    /\ UNCHANGED pageVars

CloseResetDialog ==
    /\ ~awaiting
    /\ resetTarget' = None
    /\ UNCHANGED pageVars

SubmitReset(s) ==
    /\ resetTarget # None
    /\ StartForm(s, "resetPassword", resetTarget, "none")
    /\ UNCHANGED resetTarget

\* A reset that went well closes the dialog, whoever it is open for by now.
ResetDone(s) ==
    /\ CameBack(s, {"resetPassword"})
    /\ UNCHANGED pageFilter
    /\ IF WentWell(s)
          THEN AskRows(s, posts[s].filter) /\ awaiting' = TRUE /\ resetTarget' = None
          ELSE posts' = Unposted(s) /\ UNCHANGED <<awaiting, crossed, resetTarget>>
    /\ formLocked' = FALSE
    /\ UNCHANGED <<table, onPage, busyId, clicks>>

-----------------------------------------------------------------------------
(* user-admin.service.ts: 409 when the account is in another state.        *)

ChangeStatus(s) ==
    \E action \in StatusActions :
        /\ s \in Underway({action})
        /\ table[posts[s].row] = Before(action)
        /\ AnswerWrite(s, {action}, posts[s].row, After(action))
        /\ UNCHANGED resetTarget

ChangeOther(s) ==
    /\ s \in Underway({"role", "resetPassword"})
    /\ AnswerWrite(s, {"role", "resetPassword"}, posts[s].row, table[posts[s].row])
    /\ UNCHANGED resetTarget

UsersNext ==
    \/ CloseResetDialog
    \/ \E i \in Ids : OpenResetDialog(i)
    \/ \E s \in Slots :
         \/ \E f \in {"all", "PENDING_APPROVAL"} : SetStatusFilter(s, f)
         \/ \E i \in Ids : ApplyRole(s, i) \/ \E action \in StatusActions : RunAction(s, action, i)
         \/ SubmitReset(s) \/ ActionDone(s) \/ ResetDone(s)
         \/ ChangeStatus(s) \/ ChangeOther(s)
         \/ (AnswerRows(s) \/ RefusePost(s) \/ RowsArrive(s)) /\ UNCHANGED resetTarget

=============================================================================
