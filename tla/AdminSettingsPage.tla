-------------------------- MODULE AdminSettingsPage --------------------------
(***************************************************************************)
(* admin/settings/page.tsx: the catalogue of system settings, where one    *)
(* entry at a time is edited, and any may be reset or tested.  After a     *)
(* write only that entry is read again.  crossed becomes true when two     *)
(* reads of one entry are under way at once.                               *)
(***************************************************************************)
EXTENDS PageRequests

VARIABLES
    editingKey,   \* the entry whose form is open
    testing       \* the entries whose connection is being tested

editVars == <<editingKey, testing>>

SettingsPageInit ==
    /\ PageBegins({"first", "second"}) /\ PageRestsElse
    /\ editingKey = None /\ testing = {}

StartEdit(i) ==
    /\ ~awaiting /\ onPage.rows[i] # "none"
    /\ editingKey' \in {i, None}
    /\ UNCHANGED <<pageVars, testing>>

SaveEdit(s, v) ==
    /\ editingKey # None
    /\ StartForm(s, "saveSetting", editingKey, v)
    /\ UNCHANGED editVars

ReadsOf(i) == {s \in Underway({"entry", "refreshSaved"}) : posts[s].row = i}

\* refreshEntry, in the slot of the request before it.
RefreshEntry(s, kind, i) ==
    /\ posts' = Posted(s, kind, i, "all", "none")
    /\ crossed' = (crossed \/ ReadsOf(i) # {})

\* Whatever form is open is closed; the lock stays until the entry is read again.
SaveDone(s) ==
    /\ CameBack(s, {"saveSetting"})
    /\ IF WentWell(s)
          THEN /\ editingKey' = None
               /\ RefreshEntry(s, "refreshSaved", posts[s].row)
               /\ UNCHANGED formLocked
          ELSE /\ posts' = Unposted(s) /\ formLocked' = FALSE /\ crossed' = TRUE
               /\ UNCHANGED editingKey
    /\ UNCHANGED <<table, onPage, pageFilter, awaiting, busyId, clicks, testing>>

\* Broken variant: only a read that went well gives the form free.
EntryArrivesFree(s) ==
    /\ CameBack(s, {"entry", "refreshSaved"})
    /\ LET i == posts[s].row IN
          IF WentWell(s)
             THEN /\ onPage' = [onPage EXCEPT !.rows[i] = posts[s].rows[i]]
                  /\ testing' = testing \ {i}
                  /\ formLocked' = (formLocked /\ posts[s].kind = "entry")
                  /\ UNCHANGED crossed
             ELSE crossed' = TRUE /\ UNCHANGED <<onPage, testing, formLocked>>
    /\ posts' = Unposted(s)
    /\ UNCHANGED <<table, pageFilter, awaiting, busyId, clicks, editingKey>>

EntryArrives(s) ==
    /\ CameBack(s, {"entry", "refreshSaved"})
    /\ LET i == posts[s].row IN
          IF WentWell(s)
             THEN /\ onPage' = [onPage EXCEPT !.rows[i] = posts[s].rows[i]]
                  /\ testing' = testing \ {i}
                  /\ UNCHANGED crossed
             ELSE crossed' = TRUE /\ UNCHANGED <<onPage, testing>>
    /\ formLocked' = (formLocked /\ posts[s].kind = "entry")
    /\ posts' = Unposted(s)
    /\ UNCHANGED <<table, pageFilter, awaiting, busyId, clicks, editingKey>>

StartReset(s, i) ==
    /\ ~awaiting /\ onPage.rows[i] # "none" /\ editingKey # i
    /\ NextClick(s)
    /\ posts' = Posted(s, "unset", i, "all", "first")
    /\ UNCHANGED <<table, onPage, pageFilter, awaiting, busyId, formLocked, crossed, editVars>>

\* A form stays open, the entry's own too: the handler looks at the editingKey of
\* the click, when that entry offered no reset while its form was open.
ResetEntryDone(s) ==
    /\ CameBack(s, {"unset"})
    /\ IF WentWell(s) THEN RefreshEntry(s, "entry", posts[s].row)
                      ELSE posts' = Unposted(s) /\ crossed' = TRUE
    /\ UNCHANGED <<table, onPage, pageFilter, awaiting, busyId, formLocked, clicks, editVars>>

StartTest(s, i) ==
    /\ ~awaiting /\ onPage.rows[i] # "none" /\ editingKey # i /\ i \notin testing
    /\ NextClick(s)
    /\ posts' = Posted(s, "test", i, "all", "none")
    /\ testing' = testing \cup {i}
    /\ UNCHANGED <<table, onPage, pageFilter, awaiting, busyId, formLocked, crossed, editingKey>>

TestDone(s) ==
    /\ CameBack(s, {"test"})
    /\ testing' = testing \ {posts[s].row}
    /\ posts' = Unposted(s)
    /\ UNCHANGED <<table, onPage, pageFilter, awaiting, busyId, formLocked, clicks, crossed,
                   editingKey>>

-----------------------------------------------------------------------------
(* The API: a value is written, or the entry goes back to its first value. *)

ServeSetting(s) ==
    /\ s \in Underway({"saveSetting", "unset"})
    /\ AnswerWrite(s, {"saveSetting", "unset"}, posts[s].row, posts[s].value)
    /\ UNCHANGED editVars

\* A test writes nothing.
ServeTest(s) ==
    /\ s \in Underway({"test"})
    /\ AnswerWrite(s, {"test"}, posts[s].row, table[posts[s].row])
    /\ UNCHANGED editVars

SettingsPageNext ==
    \/ \E i \in Ids : StartEdit(i)
    \/ \E s \in Slots :
         \/ \E v \in {"first", "second"} : SaveEdit(s, v)
         \/ \E i \in Ids : StartReset(s, i) \/ StartTest(s, i)
         \/ SaveDone(s) \/ EntryArrives(s) \/ ResetEntryDone(s) \/ TestDone(s)
         \/ ServeSetting(s) \/ ServeTest(s)
         \/ (AnswerRows(s) \/ RefusePost(s) \/ RowsArrive(s)) /\ UNCHANGED editVars

-----------------------------------------------------------------------------
\* An entry said to be under test has its test under way.
TestsBacked == \A i \in testing : \E s \in Underway({"test"}) : posts[s].row = i

=============================================================================
