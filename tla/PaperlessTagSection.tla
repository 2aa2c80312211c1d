------------------------ MODULE PaperlessTagSection -------------------------
(***************************************************************************)
(* paperless-tag-section.tsx, below the documents of a policy.  The row of *)
(* TabRequests that is live is the tag assigned to the policy, the list    *)
(* shows at most that one, form is the search and create panel, busy locks *)
(* every button.  seq numbers the configuration loads only; the status     *)
(* requests of the resume effect are cancelled by its cleanup, and the     *)
(* polling ones, tick, look at pollingRef.                                 *)
(*                                                                         *)
(* The parent hands in a new onDocumentsChanged with every render, so the  *)
(* resume effect stops the polling and asks for the status again whenever  *)
(* the documents tab renders.  A poll whose answer is late may outlive the *)
(* stop and run beside the next one: only the last timer is in pollRef,    *)
(* the others are strays.  The number of failed polls is not counted: any  *)
(* may be the one after MAX_POLL_FAILURES.                                 *)
(***************************************************************************)
EXTENDS TabRequests

CONSTANT MaxStrays  \* bound on timers that are not in pollRef

ASSUME StraysAssumption == MaxStrays \in Nat

VARIABLES
    syncJob,    \* the policy's latest SYNC_POLICY job
    progress,   \* its state as shown; the refresh button is locked while active
    polling,    \* pollingRef
    timer,      \* pollRef holds a timer that has not fired
    strays      \* other timers that have not fired

pollVars == <<progress, polling, timer, strays>>
sectionVars == <<syncJob, progress, polling, timer, strays>>

SectionInit ==
    /\ store \in {[i \in Ids |-> IF i = tag THEN "live" ELSE "new"] : tag \in Ids \cup {None}}
    /\ rev = 0
    /\ \E s, t \in Slots :
         /\ s # t
         /\ calls = [u \in Slots |-> IF u = s THEN Request("load", None)
                                     ELSE IF u = t THEN Request("status", None) ELSE None]
    /\ list = {} /\ listRev = 0 /\ loading = TRUE
    /\ form = "closed" /\ busy = FALSE
    /\ mounts = 1
    /\ syncJob \in {"none", "active", "ended"}
    /\ progress = "none" /\ polling = FALSE /\ timer = FALSE /\ strays = 0

-----------------------------------------------------------------------------
(* Loading the configuration.                                              *)

LoadConfig(s, kind) ==
    LET Aged(c) == [c EXCEPT !.fresh = c.fresh /\ c.kind \in Statuses]
    IN  [EachCall(Aged) EXCEPT ![s] = Request(kind, None)]

\* A save keeps the buttons locked until its reload is answered.
ConfigLoaded(s) ==
    /\ Answered(s, Spins)
    /\ calls' = Freed(s)
    /\ IF Succeeded(s, Spins) /\ calls[s].fresh
          THEN list' = calls[s].data /\ listRev' = calls[s].rev
          ELSE UNCHANGED <<list, listRev>>
    /\ loading' = (loading /\ ~calls[s].fresh)
    /\ busy' = (busy /\ calls[s].kind # "reload")
    /\ UNCHANGED <<store, rev, form, mounts, sectionVars>>

-----------------------------------------------------------------------------
(* Polling the status of a run.                                            *)

StopPolling == polling' = FALSE /\ timer' = FALSE /\ UNCHANGED strays

\* Broken variant of StartPolling: the first request waits for a timer nobody set.
StartPollingLater(s) ==
    /\ polling' = TRUE
    /\ calls' = Freed(s)

StartPolling(s) ==
    /\ polling' = TRUE
    /\ calls' = IF polling THEN Freed(s) ELSE [calls EXCEPT ![s] = Request("tick", None)]

SetTimer ==
    /\ timer' = TRUE
    /\ strays' = IF timer THEN strays + 1 ELSE strays
    /\ strays' <= MaxStrays
    /\ UNCHANGED polling

StatusArrives(s) ==
    /\ Answered(s, {"status"})
    /\ IF Succeeded(s, {"status"}) /\ calls[s].fresh
          THEN /\ progress' = IF calls[s].job = "none" THEN progress ELSE calls[s].job
               /\ IF calls[s].job = "active" THEN StartPolling(s)
                                            ELSE calls' = Freed(s) /\ UNCHANGED polling
          ELSE calls' = Freed(s) /\ UNCHANGED <<progress, polling>>
    /\ UNCHANGED <<store, rev, list, listRev, loading, form, busy, mounts,
                   syncJob, timer, strays>>

\* Nobody polls any more, or the answer has to be asked for again.
TickDropped(s) ==
    /\ Answered(s, {"tick"})
    /\ ~polling
    /\ calls' = Freed(s)
    /\ UNCHANGED <<store, rev, list, listRev, loading, form, busy, mounts, sectionVars>>

TickFailed(s) ==
    /\ Answered(s, {"tick"}) /\ calls[s].stage = "failed"
    /\ polling
    /\ SetTimer \/ StopPolling
    /\ calls' = Freed(s)
    /\ UNCHANGED <<store, rev, list, listRev, loading, form, busy, mounts, syncJob, progress>>

\* The end of a run stops the polling and loads the configuration.
TickArrives(s) ==
    /\ Succeeded(s, {"tick"})
    /\ polling
    /\ progress' = IF calls[s].job = "none" THEN progress ELSE calls[s].job
    /\ \/ calls[s].job = "active" /\ SetTimer /\ calls' = Freed(s) /\ UNCHANGED loading
       \/ calls[s].job = "none" /\ StopPolling /\ calls' = Freed(s) /\ UNCHANGED loading
       \/ calls[s].job = "ended" /\ StopPolling
          /\ calls' = LoadConfig(s, "report") /\ loading' = TRUE
    /\ UNCHANGED <<store, rev, list, listRev, form, busy, mounts, syncJob>>

TimerFires(s) ==
    /\ timer
    /\ Free(s)
    /\ timer' = FALSE
    /\ calls' = Sent(s, "tick", None)
    /\ UNCHANGED <<store, rev, list, listRev, loading, form, busy, mounts,
                   syncJob, progress, polling, strays>>

StrayFires(s) ==
    /\ strays > 0
    /\ Free(s)
    /\ strays' = strays - 1
    /\ calls' = IF polling THEN Sent(s, "tick", None) ELSE calls
    /\ UNCHANGED <<store, rev, list, listRev, loading, form, busy, mounts,
                   syncJob, progress, polling, timer>>

ParentRenders(s) ==
    /\ Free(s)
    /\ LET Cancelled(c) == [c EXCEPT !.fresh = c.fresh /\ c.kind # "status"]
       IN  calls' = [EachCall(Cancelled) EXCEPT ![s] = Request("status", None)]
    /\ StopPolling
    /\ UNCHANGED <<store, rev, list, listRev, loading, form, busy, mounts, syncJob, progress>>

-----------------------------------------------------------------------------
(* The buttons, all locked by busy.                                        *)

\* The panel opens from the loaded configuration; it stays open while it is loaded again.
OpenPanel ==
    /\ ~loading /\ ~busy
    /\ form' = "new"
    /\ UNCHANGED <<store, rev, calls, list, listRev, loading, busy, mounts, sectionVars>>

ClosePanel ==
    /\ form = "new" /\ ~busy
    /\ form' = "closed"
    /\ UNCHANGED <<store, rev, calls, list, listRev, loading, busy, mounts, sectionVars>>

Press(s, kind, row) ==
    /\ ~busy
    /\ Free(s)
    /\ calls' = Sent(s, kind, row)
    /\ busy' = TRUE
    /\ UNCHANGED <<store, rev, list, listRev, loading, form, mounts, sectionVars>>

AssignTag(s, tag) == form = "new" /\ Press(s, "assign", tag)
CreateAndAssign(s) == form = "new" /\ Press(s, "create", None)
RemoveTag(s) == ~loading /\ list # {} /\ Press(s, "remove", None)
RefreshNow(s) == ~loading /\ list # {} /\ progress # "active" /\ Press(s, "sync", None)

\* Assigning and removing end alike, but only the first closes the panel.
TagSaved(s) ==
    /\ Answered(s, {"assign", "remove"})
    /\ IF calls[s].stage = "ok" /\ calls[s].fresh
          THEN /\ calls' = LoadConfig(s, "reload")
               /\ loading' = TRUE
               /\ form' = IF calls[s].kind = "assign" THEN "closed" ELSE form
               /\ UNCHANGED busy
          ELSE /\ calls' = Freed(s)
               /\ busy' = FALSE
               /\ UNCHANGED <<loading, form>>
    /\ UNCHANGED <<store, rev, list, listRev, mounts, sectionVars>>

\* The new tag is assigned under the number the save started with.  If the configuration
\* was loaded meanwhile nothing is assigned, and nothing unlocks the buttons.
TagCreated(s) ==
    /\ Answered(s, {"create"})
    /\ IF Succeeded(s, {"create"})
          THEN /\ IF calls[s].fresh THEN \E tag \in Ids : calls' = Sent(s, "assign", tag)
                                    ELSE calls' = Freed(s)
               /\ UNCHANGED busy
          ELSE calls' = Freed(s) /\ busy' = FALSE
    /\ UNCHANGED <<store, rev, list, listRev, loading, form, mounts, sectionVars>>

\* Polling starts in slot t before the configuration is loaded.
RefreshStarted(s, t) ==
    /\ Succeeded(s, {"sync"}) /\ calls[s].fresh
    /\ progress' = "active"
    /\ polling' = TRUE
    /\ Free(t)
    /\ calls' = IF polling THEN LoadConfig(s, "reload")
                           ELSE [LoadConfig(s, "reload") EXCEPT ![t] = Request("tick", None)]
    /\ loading' = TRUE
    /\ UNCHANGED <<store, rev, list, listRev, form, busy, mounts, syncJob, timer, strays>>

RefreshNotStarted(s) ==
    /\ Answered(s, {"sync"})
    /\ calls[s].stage = "failed" \/ ~calls[s].fresh
    /\ calls' = Freed(s)
    /\ busy' = FALSE
    /\ UNCHANGED <<store, rev, list, listRev, loading, form, mounts, sectionVars>>

-----------------------------------------------------------------------------
(* The API and the worker; PaperlessTagSync has them in detail.            *)

\* Broken variant: the old tag stays beside the new one.
SetTagBeside(s) ==
    /\ Under(s, {"assign"}) /\ calls[s].stage = "sent"
    /\ Commit(s, [store EXCEPT ![calls[s].row] = "live"])
    /\ syncJob' = "active"
    /\ UNCHANGED pollVars

\* A new tag takes the place of the old one and is synchronised at once.
SetTag(s) ==
    /\ Under(s, {"assign"}) /\ calls[s].stage = "sent"
    /\ Commit(s, [i \in Ids |-> IF i = calls[s].row THEN "live" ELSE "new"])
    /\ syncJob' = "active"
    /\ UNCHANGED pollVars

UnsetTag(s) ==
    /\ Under(s, {"remove"}) /\ calls[s].stage = "sent"
    /\ Commit(s, [i \in Ids |-> "new"])
    /\ UNCHANGED sectionVars

\* A tag is created in Paperless, a run is queued unless one is active.
ServeCreate(s) ==
    /\ Under(s, {"create"}) /\ calls[s].stage = "sent"
    /\ calls' = [calls EXCEPT ![s].stage = "ok"]
    /\ UNCHANGED <<store, rev, list, listRev, loading, form, busy, mounts, sectionVars>>

RequestSync(s) ==
    /\ Under(s, {"sync"}) /\ calls[s].stage = "sent"
    /\ Live # {}
    /\ syncJob' = "active"
    /\ \E outcome \in {"ok", "failed"} : calls' = [calls EXCEPT ![s].stage = outcome]
    /\ UNCHANGED <<store, rev, list, listRev, loading, form, busy, mounts, pollVars>>

GetStatus(s) ==
    /\ Under(s, Statuses) /\ calls[s].stage = "sent"
    /\ calls' = [calls EXCEPT ![s].stage = "ok", ![s].job = syncJob]
    /\ UNCHANGED <<store, rev, list, listRev, loading, form, busy, mounts, sectionVars>>

\* The run ends and writes what became of it to the configuration.
RunEnds ==
    /\ syncJob = "active" /\ rev < MaxRev
    /\ syncJob' = "ended"
    /\ rev' = rev + 1
    /\ UNCHANGED <<store, calls, list, listRev, loading, form, busy, mounts, pollVars>>

RemountSection(s, t) ==
    /\ s # t /\ Free(t)
    /\ mounts < MaxMounts
    /\ Free(s)
    /\ LET Left(c) == [c EXCEPT !.fresh = FALSE, !.mine = FALSE]
       IN  calls' = [EachCall(Left) EXCEPT ![s] = Request("load", None),
                                           ![t] = Request("status", None)]
    /\ list' = {} /\ listRev' = 0 /\ loading' = TRUE
    /\ form' = "closed" /\ busy' = FALSE
    /\ mounts' = mounts + 1
    /\ progress' = "none" /\ polling' = FALSE /\ timer' = FALSE /\ strays' = 0
    /\ UNCHANGED <<store, rev, syncJob>>

SectionNext ==
    \/ OpenPanel \/ ClosePanel \/ RunEnds
    \/ \E s \in Slots :
         \/ ConfigLoaded(s)
         \/ StatusArrives(s) \/ TickDropped(s) \/ TickFailed(s) \/ TickArrives(s)
         \/ TimerFires(s) \/ StrayFires(s) \/ ParentRenders(s)
         \/ \E tag \in Ids : AssignTag(s, tag)
         \/ CreateAndAssign(s) \/ RemoveTag(s) \/ RefreshNow(s)
         \/ TagSaved(s) \/ TagCreated(s) \/ RefreshNotStarted(s)
         \/ \E t \in Slots : RefreshStarted(s, t) \/ RemountSection(s, t)
         \/ SetTag(s) \/ UnsetTag(s) \/ ServeCreate(s) \/ RequestSync(s) \/ GetStatus(s)
         \/ (ServeList(s) \/ Refuse(s) \/ Ignore(s)) /\ UNCHANGED sectionVars

-----------------------------------------------------------------------------
\* Every variable has its type.
SectionTypeOK ==
    /\ TabTypeOK
    /\ syncJob \in {"none", "active", "ended"}
    /\ progress \in {"none", "active", "ended"}
    /\ polling \in BOOLEAN /\ timer \in BOOLEAN /\ strays \in 0..MaxStrays

\* While the section says it polls, a request or a timer keeps the poll going: the shown
\* progress never freezes behind a flag (paperless-tag-section.tsx:191-194).
PollingAlive == polling => Mine({"tick"}) # {} \/ timer \/ strays > 0

\* Buttons stay locked while a change of the tag, or the reload after it, is under way,
\* and there is never a second one.
TagSavesLocked ==
    LET saves == Mine({"assign", "create", "remove", "sync", "reload"})
    IN  (saves # {} => busy) /\ Cardinality(saves) <= 1

=============================================================================
