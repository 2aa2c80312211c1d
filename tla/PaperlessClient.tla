--------------------------- MODULE PaperlessClient ---------------------------
(***************************************************************************)
(* The two calls the tag synchronisation is made of, in the client of the  *)
(* worker and, all but word for word, in the adapter of the API: walking   *)
(* the pages of a tag's documents, and giving a tag to a document.         *)
(***************************************************************************)
EXTENDS PaperlessServer

Stays == <<host, flavour, catalogue, turns>>

Apps == {"api", "worker"}

-----------------------------------------------------------------------------
(* listDocumentsByTag.  Pages are cut when they are asked for: a document  *)
(* that drops out moves the ones behind it to the front.                   *)
ListDocumentsByTag(c, app, t) == BeginAsk(c, "list", app, "page", t, 1)

Rank(p, ps) == Cardinality({q \in ps : q <= p})
OnPage(ps, n) == {p \in ps : (Rank(p, ps) - 1) \div PageSize = n - 1}

\* Broken variant: what was read counts when a page fails.
PageFailedKeepsPart(c) == Ends(c, "ok")

\* "Any failed page invalidates the whole result".
PageFailed(c) == Ends(c, "nothing")

\* A page behind the last one does not exist; the first may be empty.
PageRead(c) ==
    LET ps == Tagged(marks, host, asks[c].sticker)
        n == asks[c].page
    IN  IF n > 1 /\ OnPage(ps, n) = {} THEN PageFailed(c)
        ELSE LET got == [asks[c] EXCEPT !.found = @ \cup OnPage(ps, n)]
             IN  asks' = [asks EXCEPT ![c] =
                    IF Cardinality(ps) <= n * PageSize THEN Ended(got, "ok")
                    ELSE IF n = MaxPages THEN Ended(got, "nothing")
                    ELSE [got EXCEPT !.page = n + 1]]

\* The worker asks once more with fewer fields when the server refuses them.
NextPage(c) ==
    /\ At(c, "list", "page")
    /\ LET Then(answer) ==
              CASE host # Nowhere /\ answer = "ok" -> PageRead(c)
                [] answer = "badRequest" /\ asks[c].app = "worker" /\ ~asks[c].minimal ->
                      asks' = [asks EXCEPT ![c].minimal = TRUE]
                [] OTHER -> PageFailed(c)
       IN  OneRequest(c, Then)
    /\ UNCHANGED <<Stays, marks, accepted>>

-----------------------------------------------------------------------------
(* assignTagToDocument: read, edit in bulk, patch where there is no bulk   *)
(* edit, and read again until the tag is seen.  Document 1 stands for any. *)
AssignTagToDocument(c, app, t) == BeginAsk(c, "assign", app, "before", t, 1)

ReadBefore(c) ==
    /\ At(c, "assign", "before")
    /\ LET a == asks[c]
           Then(answer) ==
              CASE host # Nowhere /\ answer = "ok" ->
                      IF a.sticker \in marks[host][a.paper] THEN Ends(c, "ok")
                      ELSE asks' = [asks EXCEPT ![c].seen = marks[host][a.paper],
                                                ![c].read = TRUE, ![c].alone = TRUE,
                                                ![c].step = "bulk"]
                [] answer = "missing" -> Ends(c, "DOCUMENT_NOT_FOUND")
                [] answer = "denied" -> Ends(c, "AUTH_FAILED")
                [] OTHER -> asks' = [asks EXCEPT ![c].step = "bulk"]
       IN  OneRequest(c, Then)
    /\ UNCHANGED <<Stays, marks, accepted>>

\* Broken variant: an accepted bulk edit is taken for done.
AfterAcceptedUnverified(c) == Ends(c, "ok")

\* "A merely accepted assignment is NOT a confirmed tag".
AfterAccepted(c) == asks' = [asks EXCEPT ![c].step = "verify"]

BulkError(bulk) ==
    CASE bulk = "denied" -> "AUTH_FAILED"
      [] bulk = "missing" -> "DOCUMENT_NOT_FOUND"
      [] bulk = "lost" -> "UNREACHABLE"
      [] OTHER -> "API_ERROR"

\* The edit is put in a queue of Paperless; so it may be though the answer is lost.
BulkEdit(c) ==
    LET a == asks[c]
        Then(answer) ==
            \/ /\ answer \in {"ok", "odd"}
               /\ accepted' = [accepted EXCEPT ![host] = @ \cup {<<a.paper, a.sticker>>}]
               /\ AfterAccepted(c)
            \/ /\ answer = "lost" /\ host # Nowhere
               /\ accepted' = [accepted EXCEPT ![host] = @ \cup {<<a.paper, a.sticker>>}]
               /\ Ends(c, BulkError(answer))
            \/ /\ answer \in {"missing", "noMethod"} /\ a.read
               /\ asks' = [asks EXCEPT ![c].step = "patch", ![c].bulk = answer]
               /\ UNCHANGED accepted
            \/ /\ answer \notin {"ok", "odd"}
               /\ answer \in {"missing", "noMethod"} => ~a.read
               /\ Ends(c, BulkError(answer))
               /\ UNCHANGED accepted
    IN
    /\ At(c, "assign", "bulk")
    /\ OneRequest(c, Then)
    /\ UNCHANGED <<Stays, marks>>

\* Broken variant: the tag replaces the ones that were read.
MergedAlone(a) == {a.sticker}

Merged(a) == a.seen \cup {a.sticker}

\* The list is written as a whole, on whatever server the settings name by now.
Patched(c) ==
    LET a == asks[c]
        lost == marks[host][a.paper] \ Merged(a) # {}
    IN  [Noticed(c, marks', host) EXCEPT ![c].lossy = lost]

Patch(c) ==
    LET a == asks[c]
        refused == IF a.bulk = "missing" THEN "DOCUMENT_NOT_FOUND" ELSE "API_ERROR"
        Then(answer) ==
            \/ /\ answer \in {"ok", "odd"}
               /\ marks' = [marks EXCEPT ![host][a.paper] = Merged(a)]
               /\ asks' = [Patched(c) EXCEPT ![c].step = "verify"]
            \/ /\ answer = "lost" /\ host # Nowhere
               /\ marks' = [marks EXCEPT ![host][a.paper] = Merged(a)]
               /\ asks' = [Patched(c) EXCEPT ![c] = Ended(@, refused)]
            \/ /\ answer \notin {"ok", "odd"}
               /\ Ends(c, refused)
               /\ UNCHANGED marks
    IN
    /\ At(c, "assign", "patch")
    /\ OneRequest(c, Then)
    /\ UNCHANGED <<Stays, accepted>>

Verify(c) ==
    /\ At(c, "assign", "verify")
    /\ LET a == asks[c]
           Then(answer) ==
              CASE host # Nowhere /\ answer = "ok" /\ a.sticker \in marks[host][a.paper] ->
                      Ends(c, "ok")
                [] answer = "lost" \/ a.tries = 2 -> Ends(c, "VERIFY_FAILED")
                [] OTHER -> asks' = [asks EXCEPT ![c].tries = @ + 1]
       IN  OneRequest(c, Then)
    /\ UNCHANGED <<Stays, marks, accepted>>

-----------------------------------------------------------------------------
ListStep(c) ==
    (\E t \in Stickers, app \in Apps : ListDocumentsByTag(c, app, t)) \/ NextPage(c)

AssignStep(c) ==
    \/ \E t \in Stickers, app \in Apps : AssignTagToDocument(c, app, t)
    \/ ReadBefore(c) \/ BulkEdit(c) \/ Patch(c) \/ Verify(c)

-----------------------------------------------------------------------------
(* A listing is whole or there is none: every document that carried the    *)
(* tag all the time is in it.  Only a document that loses the tag between  *)
(* two pages, or a change of server, can hide others from the walk.        *)
ListingIsWhole ==
    \A c \in Askers :
        Over(c, "list") /\ asks[c].result = "ok" /\ asks[c].steady
        => asks[c].kept \subseteq asks[c].found

(* "Additively assigns a tag (existing tags are preserved)": where nobody  *)
(* else touches the document after it was read, no tag is lost.            *)
TagsPreserved ==
    \A c \in Askers : asks[c].op = "assign" /\ asks[c].lossy => ~asks[c].alone

(* "A merely accepted job is not a confirmed assignment": where nobody     *)
(* takes the tag away or changes the server meanwhile, an assignment that  *)
(* is confirmed is there.                                                  *)
ConfirmedIsTagged ==
    \A c \in Askers :
        Over(c, "assign") /\ asks[c].result = "ok" /\ asks[c].steady
        => asks[c].sticker \in marks[host][asks[c].paper]

=============================================================================
