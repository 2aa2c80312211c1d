--------------------------- MODULE DocumentStorage ---------------------------
(***************************************************************************)
(* The uploaded documents of one policy: their rows in the database and    *)
(* their files on disk, which no transaction spans.  DocumentsService      *)
(* uploads in two transactions around writing the file, and removes the    *)
(* file before it archives the row.  The policy can be deleted, which      *)
(* cascades to the rows, and with it the account of its owner, which       *)
(* removes the files after its transaction.  The API can die at any point. *)
(***************************************************************************)
EXTENDS Naturals, FiniteSets

CONSTANTS
    Docs,           \* ids of document rows; an id is used once
    Sums,           \* checksums of the files uploaded
    Requests,       \* requests under way at a time
    NoDoc,          \* no row yet
    MaxDeaths       \* bound on deaths of the API process

ASSUME StorageAssumption == NoDoc \notin Docs /\ Sums # {} /\ MaxDeaths \in Nat

VARIABLES
    papers,         \* the document rows
    contract,       \* the policy exists
    disk,           \* rows that have a file on disk
    request,        \* uploads, removals and the deletion of the account
    deaths,         \* deaths of the API process so far
    loose,          \* history: files the code has given up, with their rows
    bare,           \* history: live rows whose file the code has given up
    twins           \* history: rows made by uploads that overlapped

storageVars == <<papers, contract, disk, request, deaths, loose, bare, twins>>

Paper ==
    [row : {"none", "live", "archived", "gone"},
     ref : BOOLEAN,                 \* storageRef is set
     sum : Sums,
     class : {"UNCLASSIFIED", "BILLING"}]

Request ==
    [step : {"idle", "checked", "created", "failed", "stored", "discard",
             "unlinked", "sweep"},
     doc : Docs \cup {NoDoc},
     sum : Sums,
     files : SUBSET Docs,           \* filesToRemove of deleteAccount
     clash : SUBSET Docs]           \* rows made since this upload's check

StorageTypeOK ==
    /\ papers \in [Docs -> Paper]
    /\ contract \in BOOLEAN
    /\ disk \subseteq Docs
    /\ request \in [Requests -> Request]
    /\ deaths \in 0..MaxDeaths
    /\ loose \subseteq Docs
    /\ bare \subseteq Docs
    /\ twins \subseteq Docs

LiveDocs == {d \in Docs : papers[d].row = "live"}
HasRow(d) == papers[d].row \in {"live", "archived"}

Free == [step |-> "idle", doc |-> NoDoc, sum |-> CHOOSE s \in Sums : TRUE,
         files |-> {}, clash |-> {}]

Done(c) == request' = [request EXCEPT ![c] = Free]

StorageInit ==
    /\ papers = [d \in Docs |-> [row |-> "none", ref |-> FALSE, sum |-> Free.sum,
                                  class |-> "UNCLASSIFIED"]]
    /\ contract = TRUE
    /\ disk = {}
    /\ request = [c \in Requests |-> Free]
    /\ deaths = 0
    /\ loose = {}
    /\ bare = {}
    /\ twins = {}

-----------------------------------------------------------------------------
(* upload.                                                                 *)

\* The check counts only documents whose file is in place.
NotStoredWithRef(s) == \A d \in LiveDocs : papers[d].ref => papers[d].sum # s

\* The duplicate check of the first transaction: live rows only.
NotStored(s) == \A d \in LiveDocs : papers[d].sum # s

UploadCheck(c) ==
    /\ request[c].step = "idle"
    /\ contract
    /\ \E s \in Sums :
          /\ NotStored(s)
          /\ request' = [request EXCEPT ![c] = [Free EXCEPT !.step = "checked", !.sum = s]]
    /\ UNCHANGED <<papers, contract, disk, deaths, loose, bare, twins>>

\* The insert, and the commit: a deleted policy fails it (foreign key).
UploadCreate(c) ==
    /\ request[c].step = "checked"
    /\ contract
    /\ \E d \in Docs :
          /\ papers[d].row = "none"
          /\ papers' = [papers EXCEPT ![d] = [row |-> "live", ref |-> FALSE,
                            sum |-> request[c].sum, class |-> "UNCLASSIFIED"]]
          /\ twins' = IF \E e \in request[c].clash : papers[e].sum = request[c].sum
                      THEN twins \cup {d} ELSE twins
          /\ request' = [b \in Requests |->
                IF b = c THEN [request[b] EXCEPT !.step = "created", !.doc = d]
                ELSE IF request[b].step = "checked"
                     THEN [request[b] EXCEPT !.clash = @ \cup {d}] ELSE request[b]]
    /\ UNCHANGED <<contract, disk, deaths, loose, bare>>

UploadRefused(c) ==
    /\ request[c].step = "checked"
    /\ Done(c)
    /\ UNCHANGED <<papers, contract, disk, deaths, loose, bare, twins>>

\* Writing the file works or fails, and then may leave a part of it.  The
\* row may be archived by now.
StoreFile(c) ==
    /\ request[c].step = "created"
    /\ \/ /\ disk' = disk \cup {request[c].doc}
          /\ request' = [request EXCEPT ![c].step = "stored"]
       \/ /\ disk' \in {disk, disk \cup {request[c].doc}}
          /\ request' = [request EXCEPT ![c].step = "failed"]
    /\ UNCHANGED <<papers, contract, deaths, loose, bare, twins>>

\* The row stays, as after a failed second transaction.
UnwindNothing(c) ==
    /\ request[c].step = "failed"
    /\ Done(c)
    /\ UNCHANGED <<papers, contract, disk, deaths, loose, bare, twins>>

\* storeFile has failed: the row is deleted; an error of that is swallowed.
\* What was written of the file stays.
UnwindRow(c) ==
    /\ request[c].step = "failed"
    /\ \/ /\ papers' = [papers EXCEPT ![request[c].doc].row =
                            IF HasRow(request[c].doc) THEN "gone" ELSE @]
          /\ UNCHANGED bare
       \/ /\ bare' = bare \cup {request[c].doc}
          /\ UNCHANGED papers
    /\ loose' = loose \cup ({request[c].doc} \cap disk)
    /\ Done(c)
    /\ UNCHANGED <<contract, disk, deaths, twins>>

\* The second transaction.  It updates the row whether archived or not: an
\* archived one keeps the file that removal could not find.  Without a row
\* (P2025), or when the database fails, the file is to be removed.
UploadFinish(c) ==
    LET d == request[c].doc IN
    /\ request[c].step = "stored"
    /\ \/ /\ HasRow(d)
          /\ papers' = [papers EXCEPT ![d].ref = TRUE]
          /\ loose' = IF papers[d].row = "archived" THEN loose \cup {d} ELSE loose
          /\ Done(c)
       \/ /\ request' = [request EXCEPT ![c].step = "discard"]
          /\ UNCHANGED <<papers, loose>>
    /\ UNCHANGED <<contract, disk, deaths, bare, twins>>

\* The second transaction has failed and nothing is removed.
DiscardNothing(c) ==
    /\ request[c].step = "discard"
    /\ Done(c)
    /\ UNCHANGED <<papers, contract, disk, deaths, loose, bare, twins>>

\* The row, if there is one, stays behind without its file.
DiscardFile(c) ==
    LET d == request[c].doc IN
    /\ request[c].step = "discard"
    /\ \/ disk' = disk \ {d} /\ UNCHANGED loose
       \/ loose' = loose \cup {d} /\ UNCHANGED disk
    /\ bare' = bare \cup {d}
    /\ Done(c)
    /\ UNCHANGED <<papers, contract, deaths, twins>>

-----------------------------------------------------------------------------
(* remove: the file first, then the row.                                   *)

RemoveFile(c) ==
    /\ request[c].step = "idle"
    /\ contract
    /\ \E d \in {e \in Docs : papers[e].row # "none"} :
          /\ disk' = disk \ {d}
          /\ request' = [request EXCEPT ![c] = [Free EXCEPT !.step = "unlinked", !.doc = d]]
    /\ UNCHANGED <<papers, contract, deaths, loose, bare, twins>>

\* 404 when the row is not live; when the transaction fails the row stays.
ArchiveRow(c) ==
    LET d == request[c].doc IN
    /\ request[c].step = "unlinked"
    /\ \/ /\ papers[d].row = "live"
          /\ papers' = [papers EXCEPT ![d].row = "archived"]
          /\ loose' = IF d \in disk THEN loose \cup {d} ELSE loose
          /\ UNCHANGED bare
       \/ /\ papers[d].row # "live"
          /\ UNCHANGED <<papers, loose, bare>>
       \/ /\ bare' = bare \cup {d}
          /\ UNCHANGED <<papers, loose>>
    /\ Done(c)
    /\ UNCHANGED <<contract, disk, deaths, twins>>

-----------------------------------------------------------------------------
(* updateMetadata and classifyDocuments: no others than live rows.         *)

Classify ==
    /\ contract
    /\ \E S \in SUBSET LiveDocs, class \in {"UNCLASSIFIED", "BILLING"} :
          /\ S # {}
          /\ papers' = [d \in Docs |->
                IF d \in S THEN [papers[d] EXCEPT !.class = class] ELSE papers[d]]
    /\ UNCHANGED <<contract, disk, request, deaths, loose, bare, twins>>

-----------------------------------------------------------------------------
(* The end of the policy.                                                  *)

Cascade == papers' = [d \in Docs |->
    IF HasRow(d) THEN [papers[d] EXCEPT !.row = "gone"] ELSE papers[d]]

\* hardDelete of the policy: rows only, no file.
HardDelete ==
    /\ contract
    /\ contract' = FALSE
    /\ Cascade
    /\ loose' = loose \cup {d \in Docs : HasRow(d)}
    /\ UNCHANGED <<disk, request, deaths, bare, twins>>

\* deleteAccount's transaction collects the files of rows with a storageRef,
\* archived ones too.
FilesOf == {d \in Docs : HasRow(d) /\ papers[d].ref}

DeleteAccount(c) ==
    /\ request[c].step = "idle"
    /\ contract
    /\ contract' = FALSE
    /\ Cascade
    /\ request' = [request EXCEPT ![c] =
                      [Free EXCEPT !.step = "sweep", !.files = FilesOf]]
    /\ loose' = loose \cup bare
    /\ UNCHANGED <<disk, deaths, bare, twins>>

\* After the commit, file by file; an error of unlink is logged.
SweepFile(c) ==
    /\ request[c].step = "sweep"
    /\ IF request[c].files = {} THEN Done(c) /\ UNCHANGED <<disk, loose>>
       ELSE \E d \in request[c].files :
               /\ request' = [request EXCEPT ![c].files = @ \ {d}]
               /\ \/ disk' = disk \ {d} /\ UNCHANGED loose
                  \/ loose' = loose \cup {d} /\ UNCHANGED disk
    /\ UNCHANGED <<papers, contract, deaths, bare, twins>>

-----------------------------------------------------------------------------
(* Every request under way is gone; what it had begun stays.               *)
Death ==
    /\ deaths < MaxDeaths
    /\ deaths' = deaths + 1
    /\ \E c \in Requests : request[c].step # "idle"
    /\ loose' = loose \cup UNION {request[c].files \cup ({request[c].doc} \ {NoDoc}) :
                                    c \in {b \in Requests : request[b].step # "unlinked"}}
    /\ bare' = bare \cup {request[c].doc : c \in {b \in Requests : request[b].doc # NoDoc}}
    /\ request' = [c \in Requests |-> Free]
    /\ UNCHANGED <<papers, contract, disk, twins>>

StorageNext ==
    \/ \E c \in Requests :
          \/ UploadCheck(c) \/ UploadCreate(c) \/ UploadRefused(c)
          \/ StoreFile(c) \/ UnwindRow(c) \/ UploadFinish(c) \/ DiscardFile(c)
          \/ RemoveFile(c) \/ ArchiveRow(c)
          \/ DeleteAccount(c) \/ SweepFile(c)
    \/ Classify
    \/ HardDelete
    \/ Death

StorageSpec == StorageInit /\ [][StorageNext]_storageVars

-----------------------------------------------------------------------------
(* No file is forgotten: one on disk belongs to a row shown to the user,   *)
(* to a request that is still working on it, or to one of the cases the    *)
(* code gives up: the policy was deleted, the API died, unlink failed, or  *)
(* the row was removed while its file was being written, or writing failed *)
(* half-way.                                                               *)
NoFileForgotten ==
    \A d \in disk :
        \/ papers[d].row = "live"
        \/ \E c \in Requests : request[c].doc = d \/ d \in request[c].files
        \/ d \in loose

(* A document the user sees has its file, unless a request is still at it  *)
(* (an upload that has yet to write it, a removal that has yet to archive  *)
(* the row), or one of them failed half-way and the code gave up.          *)
ShownIsReadable ==
    \A d \in LiveDocs :
        \/ d \in disk
        \/ \E c \in Requests : request[c].doc = d
        \/ d \in bare

(* Two documents of one content are shown only where their uploads         *)
(* overlapped; there is no unique index on the checksum.                   *)
ContentOnce ==
    \A d, e \in LiveDocs :
        d # e /\ papers[d].sum = papers[e].sum => d \in twins \/ e \in twins

(* Rows and files belong together, in both directions, and a content that  *)
(* is shown is not stored a second time.                                   *)
FilesRight == NoFileForgotten /\ ShownIsReadable /\ ContentOnce

=============================================================================
