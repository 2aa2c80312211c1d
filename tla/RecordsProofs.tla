--------------------------- MODULE RecordsProofs ----------------------------
(***************************************************************************)
(* What the parts of MCRecords keep, for any documents, requests, users,   *)
(* policies, languages and accents.                                        *)
(*                                                                         *)
(* Files: a file on disk is a live row's, is still being worked on, or was *)
(* left behind by a failure that says so; and of the checks of an upload   *)
(* that another upload can outdate, the invariant says what still stands.  *)
(* Shares: a share is one its sharer may still give, whoever leaves which  *)
(* household while it is made.                                             *)
(* Language: a page waits for one answer at most unless requests met, and  *)
(* what it would fall back to is what the server still has.                *)
(* Accent: what is to be put and what is to be read is the last choice; the*)
(* conversions stay in range, and give the presets back.                   *)
(***************************************************************************)
EXTENDS MCRecords, TLAPS

\* Some request has yet to deal with the file of d.
Working(d) ==
    \E c \in Requests :
        request[c].step # "unlinked" /\ (request[c].doc = d \/ d \in request[c].files)

\* What a request holds at each step of it.
InOrder ==
    \A c \in Requests :
        /\ request[c].step \in {"idle", "checked", "sweep"} => request[c].doc = NoDoc
        /\ request[c].step \notin {"idle", "checked", "sweep"} => request[c].doc \in Docs
        /\ request[c].step # "sweep" => request[c].files = {}
        /\ \A d \in request[c].files : papers[d].row = "gone"

\* The rows made since an upload looked are in its clash.
ChecksStand ==
    \A c \in Requests : request[c].step = "checked" =>
        \A e \in LiveDocs : papers[e].sum = request[c].sum => e \in request[c].clash

(* A file on disk belongs to a live row, is still being worked on, or was  *)
(* given up by the code.                                                   *)
Held == \A d \in disk : papers[d].row = "live" \/ Working(d) \/ d \in loose

\* A file whose name the row does not have yet is still being worked on.
Unnamed ==
    \A d \in disk : papers[d].row = "live" /\ ~papers[d].ref => Working(d) \/ d \in bare

\* An upload that has stored its file, and only that, lets go of it.
Readable ==
    \A d \in LiveDocs :
        \/ d \in disk
        \/ d \in bare
        \/ \E c \in Requests : request[c].step # "stored" /\ request[c].doc = d

(* The inductive invariant of the documents. The last part of FilesRight,  *)
(* ContentOnce, is inductive with the rest.                                *)
StorageInv ==
    /\ StorageTypeOK
    /\ InOrder
    /\ ChecksStand
    /\ Held
    /\ Unnamed
    /\ Readable
    /\ ContentOnce

-----------------------------------------------------------------------------

(* A request that is over is typed and holds nothing. *)
LEMMA FreeType ==
  /\ Free \in Request
  /\ Free.step = "idle" /\ Free.doc = NoDoc /\ Free.files = {} /\ Free.sum \in Sums
  BY StorageAssumption DEF Free, Request

(* The fields of a request. *)
LEMMA RequestFields ==
  ASSUME NEW r \in Request
  PROVE  /\ r.doc \in Docs \cup {NoDoc} /\ r.sum \in Sums
         /\ r.files \subseteq Docs /\ r.clash \subseteq Docs
  BY DEF Request

(* Typed rows, and the two changes a row goes through: its state and its   *)
(* reference.                                                              *)
LEMMA PaperFields ==
  ASSUME NEW p \in Paper
  PROVE  /\ p.row \in {"none", "live", "archived", "gone"}
         /\ p.ref \in BOOLEAN /\ p.sum \in Sums
         /\ \A r \in {"none", "live", "archived", "gone"} :
               LET q == [p EXCEPT !.row = r]
               IN  q \in Paper /\ q.row = r /\ q.ref = p.ref /\ q.sum = p.sum
         /\ LET q == [p EXCEPT !.ref = TRUE]
            IN  q \in Paper /\ q.row = p.row /\ q.ref = TRUE /\ q.sum = p.sum
         /\ \A k \in {"UNCLASSIFIED", "BILLING"} :
               LET q == [p EXCEPT !.class = k]
               IN  q \in Paper /\ q.row = p.row /\ q.ref = p.ref /\ q.sum = p.sum
  BY DEF Paper

(* The places an upload, a removal or the deletion of the account can be   *)
(* at.                                                                     *)
Steps == {"idle", "checked", "created", "failed", "stored", "discard", "unlinked", "sweep"}

(* Going on to another step changes nothing that the request holds. *)
LEMMA StepTo ==
  ASSUME NEW r \in Request, NEW s \in Steps
  PROVE  LET n == [r EXCEPT !.step = s]
         IN  /\ n \in Request /\ n.step = s /\ n.doc = r.doc /\ n.sum = r.sum
             /\ n.files = r.files /\ n.clash = r.clash
  BY DEF Request, Steps

\* n is what a request may hold at its step.
RequestFits(n) ==
    /\ n.step \in {"idle", "checked", "sweep"} => n.doc = NoDoc
    /\ n.step \notin {"idle", "checked", "sweep"} => n.doc \in Docs
    /\ n.step # "sweep" => n.files = {}
    /\ \A d \in n.files : papers'[d].row = "gone"
    /\ n.step = "checked" => \A e \in LiveDocs' : papers'[e].sum = n.sum => e \in n.clash

\* No row becomes live, none comes back, nothing given up is taken back.
RowsOnlyEnd ==
    /\ \A d \in Docs : /\ papers'[d].row = "live" => papers[d].row = "live"
                       /\ papers[d].row = "gone" => papers'[d].row = "gone"
                       /\ papers'[d].sum = papers[d].sum
                       /\ papers[d].ref => papers'[d].ref
    /\ loose \subseteq loose' /\ bare \subseteq bare'

\* When the request of c becomes n, every file and every row has its reason,
\* either in the step itself or because it did not hang on that request.
FilesKept(c, n) ==
    /\ \A d \in disk' :
          \/ papers'[d].row = "live" \/ d \in loose'
          \/ n.step # "unlinked" /\ (n.doc = d \/ d \in n.files)
          \/ /\ Working(d)
             /\ request[c].step = "unlinked" \/ (request[c].doc # d /\ d \notin request[c].files)
    /\ \A d \in disk' : papers'[d].row = "live" =>
          \/ papers'[d].ref \/ d \in bare'
          \/ n.step # "unlinked" /\ n.doc = d
          \/ d \in disk /\ (request[c].step = "unlinked" \/ request[c].doc # d)
    /\ \A d \in Docs : papers'[d].row = "live" =>
          \/ d \in disk' \/ d \in bare'
          \/ n.step # "stored" /\ n.doc = d
          \/ (d \in disk => d \in disk') /\ (request[c].step = "stored" \/ request[c].doc # d)

(* What the steps of the requests come to.  The request of c becomes n, and *)
(* the request keeps its hold on a file, or does not need it any more.      *)
LEMMA OneRequest ==
  ASSUME StorageInv, NEW c \in Requests, NEW n \in Request,
         request' = [request EXCEPT ![c] = n],
         papers' \in [Docs -> Paper], contract' \in BOOLEAN, disk' \subseteq Docs,
         deaths' \in 0..MaxDeaths, loose' \subseteq Docs, bare' \subseteq Docs, twins' = twins,
         RequestFits(n), RowsOnlyEnd, FilesKept(c, n)
  PROVE  StorageInv'
  <1>1. /\ request \in [Requests -> Request] /\ papers \in [Docs -> Paper]
        /\ request'[c] = n /\ \A b \in Requests \ {c} : request'[b] = request[b]
        /\ LiveDocs' \subseteq LiveDocs /\ disk \subseteq Docs /\ LiveDocs \subseteq Docs
    BY DEF StorageInv, StorageTypeOK, LiveDocs, RowsOnlyEnd
  <1>2. StorageTypeOK'
    BY DEF StorageInv, StorageTypeOK
  <1>3. InOrder'
    <2>1. \A b \in Requests \ {c} : request[b].files \subseteq Docs
      BY <1>1, RequestFields
    <2> QED  BY <1>1, <2>1 DEF StorageInv, InOrder, RequestFits, RowsOnlyEnd
  <1>4. ChecksStand'
    BY <1>1 DEF StorageInv, ChecksStand, RequestFits, RowsOnlyEnd
  <1>5. ASSUME NEW d \in Docs, Working(d),
               request[c].step = "unlinked" \/ (request[c].doc # d /\ d \notin request[c].files)
        PROVE  Working(d)'
    BY <1>1, <1>5 DEF Working
  <1>6. ASSUME NEW d \in Docs, n.step # "unlinked", n.doc = d \/ d \in n.files
        PROVE  Working(d)'
    BY <1>1, <1>6 DEF Working
  <1>7. Held'
    <2> SUFFICES ASSUME NEW d \in disk', ~(papers'[d].row = "live"), d \notin loose' PROVE Working(d)'
      BY DEF Held
    <2>1. CASE n.step # "unlinked" /\ (n.doc = d \/ d \in n.files)
      BY <1>6, <2>1
    <2>2. CASE /\ Working(d)
               /\ request[c].step = "unlinked" \/ (request[c].doc # d /\ d \notin request[c].files)
      BY <1>5, <2>2
    <2> QED  BY <2>1, <2>2 DEF FilesKept
  <1>8. Unnamed'
    <2> SUFFICES ASSUME NEW d \in disk', papers'[d].row = "live", ~papers'[d].ref, d \notin bare'
                 PROVE  Working(d)'
      BY DEF Unnamed
    <2>1. CASE n.step # "unlinked" /\ n.doc = d
      BY <1>6, <2>1
    <2>2. CASE d \in disk /\ (request[c].step = "unlinked" \/ request[c].doc # d)
      <3>1. papers[d].row = "live" /\ ~papers[d].ref /\ d \notin bare
        BY <1>1, <2>2 DEF RowsOnlyEnd
      <3>2. d \notin request[c].files
        BY <1>1, <2>2, <3>1 DEF StorageInv, InOrder
      <3> QED  BY <1>5, <2>2, <3>1, <3>2 DEF StorageInv, Unnamed
    <2> QED  BY <2>1, <2>2 DEF FilesKept
  <1>9. Readable'
    <2> SUFFICES ASSUME NEW d \in Docs, papers'[d].row = "live", d \notin disk', d \notin bare'
                 PROVE  \E b \in Requests : request'[b].step # "stored" /\ request'[b].doc = d
      BY DEF Readable, LiveDocs
    <2>1. CASE n.step # "stored" /\ n.doc = d
      BY <1>1, <2>1
    <2>2. CASE (d \in disk => d \in disk') /\ (request[c].step = "stored" \/ request[c].doc # d)
      <3>1. PICK b \in Requests : request[b].step # "stored" /\ request[b].doc = d
        BY <2>2 DEF StorageInv, Readable, LiveDocs, RowsOnlyEnd
      <3> QED  BY <1>1, <2>2, <3>1
    <2> QED  BY <2>1, <2>2 DEF FilesKept
  <1>10. ContentOnce'
    BY <1>1 DEF StorageInv, ContentOnce, RowsOnlyEnd
  <1> QED  BY <1>2, <1>3, <1>4, <1>7, <1>8, <1>9, <1>10 DEF StorageInv


(* What the invariant says of the types, in the form the steps use. *)
LEMMA Shape ==
  ASSUME StorageInv
  PROVE  /\ request \in [Requests -> Request] /\ papers \in [Docs -> Paper]
         /\ contract \in BOOLEAN /\ disk \subseteq Docs /\ deaths \in 0..MaxDeaths
         /\ loose \subseteq Docs /\ bare \subseteq Docs /\ twins \subseteq Docs
         /\ LiveDocs \subseteq Docs /\ NoDoc \notin Docs
         /\ \A c \in Requests :
               /\ request[c] \in Request /\ request[c].files \subseteq Docs
               /\ request[c].step \in {"idle", "checked", "sweep"} => request[c].doc = NoDoc
               /\ request[c].step \notin {"idle", "checked", "sweep"} => request[c].doc \in Docs
               /\ request[c].step # "sweep" => request[c].files = {}
               /\ \A d \in request[c].files : papers[d].row = "gone"
         /\ \A d \in Docs : papers[d].row \in {"none", "live", "archived", "gone"}
         /\ \A d \in disk : papers[d].row = "live" \/ Working(d) \/ d \in loose
  <1>1. /\ request \in [Requests -> Request] /\ papers \in [Docs -> Paper]
        /\ contract \in BOOLEAN /\ disk \subseteq Docs /\ deaths \in 0..MaxDeaths
        /\ loose \subseteq Docs /\ bare \subseteq Docs /\ twins \subseteq Docs
        /\ LiveDocs \subseteq Docs /\ NoDoc \notin Docs
    BY StorageAssumption DEF StorageInv, StorageTypeOK, LiveDocs
  <1>2. \A c \in Requests : request[c] \in Request /\ request[c].files \subseteq Docs
    BY <1>1, RequestFields
  <1>3. \A d \in Docs : papers[d].row \in {"none", "live", "archived", "gone"}
    <2> TAKE d \in Docs
    <2>1. papers[d] \in Paper
      BY <1>1
    <2> QED  BY <2>1, PaperFields
  <1> QED  BY <1>1, <1>2, <1>3 DEF StorageInv, InOrder, Held

(* The first transaction of an upload keeps the invariant: no live row has *)
(* the checksum, so there is nothing for its clash yet.                    *)
LEMMA UploadCheckStep ==
  ASSUME StorageInv, NEW c \in Requests, UploadCheck(c)
  PROVE  StorageInv'
  <1>1. PICK s \in Sums :
           /\ NotStored(s)
           /\ request' = [request EXCEPT ![c] = [Free EXCEPT !.step = "checked", !.sum = s]]
    BY DEF UploadCheck
  <1> DEFINE n == [Free EXCEPT !.step = "checked", !.sum = s]
  <1>2. n \in Request /\ n.step = "checked" /\ n.doc = NoDoc /\ n.files = {} /\ n.sum = s
    BY FreeType DEF Request
  <1>3. request' = [request EXCEPT ![c] = n]
    BY <1>1
  <1> HIDE DEF n
  <1>4. /\ papers' = papers /\ contract' = contract /\ disk' = disk /\ deaths' = deaths
        /\ loose' = loose /\ bare' = bare /\ twins' = twins /\ request[c].step = "idle"
    BY DEF UploadCheck
  <1>5. \A e \in LiveDocs' : papers'[e].sum # s
    BY <1>1, <1>4 DEF NotStored, LiveDocs
  <1>6. \A d \in Docs : request[c].doc # d /\ d \notin request[c].files
    BY <1>4, Shape
  <1>7. /\ papers' \in [Docs -> Paper] /\ contract' \in BOOLEAN /\ disk' \subseteq Docs
        /\ deaths' \in 0..MaxDeaths /\ loose' \subseteq Docs /\ bare' \subseteq Docs
        /\ \A d \in disk : papers[d].row = "live" \/ Working(d) \/ d \in loose
    BY <1>4, Shape
  <1>8. FilesKept(c, n)
    BY <1>4, <1>6, <1>7 DEF FilesKept
  <1>9. RequestFits(n) /\ RowsOnlyEnd
    BY <1>2, <1>4, <1>5 DEF RequestFits, RowsOnlyEnd
  <1> QED  BY <1>2, <1>3, <1>4, <1>7, <1>8, <1>9, OneRequest

\* A request that ends changes nothing else.
LEMMA DoneShape ==
  ASSUME StorageInv, NEW c \in Requests, Done(c)
  PROVE  /\ request' = [request EXCEPT ![c] = Free]
         /\ Free \in Request /\ Free.step = "idle" /\ Free.doc = NoDoc /\ Free.files = {}
  BY FreeType DEF Done

(* An upload that finds its policy or its file refused leaves no trace. *)
LEMMA UploadRefusedStep ==
  ASSUME StorageInv, NEW c \in Requests, UploadRefused(c)
  PROVE  StorageInv'
  <1>1. /\ papers' = papers /\ contract' = contract /\ disk' = disk /\ deaths' = deaths
        /\ loose' = loose /\ bare' = bare /\ twins' = twins
        /\ request[c].step = "checked" /\ Done(c)
    BY DEF UploadRefused
  <1>2. FilesKept(c, Free)
    BY <1>1, Shape DEF FilesKept
  <1>3. RequestFits(Free) /\ RowsOnlyEnd
    BY <1>1, FreeType DEF RequestFits, RowsOnlyEnd
  <1>4. /\ papers' \in [Docs -> Paper] /\ contract' \in BOOLEAN /\ disk' \subseteq Docs
        /\ deaths' \in 0..MaxDeaths /\ loose' \subseteq Docs /\ bare' \subseteq Docs
    BY <1>1, Shape
  <1> QED  BY <1>1, <1>2, <1>3, <1>4, DoneShape, OneRequest

(* Writing the file, wholly or in part, keeps the invariant: the upload is *)
(* there to deal with it.                                                  *)
LEMMA StoreFileStep ==
  ASSUME StorageInv, NEW c \in Requests, StoreFile(c)
  PROVE  StorageInv'
  <1> DEFINE d0 == request[c].doc
  <1>1. PICK s \in {"stored", "failed"} :
           /\ request' = [request EXCEPT ![c].step = s]
           /\ s = "stored" => disk' = disk \cup {d0}
           /\ disk' \in {disk, disk \cup {d0}}
    BY DEF StoreFile
  <1> DEFINE n == [request[c] EXCEPT !.step = s]
  <1>2. n \in Request /\ n.step = s /\ n.doc = d0 /\ n.files = request[c].files
    <2>1. request[c] \in Request /\ s \in Steps
      BY Shape DEF Steps
    <2> QED  BY <2>1, StepTo
  <1>3. request' = [request EXCEPT ![c] = n]
    BY <1>1
  <1> HIDE DEF n
  <1>4. /\ papers' = papers /\ contract' = contract /\ deaths' = deaths
        /\ loose' = loose /\ bare' = bare /\ twins' = twins /\ request[c].step = "created"
        /\ d0 \in Docs
    BY Shape DEF StoreFile
  <1>5. /\ papers' \in [Docs -> Paper] /\ contract' \in BOOLEAN /\ disk' \subseteq Docs
        /\ deaths' \in 0..MaxDeaths /\ loose' \subseteq Docs /\ bare' \subseteq Docs
        /\ \A d \in disk : papers[d].row = "live" \/ Working(d) \/ d \in loose
        /\ request[c].files = {}
    BY <1>1, <1>4, Shape
  <1>6. \A d \in disk' : \/ papers'[d].row = "live" \/ d \in loose'
                         \/ n.doc = d
                         \/ Working(d) /\ request[c].doc # d /\ d \notin request[c].files
    BY <1>1, <1>2, <1>4, <1>5
  <1>7. \A d \in disk' : n.doc = d \/ (d \in disk /\ request[c].doc # d)
    BY <1>1, <1>2
  <1>8. \A d \in Docs : \/ d \in disk'
                        \/ n.step # "stored" /\ n.doc = d
                        \/ (d \in disk => d \in disk') /\ request[c].doc # d
    BY <1>1, <1>2
  <1>9. FilesKept(c, n)
    BY <1>2, <1>6, <1>7, <1>8 DEF FilesKept
  <1>10. RequestFits(n) /\ RowsOnlyEnd
    BY <1>2, <1>4, <1>5 DEF RequestFits, RowsOnlyEnd
  <1> QED  BY <1>2, <1>3, <1>4, <1>5, <1>9, <1>10, OneRequest

(* Deleting the row of a failed write keeps the invariant: its file, if    *)
(* there is one, is the upload's to discard or given up.                   *)
LEMMA UnwindRowStep ==
  ASSUME StorageInv, NEW c \in Requests, UnwindRow(c)
  PROVE  StorageInv'
  <1> DEFINE d0 == request[c].doc
  <1>1. /\ contract' = contract /\ deaths' = deaths /\ disk' = disk /\ twins' = twins
        /\ loose' = loose \cup ({d0} \cap disk)
        /\ request[c].step = "failed" /\ d0 \in Docs /\ Done(c)
    BY Shape DEF UnwindRow
  <1>2. /\ papers' \in [Docs -> Paper]
        /\ \A d \in Docs : /\ papers'[d].ref = papers[d].ref /\ papers'[d].sum = papers[d].sum
                           /\ d # d0 => papers'[d].row = papers[d].row
        /\ papers'[d0].row = "live" => papers[d0].row = "live"
        /\ papers[d0].row = "gone" => papers'[d0].row = "gone"
        /\ bare' \in {bare, bare \cup {d0}}
        /\ d0 \notin bare' => papers'[d0].row # "live"
    <2>1. CASE /\ papers' = [papers EXCEPT ![d0].row = IF HasRow(d0) THEN "gone" ELSE @]
               /\ UNCHANGED bare
      <3> DEFINE r == IF HasRow(d0) THEN "gone" ELSE papers[d0].row
                 q == [papers[d0] EXCEPT !.row = r]
      <3>1. papers[d0] \in Paper /\ r \in {"none", "live", "archived", "gone"}
        BY <1>1, Shape, PaperFields
      <3>2. q \in Paper /\ q.row = r /\ q.ref = papers[d0].ref /\ q.sum = papers[d0].sum
        <4> HIDE DEF r
        <4>1. \A x \in {"none", "live", "archived", "gone"} :
               LET y == [papers[d0] EXCEPT !.row = x]
               IN  y \in Paper /\ y.row = x /\ y.ref = papers[d0].ref /\ y.sum = papers[d0].sum
          BY <3>1, PaperFields
        <4> QED  BY <3>1, <4>1
      <3>3. r # "live" /\ (papers[d0].row = "gone" => r = "gone")
        BY DEF HasRow
      <3>4. papers' = [papers EXCEPT ![d0] = q]
        BY <2>1
      <3> HIDE DEF q, r
      <3>5. papers' \in [Docs -> Paper] /\ papers'[d0] = q /\ \A d \in Docs \ {d0} : papers'[d] = papers[d]
        BY <1>1, <3>2, <3>4, Shape
      <3> QED  BY <2>1, <3>2, <3>3, <3>5
    <2>2. CASE bare' = bare \cup {d0} /\ UNCHANGED papers
      BY <1>1, <2>2, Shape
    <2> QED  BY <2>1, <2>2 DEF UnwindRow
  <1>3. FilesKept(c, Free)
    <2>1. \A d \in disk' : papers'[d].row = "live" \/ d \in loose' \/ (Working(d) /\ d # d0)
      BY <1>1, <1>2, Shape
    <2>2. \A d \in Docs : papers'[d].row = "live" => d # d0 \/ d \in bare'
      BY <1>2
    <2> QED  BY <1>1, <2>1, <2>2, Shape DEF FilesKept
  <1>4. RequestFits(Free) /\ RowsOnlyEnd
    BY <1>1, <1>2, FreeType DEF RequestFits, RowsOnlyEnd
  <1>5. /\ contract' \in BOOLEAN /\ disk' \subseteq Docs
        /\ deaths' \in 0..MaxDeaths /\ loose' \subseteq Docs /\ bare' \subseteq Docs
    BY <1>1, <1>2, Shape
  <1> QED  BY <1>1, <1>2, <1>3, <1>4, <1>5, DoneShape, OneRequest

(* The second transaction keeps the invariant: the row names its file, or  *)
(* the upload has one to discard.                                          *)
LEMMA UploadFinishStep ==
  ASSUME StorageInv, NEW c \in Requests, UploadFinish(c)
  PROVE  StorageInv'
  <1> DEFINE d0 == request[c].doc
  <1>1. /\ contract' = contract /\ deaths' = deaths /\ disk' = disk /\ twins' = twins /\ bare' = bare
        /\ request[c].step = "stored" /\ d0 \in Docs
    BY Shape DEF UploadFinish
  <1>2. /\ \A d \in disk : papers[d].row = "live" \/ Working(d) \/ d \in loose
        /\ request[c].files = {} /\ contract' \in BOOLEAN /\ disk' \subseteq Docs
        /\ deaths' \in 0..MaxDeaths /\ bare' \subseteq Docs
    BY <1>1, Shape
  <1>3. CASE /\ HasRow(d0)
             /\ papers' = [papers EXCEPT ![d0].ref = TRUE]
             /\ loose' = IF papers[d0].row = "archived" THEN loose \cup {d0} ELSE loose
             /\ Done(c)
    <2> DEFINE q == [papers[d0] EXCEPT !.ref = TRUE]
    <2>1. q \in Paper /\ q.row = papers[d0].row /\ q.ref = TRUE /\ q.sum = papers[d0].sum
      <3>1. papers[d0] \in Paper
        BY <1>1, Shape
      <3> QED  BY <3>1, PaperFields
    <2>2. papers' = [papers EXCEPT ![d0] = q]
      BY <1>3
    <2> HIDE DEF q
    <2>3. /\ papers' \in [Docs -> Paper]
          /\ \A d \in Docs : /\ papers'[d].row = papers[d].row /\ papers'[d].sum = papers[d].sum
                             /\ d # d0 => papers'[d].ref = papers[d].ref
          /\ papers'[d0].ref = TRUE
      BY <1>1, <2>1, <2>2, Shape
    <2>4. loose' \subseteq Docs /\ loose \subseteq loose' /\ (papers[d0].row = "live" \/ d0 \in loose')
      BY <1>1, <1>3, Shape DEF HasRow
    <2>5. \A d \in disk' : \/ papers'[d].row = "live" \/ d \in loose'
                           \/ Working(d) /\ request[c].doc # d /\ d \notin request[c].files
      BY <1>1, <1>2, <2>3, <2>4
    <2>6. \A d \in disk' : papers'[d].row = "live" => papers'[d].ref \/ (d \in disk /\ request[c].doc # d)
      BY <1>1, <2>3
    <2>7. FilesKept(c, Free)
      BY <1>1, <2>5, <2>6 DEF FilesKept
    <2>8. RequestFits(Free) /\ RowsOnlyEnd
      BY <1>1, <2>3, <2>4, FreeType DEF RequestFits, RowsOnlyEnd
    <2> QED  BY <1>1, <1>2, <1>3, <2>3, <2>4, <2>7, <2>8, DoneShape, OneRequest
  <1>4. CASE request' = [request EXCEPT ![c].step = "discard"] /\ UNCHANGED <<papers, loose>>
    <2> DEFINE n == [request[c] EXCEPT !.step = "discard"]
    <2>1. n \in Request /\ n.step = "discard" /\ n.doc = d0 /\ n.files = request[c].files
      <3>1. request[c] \in Request /\ "discard" \in Steps
        BY Shape DEF Steps
      <3> QED  BY <3>1, StepTo
    <2>2. request' = [request EXCEPT ![c] = n]
      BY <1>4
    <2> HIDE DEF n
    <2>3. papers' = papers /\ loose' = loose /\ papers' \in [Docs -> Paper] /\ loose' \subseteq Docs
      BY <1>4, Shape
    <2>4. \A d \in disk' : \/ papers'[d].row = "live" \/ d \in loose'
                           \/ n.doc = d
                           \/ Working(d) /\ request[c].doc # d /\ d \notin request[c].files
      BY <1>1, <1>2, <2>1, <2>3
    <2>5. \A d \in disk' : n.doc = d \/ (d \in disk /\ request[c].doc # d)
      BY <1>1, <2>1
    <2>6. FilesKept(c, n)
      BY <1>1, <2>1, <2>4, <2>5 DEF FilesKept
    <2>7. RequestFits(n) /\ RowsOnlyEnd
      BY <1>1, <1>2, <2>1, <2>3 DEF RequestFits, RowsOnlyEnd
    <2> QED  BY <1>1, <1>2, <2>1, <2>2, <2>3, <2>6, <2>7, OneRequest
  <1> QED  BY <1>3, <1>4 DEF UploadFinish

(* Discarding a file nobody refers to keeps the invariant. *)
LEMMA DiscardFileStep ==
  ASSUME StorageInv, NEW c \in Requests, DiscardFile(c)
  PROVE  StorageInv'
  <1> DEFINE d0 == request[c].doc
  <1>1. /\ contract' = contract /\ deaths' = deaths /\ twins' = twins /\ papers' = papers
        /\ bare' = bare \cup {d0} /\ disk' \subseteq disk /\ loose \subseteq loose'
        /\ loose' \subseteq loose \cup {d0} /\ disk \ {d0} \subseteq disk'
        /\ d0 \in disk' => d0 \in loose'
        /\ request[c].step = "discard" /\ d0 \in Docs /\ Done(c)
    BY Shape DEF DiscardFile
  <1>2. /\ \A d \in disk : papers[d].row = "live" \/ Working(d) \/ d \in loose
        /\ request[c].files = {} /\ contract' \in BOOLEAN /\ disk' \subseteq Docs
        /\ papers' \in [Docs -> Paper]
        /\ deaths' \in 0..MaxDeaths /\ bare' \subseteq Docs /\ loose' \subseteq Docs
    BY <1>1, Shape
  <1>3. \A d \in disk' : \/ papers'[d].row = "live" \/ d \in loose'
                         \/ Working(d) /\ request[c].doc # d /\ d \notin request[c].files
    BY <1>1, <1>2
  <1>4. \A d \in Docs : d \in bare' \/ ((d \in disk => d \in disk') /\ request[c].doc # d)
    BY <1>1
  <1>5. FilesKept(c, Free)
    BY <1>1, <1>3, <1>4 DEF FilesKept
  <1>6. RequestFits(Free) /\ RowsOnlyEnd
    BY <1>1, FreeType DEF RequestFits, RowsOnlyEnd
  <1> QED  BY <1>1, <1>2, <1>5, <1>6, DoneShape, OneRequest

(* A removal that deletes the file first keeps the invariant: it holds its *)
(* row until it is archived.                                               *)
LEMMA RemoveFileStep ==
  ASSUME StorageInv, NEW c \in Requests, RemoveFile(c)
  PROVE  StorageInv'
  <1>1. PICK d0 \in Docs :
           /\ disk' = disk \ {d0}
           /\ request' = [request EXCEPT ![c] = [Free EXCEPT !.step = "unlinked", !.doc = d0]]
    BY DEF RemoveFile
  <1> DEFINE n == [Free EXCEPT !.step = "unlinked", !.doc = d0]
  <1>2. n \in Request /\ n.step = "unlinked" /\ n.doc = d0 /\ n.files = {}
    BY FreeType DEF Request
  <1>3. request' = [request EXCEPT ![c] = n]
    BY <1>1
  <1> HIDE DEF n
  <1>4. /\ papers' = papers /\ contract' = contract /\ deaths' = deaths
        /\ loose' = loose /\ bare' = bare /\ twins' = twins /\ request[c].step = "idle"
    BY DEF RemoveFile
  <1>5. /\ papers' \in [Docs -> Paper] /\ contract' \in BOOLEAN /\ disk' \subseteq Docs
        /\ deaths' \in 0..MaxDeaths /\ loose' \subseteq Docs /\ bare' \subseteq Docs
        /\ \A d \in disk : papers[d].row = "live" \/ Working(d) \/ d \in loose
        /\ \A d \in Docs : request[c].doc # d /\ d \notin request[c].files
    BY <1>1, <1>4, Shape
  <1>6. \A d \in disk' : papers'[d].row = "live" \/ d \in loose' \/ Working(d)
    BY <1>1, <1>4, <1>5
  <1>7. \A d \in Docs : n.doc = d \/ (d \in disk => d \in disk')
    BY <1>1, <1>2
  <1>8. FilesKept(c, n)
    BY <1>1, <1>2, <1>4, <1>5, <1>6, <1>7 DEF FilesKept
  <1>9. RequestFits(n) /\ RowsOnlyEnd
    BY <1>1, <1>2, <1>4, <1>5 DEF RequestFits, RowsOnlyEnd
  <1> QED  BY <1>2, <1>3, <1>4, <1>5, <1>8, <1>9, OneRequest

(* Archiving the row ends the removal, and no live row is left without its *)
(* file.                                                                   *)
LEMMA ArchiveRowStep ==
  ASSUME StorageInv, NEW c \in Requests, ArchiveRow(c)
  PROVE  StorageInv'
  <1> DEFINE d0 == request[c].doc
  <1>1. /\ contract' = contract /\ deaths' = deaths /\ disk' = disk /\ twins' = twins
        /\ request[c].step = "unlinked" /\ d0 \in Docs /\ Done(c)
    BY Shape DEF ArchiveRow
  <1>2. /\ papers' \in [Docs -> Paper] /\ loose' \subseteq Docs /\ bare' \subseteq Docs
        /\ loose \subseteq loose' /\ bare \subseteq bare'
        /\ \A d \in Docs : /\ papers'[d].ref = papers[d].ref /\ papers'[d].sum = papers[d].sum
                           /\ papers'[d].row = papers[d].row
                              \/ (d = d0 /\ papers[d].row = "live" /\ papers'[d].row = "archived"
                                  /\ (d \in disk => d \in loose'))
        /\ d0 \in bare' \/ papers'[d0].row # "live"
    <2>1. CASE /\ papers[d0].row = "live"
               /\ papers' = [papers EXCEPT ![d0].row = "archived"]
               /\ loose' = IF d0 \in disk THEN loose \cup {d0} ELSE loose
               /\ UNCHANGED bare
      <3> DEFINE q == [papers[d0] EXCEPT !.row = "archived"]
      <3>1. papers[d0] \in Paper
        BY <1>1, Shape
      <3>2. q \in Paper /\ q.row = "archived" /\ q.ref = papers[d0].ref /\ q.sum = papers[d0].sum
        BY <3>1 DEF Paper
      <3>3. papers' = [papers EXCEPT ![d0] = q]
        BY <2>1
      <3> HIDE DEF q
      <3>4. papers' \in [Docs -> Paper] /\ papers'[d0] = q /\ \A d \in Docs \ {d0} : papers'[d] = papers[d]
        BY <1>1, <3>2, <3>3, Shape
      <3> QED  BY <1>1, <2>1, <3>2, <3>4, Shape
    <2>2. CASE papers[d0].row # "live" /\ UNCHANGED <<papers, loose, bare>>
      BY <2>2, Shape
    <2>3. CASE bare' = bare \cup {d0} /\ UNCHANGED <<papers, loose>>
      BY <1>1, <2>3, Shape
    <2> QED  BY <2>1, <2>2, <2>3 DEF ArchiveRow
  <1>3. /\ \A d \in disk : papers[d].row = "live" \/ Working(d) \/ d \in loose
        /\ request[c].files = {} /\ contract' \in BOOLEAN /\ disk' \subseteq Docs
        /\ deaths' \in 0..MaxDeaths
    BY <1>1, Shape
  <1>4. \A d \in disk' : papers'[d].row = "live" \/ d \in loose' \/ Working(d)
    BY <1>1, <1>2, <1>3
  <1>5. \A d \in Docs : papers'[d].row = "live" =>
                           d \in bare' \/ ((d \in disk => d \in disk') /\ request[c].doc # d)
    BY <1>1, <1>2
  <1>6. FilesKept(c, Free)
    BY <1>1, <1>4, <1>5 DEF FilesKept
  <1>7. RequestFits(Free) /\ RowsOnlyEnd
    BY <1>1, <1>2, FreeType DEF RequestFits, RowsOnlyEnd
  <1> QED  BY <1>1, <1>2, <1>3, <1>6, <1>7, DoneShape, OneRequest

(* The deletion of the account removes the files of rows that are gone,    *)
(* one by one.                                                             *)
LEMMA SweepFileStep ==
  ASSUME StorageInv, NEW c \in Requests, SweepFile(c)
  PROVE  StorageInv'
  <1>1. /\ papers' = papers /\ contract' = contract /\ deaths' = deaths /\ bare' = bare /\ twins' = twins
        /\ request[c].step = "sweep" /\ request[c].doc = NoDoc /\ NoDoc \notin Docs
        /\ request[c] \in Request /\ request[c].files \subseteq Docs
        /\ papers' \in [Docs -> Paper] /\ contract' \in BOOLEAN
        /\ deaths' \in 0..MaxDeaths /\ bare' \subseteq Docs
        /\ disk \subseteq Docs /\ loose \subseteq Docs
        /\ \A d \in request[c].files : papers[d].row = "gone"
        /\ \A d \in disk : papers[d].row = "live" \/ Working(d) \/ d \in loose
    BY Shape DEF SweepFile
  <1>2. CASE request[c].files = {}
    <2>1. Done(c) /\ disk' = disk /\ loose' = loose
      BY <1>2 DEF SweepFile
    <2>2. FilesKept(c, Free)
      BY <1>1, <1>2, <2>1 DEF FilesKept
    <2>3. RequestFits(Free) /\ RowsOnlyEnd
      BY <1>1, <2>1, FreeType DEF RequestFits, RowsOnlyEnd
    <2> QED  BY <1>1, <2>1, <2>2, <2>3, DoneShape, OneRequest
  <1>3. CASE request[c].files # {}
    <2>1. PICK d \in request[c].files :
             /\ request' = [request EXCEPT ![c].files = @ \ {d}]
             /\ \/ disk' = disk \ {d} /\ UNCHANGED loose
                \/ loose' = loose \cup {d} /\ UNCHANGED disk
      BY <1>3 DEF SweepFile
    <2> DEFINE n == [request[c] EXCEPT !.files = @ \ {d}]
    <2>2. n \in Request /\ n.step = "sweep" /\ n.doc = NoDoc /\ n.files = request[c].files \ {d}
      BY <1>1 DEF Request
    <2>3. request' = [request EXCEPT ![c] = n]
      BY <2>1
    <2> HIDE DEF n
    <2>4. /\ disk' \subseteq disk /\ disk \ {d} \subseteq disk' /\ loose \subseteq loose'
          /\ loose' \subseteq Docs /\ (d \in disk' => d \in loose')
      BY <1>1, <2>1
    <2>5. FilesKept(c, n)
      BY <1>1, <2>2, <2>4 DEF FilesKept
    <2>6. RequestFits(n) /\ RowsOnlyEnd
      BY <1>1, <2>2, <2>4 DEF RequestFits, RowsOnlyEnd
    <2> QED  BY <1>1, <2>2, <2>3, <2>4, <2>5, <2>6, OneRequest
  <1> QED  BY <1>2, <1>3

\* Every row is gone with the policy.
LEMMA CascadeShape ==
  ASSUME StorageInv, Cascade
  PROVE  /\ papers' \in [Docs -> Paper]
         /\ \A d \in Docs : /\ papers'[d].row # "live"
                            /\ papers'[d].sum = papers[d].sum /\ papers'[d].ref = papers[d].ref
                            /\ papers'[d].row = IF HasRow(d) THEN "gone" ELSE papers[d].row
  <1>1. papers \in [Docs -> Paper]
    BY Shape
  <1>2. ASSUME NEW d \in Docs
        PROVE  /\ papers'[d] \in Paper
               /\ papers'[d].sum = papers[d].sum /\ papers'[d].ref = papers[d].ref
               /\ papers'[d].row = IF HasRow(d) THEN "gone" ELSE papers[d].row
    <2> DEFINE q == [papers[d] EXCEPT !.row = "gone"]
    <2>1. q \in Paper /\ q.row = "gone" /\ q.ref = papers[d].ref /\ q.sum = papers[d].sum
      BY <1>1 DEF Paper
    <2>2. papers'[d] = IF HasRow(d) THEN q ELSE papers[d]
      BY DEF Cascade
    <2> HIDE DEF q
    <2> QED  BY <1>1, <2>1, <2>2
  <1>3. papers' \in [Docs -> Paper]
    <2>1. papers' = [d \in Docs |-> papers'[d]]
      BY DEF Cascade
    <2> QED  BY <1>2, <2>1
  <1> QED  BY <1>2, <1>3 DEF HasRow

(* The transaction of the deletion takes policy and rows away and notes    *)
(* the files it has to remove.                                             *)
LEMMA DeleteAccountStep ==
  ASSUME StorageInv, NEW c \in Requests, DeleteAccount(c)
  PROVE  StorageInv'
  <1>1. /\ disk' = disk /\ deaths' = deaths /\ bare' = bare /\ twins' = twins
        /\ contract' = FALSE /\ loose' = loose \cup bare /\ Cascade
        /\ request[c].step = "idle" /\ request[c].doc = NoDoc /\ NoDoc \notin Docs
        /\ request[c].files = {}
        /\ deaths' \in 0..MaxDeaths /\ bare' \subseteq Docs /\ loose' \subseteq Docs
        /\ disk' \subseteq Docs
        /\ \A d \in disk : papers[d].row = "live" \/ Working(d) \/ d \in loose
    BY Shape DEF DeleteAccount
  <1> DEFINE n == [Free EXCEPT !.step = "sweep", !.files = FilesOf]
  <1>2. n \in Request /\ n.step = "sweep" /\ n.doc = NoDoc /\ n.files = FilesOf
    <2>1. FilesOf \subseteq Docs
      BY DEF FilesOf
    <2> QED  BY <2>1, FreeType DEF Request
  <1>3. request' = [request EXCEPT ![c] = n]
    BY DEF DeleteAccount
  <1> HIDE DEF n
  <1>4. papers' \in [Docs -> Paper]
    BY <1>1, CascadeShape
  <1>5. \A d \in disk : d \in loose' \/ d \in n.files \/ Working(d)
    <2> TAKE d \in disk
    <2>1. CASE papers[d].row = "live" /\ papers[d].ref
      BY <1>1, <1>2, <2>1 DEF FilesOf, HasRow
    <2>2. CASE papers[d].row = "live" /\ ~papers[d].ref
      BY <1>1, <2>2 DEF StorageInv, Unnamed
    <2>3. CASE papers[d].row # "live"
      BY <1>1, <2>3
    <2> QED  BY <2>1, <2>2, <2>3
  <1>6. \A d \in Docs : papers'[d].row # "live"
    BY <1>1, CascadeShape
  <1>7. FilesKept(c, n)
    BY <1>1, <1>2, <1>5, <1>6 DEF FilesKept
  <1>8. RequestFits(n)
    BY <1>1, <1>2, CascadeShape DEF RequestFits, FilesOf
  <1>9. RowsOnlyEnd
    BY <1>1, CascadeShape DEF RowsOnlyEnd, HasRow
  <1> QED  BY <1>1, <1>2, <1>3, <1>4, <1>7, <1>8, <1>9, OneRequest

(* Deleting the policy takes the rows with it; files without a request are *)
(* given up by the code.                                                   *)
LEMMA HardDeleteStep ==
  ASSUME StorageInv, HardDelete
  PROVE  StorageInv'
  <1>1. /\ disk' = disk /\ deaths' = deaths /\ bare' = bare /\ twins' = twins /\ request' = request
        /\ contract' = FALSE /\ loose' = loose \cup {d \in Docs : HasRow(d)} /\ Cascade
    BY DEF HardDelete
  <1>2. \A d \in Docs : /\ papers'[d].row # "live"
                        /\ papers'[d].row = IF HasRow(d) THEN "gone" ELSE papers[d].row
    BY <1>1, CascadeShape
  <1>3. LiveDocs' = {}
    BY <1>2 DEF LiveDocs
  <1>4. StorageTypeOK'
    BY <1>1, CascadeShape DEF StorageInv, StorageTypeOK
  <1>5. InOrder'
    <2>1. \A c \in Requests : request[c].files \subseteq Docs
      BY Shape
    <2> QED  BY <1>1, <1>2, <2>1 DEF StorageInv, InOrder, HasRow
  <1>6. Held'
    <2> SUFFICES ASSUME NEW d \in disk, d \notin loose' PROVE Working(d)'
      BY <1>1 DEF Held
    <2>1. d \in Docs /\ (papers[d].row = "live" \/ Working(d) \/ d \in loose)
      BY Shape
    <2> QED  BY <1>1, <2>1 DEF HasRow, Working
  <1>7. Unnamed'
    BY <1>1, <1>2, Shape DEF Unnamed
  <1> QED  BY <1>3, <1>4, <1>5, <1>6, <1>7 DEF StorageInv, ChecksStand, Readable, ContentOnce

(* A classification changes neither files nor what a row names. *)
LEMMA ClassifyStep ==
  ASSUME StorageInv, Classify
  PROVE  StorageInv'
  <1>1. /\ contract' = contract /\ disk' = disk /\ deaths' = deaths /\ bare' = bare /\ twins' = twins
        /\ request' = request /\ loose' = loose
    BY DEF Classify
  <1>2. PICK S \in SUBSET LiveDocs, class \in {"UNCLASSIFIED", "BILLING"} :
           papers' = [d \in Docs |->
                IF d \in S THEN [papers[d] EXCEPT !.class = class] ELSE papers[d]]
    BY DEF Classify
  <1>3. ASSUME NEW d \in Docs
        PROVE  papers'[d] \in Paper /\ papers'[d].row = papers[d].row
               /\ papers'[d].ref = papers[d].ref /\ papers'[d].sum = papers[d].sum
    <2> DEFINE q == [papers[d] EXCEPT !.class = class]
    <2>1. papers[d] \in Paper
      BY Shape
    <2>2. q \in Paper /\ q.row = papers[d].row /\ q.ref = papers[d].ref /\ q.sum = papers[d].sum
      BY <2>1 DEF Paper
    <2>3. papers'[d] = IF d \in S THEN q ELSE papers[d]
      BY <1>2
    <2> HIDE DEF q
    <2> QED  BY <2>1, <2>2, <2>3
  <1>4. papers' \in [Docs -> Paper]
    <2>1. papers' = [d \in Docs |-> papers'[d]]
      BY <1>2
    <2> QED  BY <1>3, <2>1
  <1>5. LiveDocs' = LiveDocs /\ LiveDocs \subseteq Docs /\ disk \subseteq Docs
    BY <1>3, Shape DEF LiveDocs
  <1>6. StorageTypeOK'
    BY <1>1, <1>4 DEF StorageInv, StorageTypeOK
  <1>7. InOrder'
    <2>1. \A c \in Requests : request[c].files \subseteq Docs
      BY Shape
    <2> QED  BY <1>1, <1>3, <2>1 DEF StorageInv, InOrder
  <1>8. ChecksStand' /\ ContentOnce'
    BY <1>1, <1>3, <1>5 DEF StorageInv, ChecksStand, ContentOnce
  <1>9. Held' /\ Unnamed'
    BY <1>1, <1>3, <1>5 DEF StorageInv, Held, Unnamed, Working
  <1>10. Readable'
    BY <1>1, <1>5 DEF StorageInv, Readable
  <1> QED  BY <1>6, <1>7, <1>8, <1>9, <1>10 DEF StorageInv

(* The death of the process ends every request; what they had in hand is   *)
(* given up.                                                               *)
LEMMA DeathStep ==
  ASSUME StorageInv, Death
  PROVE  StorageInv'
  <1>1. /\ papers' = papers /\ contract' = contract /\ disk' = disk /\ twins' = twins
        /\ request' = [c \in Requests |-> Free]
        /\ deaths' = deaths + 1 /\ deaths < MaxDeaths
        /\ loose' = loose \cup UNION {request[c].files \cup ({request[c].doc} \ {NoDoc}) :
                                        c \in {b \in Requests : request[b].step # "unlinked"}}
        /\ bare' = bare \cup {request[c].doc : c \in {b \in Requests : request[b].doc # NoDoc}}
    BY DEF Death
  <1>2. /\ disk \subseteq Docs /\ NoDoc \notin Docs
        /\ \A c \in Requests : request[c].files \subseteq Docs /\ request[c].doc \in Docs \cup {NoDoc}
    BY Shape, RequestFields
  <1>3. loose' \subseteq Docs /\ bare' \subseteq Docs /\ loose \subseteq loose' /\ bare \subseteq bare'
    BY <1>1, <1>2, Shape
  <1>4. \A c \in Requests, d \in Docs :
           /\ request[c].step # "unlinked" /\ (request[c].doc = d \/ d \in request[c].files) => d \in loose'
           /\ request[c].doc = d => d \in bare'
    BY <1>1, <1>2
  <1>5. deaths' \in 0..MaxDeaths
    BY <1>1, StorageAssumption, Shape
  <1>6. StorageTypeOK'
    BY <1>1, <1>3, <1>5, FreeType DEF StorageInv, StorageTypeOK
  <1>7. InOrder' /\ ChecksStand'
    BY <1>1, FreeType DEF InOrder, ChecksStand
  <1>8. Held'
    <2> SUFFICES ASSUME NEW d \in disk, papers[d].row # "live", d \notin loose' PROVE FALSE
      BY <1>1 DEF Held
    <2>1. Working(d)
      BY <1>3, Shape
    <2> QED  BY <1>2, <1>4, <2>1 DEF Working
  <1>9. Unnamed'
    <2> SUFFICES ASSUME NEW d \in disk, papers[d].row = "live", ~papers[d].ref, d \notin bare' PROVE FALSE
      BY <1>1 DEF Unnamed
    <2>1. Working(d)
      BY <1>3 DEF StorageInv, Unnamed
    <2>2. PICK c \in Requests : request[c].doc = d \/ d \in request[c].files
      BY <2>1 DEF Working
    <2>3. d \notin request[c].files
      BY Shape
    <2> QED  BY <1>2, <1>4, <2>2, <2>3
  <1>10. Readable'
    BY <1>1, <1>3, <1>4 DEF StorageInv, Readable, LiveDocs
  <1>11. ContentOnce'
    BY <1>1 DEF StorageInv, ContentOnce, LiveDocs
  <1> QED  BY <1>6, <1>7, <1>8, <1>9, <1>10, <1>11 DEF StorageInv

(* The insert keeps the invariant: an upload that checked earlier learns   *)
(* of the new row through its clash, which is why two live rows with one   *)
(* checksum come from overlapping uploads only.                            *)
LEMMA UploadCreateStep ==
  ASSUME StorageInv, NEW c \in Requests, UploadCreate(c)
  PROVE  StorageInv'
  <1> DEFINE s == request[c].sum
  <1>1. /\ contract' = contract /\ disk' = disk /\ deaths' = deaths /\ loose' = loose /\ bare' = bare
        /\ request[c].step = "checked"
    BY DEF UploadCreate
  <1>2. PICK d \in Docs :
          /\ papers[d].row = "none"
          /\ papers' = [papers EXCEPT ![d] = [row |-> "live", ref |-> FALSE,
                            sum |-> s, class |-> "UNCLASSIFIED"]]
          /\ twins' = IF \E e \in request[c].clash : papers[e].sum = s
                      THEN twins \cup {d} ELSE twins
          /\ request' = [b \in Requests |->
                IF b = c THEN [request[b] EXCEPT !.step = "created", !.doc = d]
                ELSE IF request[b].step = "checked"
                     THEN [request[b] EXCEPT !.clash = @ \cup {d}] ELSE request[b]]
    BY DEF UploadCreate
  <1>3. /\ papers \in [Docs -> Paper] /\ request[c] \in Request /\ s \in Sums
        /\ request \in [Requests -> Request] /\ NoDoc \notin Docs /\ LiveDocs \subseteq Docs
        /\ disk \subseteq Docs
    BY Shape, RequestFields
  <1> HIDE DEF s
  <1>4. /\ papers' \in [Docs -> Paper] /\ papers'[d].row = "live" /\ papers'[d].sum = s
        /\ \A e \in Docs \ {d} : papers'[e] = papers[e]
        /\ LiveDocs' = LiveDocs \cup {d} /\ d \notin LiveDocs
    <2>1. [row |-> "live", ref |-> FALSE, sum |-> s, class |-> "UNCLASSIFIED"] \in Paper
      BY <1>3 DEF Paper
    <2>2. papers' \in [Docs -> Paper] /\ papers'[d].row = "live" /\ papers'[d].sum = s
          /\ \A e \in Docs \ {d} : papers'[e] = papers[e]
      BY <1>2, <1>3, <2>1
    <2> QED  BY <1>2, <2>2 DEF LiveDocs
  <1>5. /\ request'[c] \in Request /\ request'[c].step = "created" /\ request'[c].doc = d
        /\ request'[c].files = request[c].files
    <2> DEFINE n == [request[c] EXCEPT !.step = "created", !.doc = d]
    <2>1. n \in Request /\ n.step = "created" /\ n.doc = d /\ n.files = request[c].files
      BY <1>3 DEF Request
    <2>2. request'[c] = n
      BY <1>2
    <2> HIDE DEF n
    <2> QED  BY <2>1, <2>2
  <1>6. ASSUME NEW b \in Requests \ {c}
        PROVE  /\ request'[b] \in Request
               /\ request'[b].step = request[b].step /\ request'[b].doc = request[b].doc
               /\ request'[b].files = request[b].files /\ request'[b].sum = request[b].sum
               /\ request[b].step = "checked" => request'[b].clash = request[b].clash \cup {d}
    <2> DEFINE n == [request[b] EXCEPT !.clash = @ \cup {d}]
    <2>1. request[b] \in Request
      BY <1>3
    <2>2. /\ n \in Request /\ n.step = request[b].step /\ n.doc = request[b].doc
          /\ n.files = request[b].files /\ n.sum = request[b].sum
          /\ n.clash = request[b].clash \cup {d}
      BY <2>1 DEF Request
    <2>3. request'[b] = IF request[b].step = "checked" THEN n ELSE request[b]
      BY <1>2
    <2> HIDE DEF n
    <2> QED  BY <2>1, <2>2, <2>3
  <1>7. StorageTypeOK'
    <2>1. request' \in [Requests -> Request]
      <3>1. request' = [b \in Requests |-> request'[b]]
        BY <1>2
      <3> QED  BY <1>5, <1>6, <3>1
    <2>2. twins' \subseteq Docs
      BY <1>2, Shape
    <2> QED  BY <1>1, <1>4, <2>1, <2>2 DEF StorageInv, StorageTypeOK
  <1>8. \A b \in Requests : \A e \in request[b].files : papers[e].row = "gone" /\ e \in Docs
    BY Shape
  <1>9. InOrder'
    <2>1. /\ request[c].doc = NoDoc /\ request[c].files = {}
      BY <1>1, Shape
    <2>2. \A b \in Requests \ {c} : \A e \in request'[b].files : papers'[e].row = "gone"
      <3> TAKE b \in Requests \ {c}
      <3> TAKE e \in request'[b].files
      <3>1. e \in request[b].files
        BY <1>6
      <3>2. papers[e].row = "gone" /\ e \in Docs
        BY <1>8, <3>1
      <3> QED  BY <1>2, <1>4, <3>2
    <2> QED  BY <1>5, <1>6, <2>1, <2>2 DEF StorageInv, InOrder
  <1>10. ChecksStand'
    <2> SUFFICES ASSUME NEW b \in Requests, request'[b].step = "checked",
                        NEW e \in LiveDocs', papers'[e].sum = request'[b].sum
                 PROVE  e \in request'[b].clash
      BY DEF ChecksStand
    <2>1. b # c
      BY <1>5
    <2>2. CASE e = d
      BY <1>6, <2>1, <2>2
    <2>3. CASE e # d
      BY <1>3, <1>4, <1>6, <2>1, <2>3 DEF StorageInv, ChecksStand
    <2> QED  BY <2>2, <2>3
  <1>11. \A e \in Docs : Working(e) => Working(e)'
    BY <1>1, <1>5, <1>6, Shape DEF Working
  <1>12. Held'
    BY <1>1, <1>3, <1>4, <1>11 DEF StorageInv, Held
  <1>13. Working(d)'
    BY <1>5 DEF Working
  <1>14. Unnamed'
    BY <1>1, <1>3, <1>4, <1>11, <1>13 DEF StorageInv, Unnamed
  <1>15. Readable'
    <2> SUFFICES ASSUME NEW e \in LiveDocs', e \notin disk, e \notin bare
                 PROVE  \E b \in Requests : request'[b].step # "stored" /\ request'[b].doc = e
      BY <1>1 DEF Readable
    <2>1. CASE e = d
      BY <1>5, <2>1
    <2>2. CASE e # d
      <3>1. e \in LiveDocs /\ e \in Docs
        BY <1>3, <1>4, <2>2
      <3>2. PICK b \in Requests : request[b].step # "stored" /\ request[b].doc = e
        BY <3>1 DEF StorageInv, Readable
      <3>3. b # c
        BY <1>1, <3>1, <3>2, Shape
      <3> QED  BY <1>6, <3>2, <3>3
    <2> QED  BY <2>1, <2>2
  <1>16. ContentOnce'
    <2> SUFFICES ASSUME NEW e \in LiveDocs', NEW f \in LiveDocs', e # f,
                        papers'[e].sum = papers'[f].sum
                 PROVE  e \in twins' \/ f \in twins'
      BY DEF ContentOnce
    <2>1. ASSUME NEW g \in LiveDocs, g # d, papers[g].sum = s PROVE d \in twins'
      <3>1. g \in request[c].clash
        BY <1>1, <2>1 DEF StorageInv, ChecksStand, s
      <3> QED  BY <1>2, <2>1, <3>1
    <2>2. twins \subseteq twins'
      BY <1>2
    <2>3. CASE e = d
      BY <1>3, <1>4, <2>1, <2>3
    <2>4. CASE f = d
      BY <1>3, <1>4, <2>1, <2>4
    <2>5. CASE e # d /\ f # d
      BY <1>3, <1>4, <2>2, <2>5 DEF StorageInv, ContentOnce
    <2> QED  BY <2>3, <2>4, <2>5
  <1> QED  BY <1>7, <1>9, <1>10, <1>12, <1>14, <1>15, <1>16 DEF StorageInv

(* The first state satisfies the invariant. *)
LEMMA StorageInitially == StorageInit => StorageInv
  <1> SUFFICES ASSUME StorageInit PROVE StorageInv
    OBVIOUS
  <1>1. LiveDocs = {}
    BY DEF StorageInit, LiveDocs
  <1>2. StorageTypeOK
    <2>1. [row |-> "none", ref |-> FALSE, sum |-> Free.sum, class |-> "UNCLASSIFIED"] \in Paper
      BY FreeType DEF Paper
    <2>2. 0 \in 0..MaxDeaths
      BY StorageAssumption
    <2> QED  BY <2>1, <2>2, FreeType DEF StorageInit, StorageTypeOK
  <1>3. InOrder
    BY FreeType DEF StorageInit, InOrder
  <1> QED  BY <1>1, <1>2, <1>3 DEF StorageInit, StorageInv, ChecksStand, Held, Unnamed, Readable, ContentOnce

(* Every step keeps the invariant. *)
LEMMA StorageStep == StorageInv /\ [StorageNext]_storageVars => StorageInv'
  <1> SUFFICES ASSUME StorageInv, [StorageNext]_storageVars PROVE StorageInv'
    OBVIOUS
  <1>1. CASE UNCHANGED storageVars
    BY <1>1 DEF storageVars, StorageInv, StorageTypeOK, InOrder, ChecksStand, Held, Unnamed, Readable,
                ContentOnce, LiveDocs, Working
  <1>2. ASSUME NEW c \in Requests,
               UploadCheck(c) \/ UploadCreate(c) \/ UploadRefused(c) \/ StoreFile(c) \/ UnwindRow(c)
        PROVE  StorageInv'
    BY <1>2, UploadCheckStep, UploadCreateStep, UploadRefusedStep, StoreFileStep, UnwindRowStep
  <1>3. ASSUME NEW c \in Requests,
               UploadFinish(c) \/ DiscardFile(c) \/ RemoveFile(c) \/ ArchiveRow(c)
               \/ DeleteAccount(c) \/ SweepFile(c)
        PROVE  StorageInv'
    BY <1>3, UploadFinishStep, DiscardFileStep, RemoveFileStep, ArchiveRowStep, DeleteAccountStep,
       SweepFileStep
  <1> QED  BY <1>1, <1>2, <1>3, ClassifyStep, HardDeleteStep, DeathStep DEF StorageNext

(* For any number of documents, requests, checksums and deaths: the        *)
(* invariant holds in every reachable state.                               *)
THEOREM StorageInvariance == StorageSpec => []StorageInv
  BY StorageInitially, StorageStep, PTL DEF StorageSpec

(* The invariant is stronger than the property. *)
LEMMA InvIsFilesRight == StorageInv => FilesRight
  <1> SUFFICES ASSUME StorageInv PROVE NoFileForgotten /\ ShownIsReadable /\ ContentOnce
    BY DEF FilesRight
  <1>1. NoFileForgotten
    BY DEF StorageInv, Held, Working, NoFileForgotten
  <1>2. ShownIsReadable
    BY DEF StorageInv, Readable, ShownIsReadable
  <1> QED  BY <1>1, <1>2 DEF StorageInv

(* Whatever overlaps and wherever the process dies: no file is forgotten   *)
(* that the code has not given up, a document that is shown can be read,   *)
(* and one content is stored once, overlapping uploads aside.              *)
THEOREM FilesAlwaysRight == StorageSpec => []FilesRight
  BY InvIsFilesRight, StorageInvariance, PTL

-----------------------------------------------------------------------------
(* Sharing.                                                                *)

\* A share that a request is about to make a second time is known to have
\* been made while that request was under way.
PendingKnown ==
    \A c \in Callers : caller[c] # Quiet =>
        \A s \in Shared : SameShare(shares[s], caller[c]) => s \in doubled

(* The inductive invariant of policies and shares. *)
SharingInv ==
    /\ SharingTypeOK
    /\ PendingKnown
    /\ ShareOnce

(* Changes of a policy that keep its type. *)
LEMMA ContractFields ==
  ASSUME NEW r \in Contract
  PROVE  /\ \A k \in Kinds : [r EXCEPT !.kind = k] \in Contract
         /\ [r EXCEPT !.row = "archived"] \in Contract
         /\ [r EXCEPT !.pinned = ~@] \in Contract
  BY DEF Contract

(* A change of the permission leaves the rest of a share. *)
LEMMA ShareFields ==
  ASSUME NEW t \in Share, NEW q \in {"READ", "WRITE"}
  PROVE  LET n == [t EXCEPT !.permission = q]
         IN  n \in Share /\ n.row = t.row /\ n.source = t.source /\ n.target = t.target
             /\ n.scope = t.scope /\ n.ref = t.ref
  BY DEF Share

(* Places of shares that nobody uses are typed. *)
LEMMA EmptyShares ==
  \A row \in {"none", "there", "gone"} : NoShare(row) \in Share /\ NoShare(row).row = row
  BY DEF NoShare, Share

(* A step of the registry or of the administration leaves the shares and   *)
(* the requests alone.                                                     *)
LEMMA RegistryStep ==
  ASSUME SharingInv, UNCHANGED <<shares, caller, doubled>>,
         registry' \in [Contracts -> Contract], member' \in [Members -> {"no", "READ_ONLY", "USER"}]
  PROVE  SharingInv'
  <1>1. Shared' = Shared
    BY DEF Shared
  <1> QED  BY <1>1 DEF SharingInv, SharingTypeOK, PendingKnown, ShareOnce, SameShare, Quiet, NoShare

(* A step that removes shares, or changes what they allow.                 *)
LEMMA FewerShares ==
  ASSUME SharingInv, UNCHANGED <<registry, caller>>,
         member' \in [Members -> {"no", "READ_ONLY", "USER"}],
         shares' \in [ShareRows -> Share], doubled' \subseteq ShareRows,
         \A s \in Shared' : /\ s \in Shared /\ SameShare(shares'[s], shares[s])
                            /\ s \in doubled => s \in doubled'
  PROVE  SharingInv'
  <1>1. SharingTypeOK'
    BY DEF SharingInv, SharingTypeOK
  <1>2. PendingKnown'
    BY DEF SharingInv, PendingKnown, SameShare, Quiet, NoShare
  <1>3. ShareOnce'
    BY DEF SharingInv, ShareOnce, SameShare
  <1> QED  BY <1>1, <1>2, <1>3 DEF SharingInv

(* What happens to policies and roles keeps the invariant. *)
LEMMA RegistrySteps ==
  ASSUME SharingInv,
         CreateContract \/ UpdateContract \/ ArchiveContract \/ DeleteContract \/ PinContract \/ ChangeRole
  PROVE  SharingInv'
  <1>1. registry \in [Contracts -> Contract] /\ member \in [Members -> {"no", "READ_ONLY", "USER"}]
    BY DEF SharingInv, SharingTypeOK
  <1>2. CASE CreateContract
    <2>1. \A u \in Members, k \in Kinds :
             [row |-> "live", owner |-> u, kind |-> k, pinned |-> FALSE] \in Contract
      BY DEF Contract
    <2> QED  BY <1>1, <1>2, <2>1, RegistryStep DEF CreateContract
  <1>3. CASE UpdateContract
    <2>1. PICK p \in Contracts, k \in Kinds : registry' = [registry EXCEPT ![p].kind = k]
      BY <1>3 DEF UpdateContract
    <2>2. [registry[p] EXCEPT !.kind = k] \in Contract
      BY <1>1, ContractFields
    <2>3. registry' \in [Contracts -> Contract]
      BY <1>1, <2>1, <2>2
    <2> QED  BY <1>1, <1>3, <2>3, RegistryStep DEF UpdateContract
  <1>4. CASE ArchiveContract
    <2>1. PICK p \in Contracts : registry' = [registry EXCEPT ![p].row = "archived"]
      BY <1>4 DEF ArchiveContract
    <2>2. [registry[p] EXCEPT !.row = "archived"] \in Contract
      BY <1>1, ContractFields
    <2>3. registry' \in [Contracts -> Contract]
      BY <1>1, <2>1, <2>2
    <2> QED  BY <1>1, <1>4, <2>3, RegistryStep DEF ArchiveContract
  <1>5. CASE DeleteContract
    <2>1. NoContract("gone") \in Contract
      BY DEF NoContract, Contract
    <2> QED  BY <1>1, <1>5, <2>1, RegistryStep DEF DeleteContract
  <1>6. CASE PinContract
    <2>1. PICK p \in Contracts : registry' = [registry EXCEPT ![p].pinned = ~@]
      BY <1>6 DEF PinContract
    <2>2. [registry[p] EXCEPT !.pinned = ~@] \in Contract
      BY <1>1, ContractFields
    <2>3. registry' \in [Contracts -> Contract]
      BY <1>1, <2>1, <2>2
    <2> QED  BY <1>1, <1>6, <2>3, RegistryStep DEF PinContract
  <1>7. CASE ChangeRole
    BY <1>1, <1>7, RegistryStep DEF ChangeRole
  <1> QED  BY <1>2, <1>3, <1>4, <1>5, <1>6, <1>7

(* The look for an existing share keeps the invariant: none is there that  *)
(* the request is about to make.                                           *)
LEMMA ShareCheckStep ==
  ASSUME SharingInv, NEW c \in Callers, ShareCheck(c)
  PROVE  SharingInv'
  <1>1. PICK u \in Members, v \in Members, scope \in Scopes : \E ref \in ScopeRefs(scope) :
              LET t == [NoShare("there") EXCEPT !.source = u, !.target = v,
                                               !.scope = scope, !.ref = ref]
              IN  FirstShare(t) /\ caller' = [caller EXCEPT ![c] = t]
    BY DEF ShareCheck
  <1>2. PICK ref \in ScopeRefs(scope) :
              LET t == [NoShare("there") EXCEPT !.source = u, !.target = v,
                                               !.scope = scope, !.ref = ref]
              IN  FirstShare(t) /\ caller' = [caller EXCEPT ![c] = t]
    BY <1>1
  <1> DEFINE t == [NoShare("there") EXCEPT !.source = u, !.target = v, !.scope = scope, !.ref = ref]
  <1>3. ref \in Contracts \cup Kinds \cup {Nothing}
    BY DEF ScopeRefs
  <1>4. t \in Share
    BY <1>3 DEF NoShare, Share
  <1>5. FirstShare(t) /\ caller' = [caller EXCEPT ![c] = t]
    BY <1>2
  <1> HIDE DEF t
  <1>6. UNCHANGED <<registry, member, shares, doubled>> /\ Shared' = Shared
    BY DEF ShareCheck, Shared
  <1>7. caller \in [Callers -> Share]
    BY DEF SharingInv, SharingTypeOK
  <1>8. SharingTypeOK'
    BY <1>4, <1>5, <1>6, <1>7 DEF SharingInv, SharingTypeOK
  <1>9. PendingKnown'
    <2> SUFFICES ASSUME NEW b \in Callers, caller'[b] # Quiet, NEW s \in Shared,
                        SameShare(shares[s], caller'[b])
                 PROVE  s \in doubled
      BY <1>6 DEF PendingKnown, SameShare, Quiet, NoShare
    <2>1. CASE b = c
      BY <1>5, <1>7, <2>1 DEF FirstShare
    <2>2. CASE b # c
      BY <1>5, <1>7, <2>2 DEF SharingInv, PendingKnown
    <2> QED  BY <2>1, <2>2
  <1>10. ShareOnce'
    BY <1>6 DEF SharingInv, ShareOnce, SameShare
  <1> QED  BY <1>8, <1>9, <1>10 DEF SharingInv

(* The insert keeps the invariant: other requests that checked before it   *)
(* make a share that counts as doubled.                                    *)
LEMMA ShareInsertStep ==
  ASSUME SharingInv, NEW c \in Callers, ShareInsert(c)
  PROVE  SharingInv'
  <1> DEFINE t == caller[c]
  <1>1. /\ t # Quiet /\ caller' = [caller EXCEPT ![c] = Quiet] /\ UNCHANGED <<registry, member>>
        /\ caller \in [Callers -> Share] /\ shares \in [ShareRows -> Share] /\ t \in Share
        /\ doubled \subseteq ShareRows
    BY DEF ShareInsert, SharingInv, SharingTypeOK
  <1>2. /\ Quiet \in Share /\ caller' \in [Callers -> Share] /\ caller'[c] = Quiet
        /\ \A b \in Callers \ {c} : caller'[b] = caller[b]
    BY <1>1, EmptyShares DEF Quiet
  <1>3. CASE UNCHANGED <<shares, doubled>>
    <2>1. Shared' = Shared
      BY <1>3 DEF Shared
    <2>2. SharingTypeOK'
      BY <1>1, <1>2, <1>3 DEF SharingInv, SharingTypeOK
    <2>3. PendingKnown'
      BY <1>2, <1>3, <2>1 DEF SharingInv, PendingKnown, SameShare, Quiet, NoShare
    <2>4. ShareOnce'
      BY <1>3, <2>1 DEF SharingInv, ShareOnce, SameShare
    <2> QED  BY <2>2, <2>3, <2>4 DEF SharingInv
  <1>4. ASSUME NEW s \in ShareRows, NEW q \in {"READ", "WRITE"},
               shares[s].row = "none",
               shares' = [shares EXCEPT ![s] = [t EXCEPT !.permission = q]],
               doubled' = IF Overlapped(c) THEN doubled \cup {s} ELSE doubled
        PROVE  SharingInv'
    <2> DEFINE n == [t EXCEPT !.permission = q]
    <2>1. n \in Share /\ SameShare(n, t) /\ SameShare(t, n)
      BY <1>1, ShareFields DEF SameShare
    <2>2. /\ shares' \in [ShareRows -> Share] /\ shares'[s] = n
          /\ \A r \in ShareRows \ {s} : shares'[r] = shares[r]
      BY <1>1, <1>4, <2>1
    <2> HIDE DEF n, t
    <2>3. Shared' \subseteq Shared \cup {s} /\ s \notin Shared /\ Shared' \subseteq ShareRows
          /\ doubled \subseteq doubled' /\ doubled' \subseteq ShareRows
      BY <1>1, <1>4, <2>2 DEF Shared
    <2>4. SharingTypeOK'
      BY <1>1, <1>2, <2>2, <2>3 DEF SharingInv, SharingTypeOK
    <2>5. PendingKnown'
      <3> SUFFICES ASSUME NEW b \in Callers, caller'[b] # Quiet, NEW r \in Shared',
                          SameShare(shares'[r], caller'[b])
                   PROVE  r \in doubled'
        BY DEF PendingKnown, SameShare, Quiet, NoShare
      <3>1. b # c /\ caller'[b] = caller[b]
        BY <1>2
      <3>2. CASE r = s
        <4>1. SameShare(caller[b], t)
          BY <2>1, <2>2, <3>1, <3>2 DEF SameShare
        <4>2. Overlapped(c)
          BY <3>1, <4>1 DEF Overlapped, t
        <4> QED  BY <1>4, <3>2, <4>2
      <3>3. CASE r # s
        BY <2>2, <2>3, <3>1, <3>3 DEF SharingInv, PendingKnown
      <3> QED  BY <3>2, <3>3
    <2>6. ShareOnce'
      <3> SUFFICES ASSUME NEW r \in Shared', NEW x \in Shared', r # x,
                          SameShare(shares'[r], shares'[x])
                   PROVE  r \in doubled' \/ x \in doubled'
        BY DEF ShareOnce, SameShare
      <3>1. ASSUME NEW y \in Shared, y # s, SameShare(shares[y], t) PROVE y \in doubled
        BY <1>1, <3>1 DEF SharingInv, PendingKnown, t
      <3>2. CASE r = s
        <4>1. x \in Shared /\ x # s /\ SameShare(shares[x], t)
          BY <2>1, <2>2, <2>3, <3>2 DEF SameShare
        <4> QED  BY <2>3, <3>1, <4>1
      <3>3. CASE x = s
        <4>1. r \in Shared /\ r # s /\ SameShare(shares[r], t)
          BY <2>1, <2>2, <2>3, <3>3 DEF SameShare
        <4> QED  BY <2>3, <3>1, <4>1
      <3>4. CASE r # s /\ x # s
        <4>1. r \in Shared /\ x \in Shared /\ SameShare(shares[r], shares[x])
          BY <2>2, <2>3, <3>4
        <4> QED  BY <2>3, <4>1 DEF SharingInv, ShareOnce
      <3> QED  BY <3>2, <3>3, <3>4
    <2> QED  BY <2>4, <2>5, <2>6 DEF SharingInv
  <1> QED  BY <1>3, <1>4 DEF ShareInsert

(* Changing, revoking and losing a share keep the invariant. *)
LEMMA ShareSteps ==
  ASSUME SharingInv, ChangePermission \/ RevokeShare \/ LeaveHousehold
  PROVE  SharingInv'
  <1>1. /\ shares \in [ShareRows -> Share] /\ doubled \subseteq ShareRows
        /\ member \in [Members -> {"no", "READ_ONLY", "USER"}] /\ Shared \subseteq ShareRows
    BY DEF SharingInv, SharingTypeOK, Shared
  <1>2. CASE ChangePermission
    <2>1. PICK s \in Shared :
             shares' = [shares EXCEPT ![s].permission = IF @ = "READ" THEN "WRITE" ELSE "READ"]
      BY <1>2 DEF ChangePermission
    <2> DEFINE q == IF shares[s].permission = "READ" THEN "WRITE" ELSE "READ"
               n == [shares[s] EXCEPT !.permission = q]
    <2>2. s \in ShareRows /\ shares[s] \in Share /\ q \in {"READ", "WRITE"}
      BY <1>1
    <2>3. n \in Share /\ n.row = shares[s].row /\ SameShare(n, shares[s])
      <3> HIDE DEF q
      <3> QED  BY <2>2, ShareFields DEF SameShare
    <2>4. shares' = [shares EXCEPT ![s] = n]
      BY <2>1
    <2> HIDE DEF n
    <2>5. /\ shares' \in [ShareRows -> Share] /\ shares'[s] = n
          /\ \A r \in ShareRows \ {s} : shares'[r] = shares[r]
      BY <1>1, <2>2, <2>3, <2>4
    <2>6. \A r \in Shared' : r \in Shared /\ SameShare(shares'[r], shares[r])
      BY <2>3, <2>5 DEF Shared, SameShare
    <2> QED  BY <1>1, <1>2, <2>5, <2>6, FewerShares DEF ChangePermission
  <1>3. CASE RevokeShare
    <2>1. PICK s \in Shared : shares' = [shares EXCEPT ![s] = NoShare("gone")] /\ doubled' = doubled \ {s}
      BY <1>3 DEF RevokeShare
    <2>2. shares' \in [ShareRows -> Share]
      BY <1>1, <2>1, EmptyShares
    <2>3. \A r \in Shared' : r \in Shared /\ SameShare(shares'[r], shares[r])
                             /\ (r \in doubled => r \in doubled')
      BY <1>1, <2>1, EmptyShares DEF Shared, SameShare
    <2> QED  BY <1>1, <1>3, <2>1, <2>2, <2>3, FewerShares DEF RevokeShare
  <1>4. CASE LeaveHousehold
    <2>1. PICK u \in Members :
            LET lost == {s \in Shared : u \in {shares[s].source, shares[s].target}} IN
            /\ member' = [member EXCEPT ![u] = "no"]
            /\ shares' = [s \in ShareRows |-> IF s \in lost THEN NoShare("gone") ELSE shares[s]]
            /\ doubled' = doubled \ lost
      BY <1>4 DEF LeaveHousehold
    <2> DEFINE lost == {s \in Shared : u \in {shares[s].source, shares[s].target}}
    <2>2. /\ member' \in [Members -> {"no", "READ_ONLY", "USER"}]
          /\ doubled' = doubled \ lost
          /\ shares' = [s \in ShareRows |-> IF s \in lost THEN NoShare("gone") ELSE shares[s]]
      BY <1>1, <2>1
    <2> HIDE DEF lost
    <2>3. shares' \in [ShareRows -> Share]
      BY <1>1, <2>2, EmptyShares
    <2>4. \A r \in Shared' : r \in Shared /\ SameShare(shares'[r], shares[r])
                             /\ (r \in doubled => r \in doubled')
      BY <1>1, <2>2, EmptyShares DEF Shared, SameShare
    <2> QED  BY <1>1, <1>4, <2>2, <2>3, <2>4, FewerShares DEF LeaveHousehold
  <1> QED  BY <1>2, <1>3, <1>4

(* The first state satisfies the invariant. *)
LEMMA SharingInitially == SharingInit => SharingInv
  <1> SUFFICES ASSUME SharingInit PROVE SharingInv
    OBVIOUS
  <1>1. Shared = {}
    BY EmptyShares DEF SharingInit, Shared
  <1>2. NoContract("none") \in Contract
    BY DEF NoContract, Contract
  <1> QED  BY <1>1, <1>2, EmptyShares
           DEF SharingInit, SharingInv, SharingTypeOK, PendingKnown, ShareOnce, Quiet

(* Every step keeps the invariant. *)
LEMMA SharingStep == SharingInv /\ [SharingNext]_sharingVars => SharingInv'
  <1> SUFFICES ASSUME SharingInv, [SharingNext]_sharingVars PROVE SharingInv'
    OBVIOUS
  <1>1. CASE UNCHANGED sharingVars
    BY <1>1, RegistryStep DEF sharingVars, SharingInv, SharingTypeOK
  <1>2. ASSUME NEW c \in Callers, ShareCheck(c) \/ ShareInsert(c) PROVE SharingInv'
    BY <1>2, ShareCheckStep, ShareInsertStep
  <1> QED  BY <1>1, <1>2, RegistrySteps, ShareSteps DEF SharingNext

(* For any number of members, policies, shares and requests: the invariant *)
(* holds in every reachable state.                                         *)
THEOREM SharingInvariance == SharingSpec => []SharingInv
  BY SharingInitially, SharingStep, PTL DEF SharingSpec

(* The invariant is stronger than the property; that lists and single      *)
(* policies agree follows from the types, for both decisions are functions *)
(* of the rows.                                                            *)
LEMMA InvIsSharesRight == SharingInv => SharesRight
  <1> SUFFICES ASSUME SharingInv PROVE ListIsDetail /\ ShareOnce
    BY DEF SharesRight
  <1>1. ASSUME NEW u \in Members, NEW p \in Contracts, registry[p].row = "live"
        PROVE  p \in Listed(u) <=> MayRead(u, p)
    <2>1. member[u] \in {"no", "READ_ONLY", "USER"}
      BY DEF SharingInv, SharingTypeOK
    <2>2. InRegistry(p)
      BY <1>1 DEF InRegistry
    <2> QED  BY <1>1, <2>1, <2>2
             DEF Listed, ReadablePolicyIds, MayRead, HasPolicyReadShare, IsMember
  <1> QED  BY <1>1 DEF SharingInv, ListIsDetail

(* The list of a READ_ONLY user shows exactly the live policies that may   *)
(* be opened, and a share is made twice only by overlapping requests.      *)
THEOREM SharesAlwaysRight == SharingSpec => []SharesRight
  BY InvIsSharesRight, SharingInvariance, PTL

-----------------------------------------------------------------------------
(* The language.                                                           *)

\* The page waits for the answer to r.
Waits(r) == ~Idling(r) /\ lines[r].mine

\* The page, the cookie and the server agree.
Agreed == language = ResolveLanguage /\ cookie = WriteCookie(language)

\* What is so while the page waits for r.
Awaits(r) ==
    /\ lines[r].kind = "resolve" =>
          /\ lines[r].stage # "failed"
          /\ lines[r].stage = "ok" => lines[r].want = ResolveLanguage
    /\ lines[r].kind = "save" =>
          /\ language = lines[r].want /\ cookie = WriteCookie(lines[r].previous)
          /\ lines[r].stage = "ok" => lines[r].want = ResolveLanguage
          /\ lines[r].stage # "ok" => lines[r].previous = ResolveLanguage

\* Where no requests met, the page waits for one at most, and the server has done the others.
TidyLines ==
    tidy =>
        /\ \A r \in Lines : ~Idling(r) /\ ~lines[r].mine => lines[r].stage # "sent"
        /\ \A r, q \in Lines : Waits(r) /\ Waits(q) => r = q
        /\ \A r \in Lines : Waits(r) => Awaits(r)
        /\ (\A r \in Lines : ~Waits(r)) => Agreed

\* What is saved, and what a good answer brings, is a language.
LinesKnown ==
    \A r \in Lines : ~Idling(r) =>
        /\ lines[r].kind = "save" => {lines[r].want, lines[r].previous} \subseteq Languages
        /\ lines[r].kind = "resolve" /\ lines[r].stage = "ok" => lines[r].want \in Languages

LanguageInv == LanguageTypeOK /\ LinesKnown /\ TidyLines

\* A request answered, and one whose page is gone.
LEMMA LineFields ==
    ASSUME NEW x \in Line
    PROVE  /\ \A o \in {"ok", "failed"} :
                 /\ [x EXCEPT !.stage = o] \in Line
                 /\ [x EXCEPT !.stage = o] # Unset
                 /\ [x EXCEPT !.stage = o].stage = o
                 /\ [x EXCEPT !.stage = o].kind = x.kind
                 /\ [x EXCEPT !.stage = o].want = x.want
                 /\ [x EXCEPT !.stage = o].previous = x.previous
                 /\ [x EXCEPT !.stage = o].mine = x.mine
           /\ [x EXCEPT !.mine = FALSE] \in Line
           /\ [x EXCEPT !.mine = FALSE] # Unset
           /\ [x EXCEPT !.mine = FALSE].stage = x.stage
           /\ [x EXCEPT !.mine = FALSE].kind = x.kind
           /\ [x EXCEPT !.mine = FALSE].want = x.want
           /\ [x EXCEPT !.mine = FALSE].previous = x.previous
           /\ ~[x EXCEPT !.mine = FALSE].mine
           /\ x # Unset
BY LanguageAssumption DEF Line

\* A question answered.
LEMMA AnswerFields ==
    ASSUME NEW y \in Line, NEW l \in Languages
    PROVE  /\ [y EXCEPT !.stage = "ok", !.want = l] \in Line
           /\ [y EXCEPT !.stage = "ok", !.want = l] # Unset
           /\ [y EXCEPT !.stage = "ok", !.want = l].kind = y.kind
           /\ [y EXCEPT !.stage = "ok", !.want = l].want = l
           /\ [y EXCEPT !.stage = "ok", !.want = l].previous = y.previous
           /\ [y EXCEPT !.stage = "ok", !.want = l].stage = "ok"
           /\ [y EXCEPT !.stage = "ok", !.want = l].mine = y.mine
<1>1. [y EXCEPT !.stage = "ok", !.want = l] \in Line
  BY DEF Line
<1>. QED BY <1>1, LanguageAssumption DEF Line

\* A line is told from no line.
LEMMA LineKnown ==
    ASSUME NEW kind \in {"resolve", "save"}, NEW want \in Languages \cup {Unset},
           NEW previous \in Languages \cup {Unset}, NEW stage \in {"sent", "ok", "failed"},
           NEW mine \in BOOLEAN, NEW x,
           x = [kind |-> kind, want |-> want, previous |-> previous, stage |-> stage,
                mine |-> mine]
    PROVE  x \in Line /\ x # Unset
<1>1. x \in Line
  BY DEF Line
<1>2. x # Unset
  BY <1>1, LanguageAssumption
<1>. QED BY <1>1, <1>2

\* The first question of a page.
LEMMA ResolvingShape ==
    /\ Resolving \in Line /\ Resolving # Unset /\ Resolving.kind = "resolve"
    /\ Resolving.stage = "sent" /\ Resolving.mine
<1>1. Resolving = [kind |-> "resolve", want |-> Unset, previous |-> Unset, stage |-> "sent",
                   mine |-> TRUE]
  BY DEF Resolving
<1>2. Resolving \in Line /\ Resolving # Unset
  BY <1>1, LineKnown, Zenon
<1>. QED BY <1>1, <1>2

\* The server and the cookie name languages.
LEMMA LanguagesKnown ==
    ASSUME LanguageTypeOK
    PROVE  ResolveLanguage \in Languages /\ FromCookie \in Languages
BY LanguageAssumption DEF LanguageTypeOK, ResolveLanguage, FirstSet, FromCookie

\* The page is opened with nothing but its first question under way.
LEMMA LanguageBegins == ASSUME LanguageInit PROVE LanguageInv
<1>1. PICK r \in Lines : lines = [q \in Lines |-> IF q = r THEN Resolving ELSE Unset]
  BY DEF LanguageInit
<1>2. /\ Resolving \in Line /\ Resolving # Unset /\ Resolving.kind = "resolve"
      /\ Resolving.stage = "sent" /\ Resolving.mine
  BY ResolvingShape
<1>3. {browser, locale, sessionLanguage, cookie} \subseteq Languages \cup {Unset}
  BY DEF LanguageInit
<1>4. language \in Languages
  BY LanguageAssumption DEF LanguageInit, FromCookie
<1>5. \A q \in Lines : Idling(q) <=> q # r
  BY <1>1, <1>2 DEF Idling
<1>6. lines[r] = Resolving
  BY <1>1
<1>7. LanguageTypeOK
  BY <1>1, <1>2, <1>3, <1>4 DEF LanguageTypeOK
<1>. QED BY <1>2, <1>5, <1>6, <1>7 DEF LanguageInv, LinesKnown, TidyLines, Waits, Awaits

\* The page is loaded anew: what was under way is nobody's.
LEMMA OpenPageSafe ==
    ASSUME LanguageInv, NEW r \in Lines, OpenPage(r) PROVE LanguageInv'
<1>1. /\ Resolving \in Line /\ Resolving # Unset /\ Resolving.kind = "resolve"
      /\ Resolving.stage = "sent" /\ Resolving.mine
  BY ResolvingShape
<1>2. \A q \in Lines : ~Idling(q) => lines[q] \in Line
  BY DEF LanguageInv, LanguageTypeOK, Idling
<1>3. \A q \in Lines \ {r} :
         /\ Idling(q)' <=> Idling(q)
         /\ ~Idling(q) => /\ lines'[q] \in Line
                          /\ lines'[q].kind = lines[q].kind /\ lines'[q].stage = lines[q].stage
                          /\ lines'[q].want = lines[q].want
                          /\ lines'[q].previous = lines[q].previous /\ ~lines'[q].mine
         /\ Idling(q) => lines'[q] = Unset
  BY <1>2, LineFields DEF OpenPage, Orphaned, Idling
<1>4. lines'[r] = Resolving
  BY DEF OpenPage, Orphaned
<1>5. lines' \in [Lines -> Line \cup {Unset}]
  <2>1. DOMAIN lines' = Lines /\ lines' = [q \in Lines |-> lines'[q]]
    BY DEF OpenPage, Orphaned
  <2>2. \A q \in Lines : lines'[q] \in Line \cup {Unset}
    BY <1>1, <1>3, <1>4
  <2>. QED BY <2>1, <2>2
<1>6. LanguageTypeOK'
  BY <1>5, LanguagesKnown DEF LanguageInv, LanguageTypeOK, OpenPage
<1>7. LinesKnown'
  BY <1>1, <1>3, <1>4 DEF LanguageInv, LinesKnown
<1>8. TidyLines'
  BY <1>1, <1>3, <1>4 DEF TidyLines, OpenPage, Waits, Awaits, Idling
<1>. QED BY <1>6, <1>7, <1>8 DEF LanguageInv

\* A choice: it is shown, and sent.
LEMMA ChooseLanguageSafe ==
    ASSUME LanguageInv, NEW r \in Lines, NEW l \in Languages, ChooseLanguage(r, l)
    PROVE  LanguageInv'
<1> DEFINE save == [kind |-> "save", want |-> l, previous |-> language,
                    stage |-> "sent", mine |-> TRUE]
<1>1. /\ save \in Line /\ save # Unset /\ save.kind = "save" /\ save.want = l
      /\ save.previous = language /\ save.stage = "sent" /\ save.mine
  <2>1. language \in Languages
    BY DEF LanguageInv, LanguageTypeOK
  <2>2. save \in Line /\ save # Unset
    BY <2>1, LineKnown, Zenon
  <2>. QED BY <2>2
<1>2. lines'[r] = save /\ \A q \in Lines \ {r} : lines'[q] = lines[q]
  BY DEF ChooseLanguage, LanguageInv, LanguageTypeOK
<1>3. lines' \in [Lines -> Line \cup {Unset}]
  BY <1>1 DEF ChooseLanguage, LanguageInv, LanguageTypeOK
<1> HIDE DEF save
<1>4. LanguageTypeOK'
  BY <1>3 DEF ChooseLanguage, LanguageInv, LanguageTypeOK
<1>5. LinesKnown'
  BY <1>1, <1>2 DEF LanguageInv, LanguageTypeOK, LinesKnown, Idling
<1>6. TidyLines'
  <2>1. SUFFICES ASSUME tidy' PROVE TidyLines'
    BY DEF TidyLines
  <2>2. tidy /\ \A q \in Lines : Idling(q)
    BY <2>1 DEF ChooseLanguage
  <2>3. language = ResolveLanguage /\ cookie = WriteCookie(language)
    BY <2>2 DEF LanguageInv, TidyLines, Waits, Agreed
  <2>4. /\ ResolveLanguage' = ResolveLanguage /\ language' = l /\ cookie' = cookie
        /\ readOnly' = readOnly
    BY DEF ChooseLanguage, ResolveLanguage
  <2>5. \A q \in Lines : Idling(q)' <=> q # r
    BY <1>1, <1>2, <2>2 DEF Idling
  <2>. QED BY <1>1, <1>2, <2>3, <2>4, <2>5 DEF TidyLines, Waits, Awaits, WriteCookie
<1>. QED BY <1>4, <1>5, <1>6 DEF LanguageInv

\* A request is answered by the server or by nobody: only its own line moves.
OneLine(r) ==
    /\ ~Idling(r) /\ lines'[r] \in Line /\ lines'[r] # Unset
    /\ lines'[r].kind = lines[r].kind /\ lines'[r].mine = lines[r].mine
    /\ lines'[r].previous = lines[r].previous
    /\ \A q \in Lines \ {r} : lines'[q] = lines[q]
    /\ lines' \in [Lines -> Line \cup {Unset}]

\* The stage of a line moves.
LEMMA StageMoves ==
    ASSUME LanguageInv, NEW r \in Lines, ~Idling(r), NEW o \in {"ok", "failed"},
           lines' = [lines EXCEPT ![r].stage = o]
    PROVE  OneLine(r) /\ lines'[r].stage = o /\ lines'[r].want = lines[r].want
<1>1. lines[r] \in Line
  BY DEF LanguageInv, LanguageTypeOK, Idling
<1>2. lines' = [lines EXCEPT ![r] = [lines[r] EXCEPT !.stage = o]]
  OBVIOUS
<1>3. lines'[r] = [lines[r] EXCEPT !.stage = o] /\ \A q \in Lines \ {r} : lines'[q] = lines[q]
  BY <1>2 DEF LanguageInv, LanguageTypeOK
<1>4. /\ lines'[r] \in Line /\ lines'[r] # Unset /\ lines'[r].stage = o
      /\ lines'[r].kind = lines[r].kind /\ lines'[r].want = lines[r].want
      /\ lines'[r].previous = lines[r].previous /\ lines'[r].mine = lines[r].mine
  <2> DEFINE y == [lines[r] EXCEPT !.stage = o]
  <2>1. /\ y \in Line /\ y # Unset /\ y.stage = o /\ y.kind = lines[r].kind
        /\ y.want = lines[r].want /\ y.previous = lines[r].previous /\ y.mine = lines[r].mine
    BY <1>1, LineFields, Zenon
  <2> HIDE DEF y
  <2>2. lines'[r] = y
    BY <1>3 DEF y
  <2>. QED BY <2>1, <2>2
<1>5. lines' \in [Lines -> Line \cup {Unset}]
  BY <1>2, <1>3, <1>4 DEF LanguageInv, LanguageTypeOK
<1>. QED BY <1>3, <1>4, <1>5 DEF OneLine

\* The server answers with the language it keeps.
LEMMA ServeResolveSafe ==
    ASSUME LanguageInv, NEW r \in Lines, ServeResolve(r) PROVE LanguageInv'
<1>1. lines[r] \in Line /\ ~Idling(r) /\ ResolveLanguage \in Languages
  BY LanguagesKnown DEF LanguageInv, LanguageTypeOK, Idling, ServeResolve
<1> DEFINE x == [lines[r] EXCEPT !.stage = "ok", !.want = ResolveLanguage]
<1>2. lines' = [lines EXCEPT ![r] = x]
  BY DEF ServeResolve
<1>3. /\ x \in Line /\ x # Unset /\ x.kind = lines[r].kind /\ x.want = ResolveLanguage
      /\ x.previous = lines[r].previous /\ x.stage = "ok" /\ x.mine = lines[r].mine
  BY <1>1, AnswerFields, Zenon
<1> HIDE DEF x
<1>4. OneLine(r) /\ lines'[r] = x
  BY <1>1, <1>2, <1>3 DEF OneLine, LanguageInv, LanguageTypeOK
<1>5. UNCHANGED <<readOnly, browser, locale, sessionLanguage, cookie, language, tidy>>
  BY DEF ServeResolve
<1>6. ResolveLanguage' = ResolveLanguage /\ \A l : WriteCookie(l)' = WriteCookie(l)
  BY <1>5 DEF ResolveLanguage, WriteCookie
<1>7. \A q \in Lines : Waits(q)' <=> Waits(q)
  BY <1>4 DEF OneLine, Waits, Idling
<1>8. LanguageTypeOK'
  BY <1>4, <1>5 DEF OneLine, LanguageInv, LanguageTypeOK
<1>9. LinesKnown'
  BY <1>1, <1>3, <1>4 DEF OneLine, LanguageInv, LinesKnown, Idling, ServeResolve
<1>10. TidyLines'
  <2>1. SUFFICES ASSUME tidy PROVE TidyLines'
    BY <1>5 DEF TidyLines
  <2>2. \A q \in Lines : Waits(q)' => Awaits(q)'
    BY <1>3, <1>4, <1>5, <1>6, <1>7, <2>1
       DEF OneLine, LanguageInv, TidyLines, Awaits, ServeResolve, WriteCookie
  <2>3. Agreed' <=> Agreed
    BY <1>5, <1>6 DEF Agreed, WriteCookie
  <2>4. \A q \in Lines : Idling(q)' <=> Idling(q)
    BY <1>4 DEF OneLine, Idling
  <2>5. \A q \in Lines : ~Idling(q)' /\ ~lines'[q].mine => lines'[q].stage # "sent"
    BY <1>3, <1>4, <2>1, <2>4 DEF OneLine, LanguageInv, TidyLines
  <2>. QED BY <1>7, <2>1, <2>2, <2>3, <2>5 DEF LanguageInv, TidyLines
<1>. QED BY <1>8, <1>9, <1>10 DEF LanguageInv

\* The server saves a language; its answer may be lost.
LEMMA ServeSaveSafe ==
    ASSUME LanguageInv, NEW r \in Lines, ServeSave(r) PROVE LanguageInv'
<1>1. PICK o \in {"ok", "failed"} :
         lines' = [lines EXCEPT ![r].stage = o] /\ tidy' = IF o = "ok" THEN tidy ELSE FALSE
  BY DEF ServeSave
<1>2. /\ ~Idling(r) /\ lines[r].kind = "save" /\ lines[r].stage = "sent"
      /\ UNCHANGED <<readOnly, browser, cookie, language>>
  BY DEF ServeSave
<1>3. OneLine(r) /\ lines'[r].stage = o /\ lines'[r].want = lines[r].want
  BY <1>1, <1>2, StageMoves
<1>4. lines[r].want \in Languages /\ lines[r].want # Unset
  BY <1>2, LanguageAssumption DEF LanguageInv, LinesKnown
<1>5. ResolveLanguage' = lines[r].want
  BY <1>2, <1>4 DEF ServeSave, ResolveLanguage, FirstSet
<1>6. LanguageTypeOK'
  BY <1>2, <1>3, <1>4 DEF OneLine, LanguageInv, LanguageTypeOK, ServeSave
<1>7. LinesKnown'
  BY <1>2, <1>3, <1>4 DEF OneLine, LanguageInv, LinesKnown, Idling
<1>8. TidyLines'
  <2>1. SUFFICES ASSUME tidy, o = "ok" PROVE TidyLines'
    BY <1>1 DEF TidyLines
  <2>2. lines[r].mine
    BY <1>2, <2>1 DEF LanguageInv, TidyLines
  <2>3. \A q \in Lines : Waits(q) <=> q = r
    BY <1>2, <2>1, <2>2 DEF LanguageInv, TidyLines, Waits
  <2>4. \A q \in Lines : Waits(q)' <=> q = r
    BY <1>3, <2>3 DEF OneLine, Waits, Idling
  <2>5. Awaits(r)
    BY <2>1, <2>3 DEF LanguageInv, TidyLines
  <2>6. Awaits(r)'
    BY <1>2, <1>3, <1>5, <2>1, <2>5 DEF OneLine, Awaits, WriteCookie
  <2>7. \A q \in Lines : ~Idling(q)' /\ ~lines'[q].mine => lines'[q].stage # "sent"
    BY <1>2, <1>3, <2>1, <2>2 DEF OneLine, LanguageInv, TidyLines, Idling
  <2>. QED BY <2>4, <2>6, <2>7 DEF TidyLines
<1>. QED BY <1>6, <1>7, <1>8 DEF LanguageInv

\* A request fails: a question that fails may leave an old language, a save nothing.
LEMMA LineFailsSafe ==
    ASSUME LanguageInv, NEW r \in Lines, LineFails(r) PROVE LanguageInv'
<1>1. /\ ~Idling(r) /\ lines[r].stage = "sent"
      /\ lines' = [lines EXCEPT ![r].stage = "failed"]
      /\ tidy' = (tidy /\ lines[r].kind = "save")
      /\ UNCHANGED <<readOnly, browser, locale, sessionLanguage, cookie, language>>
  BY DEF LineFails
<1>2. OneLine(r) /\ lines'[r].stage = "failed" /\ lines'[r].want = lines[r].want
  BY <1>1, StageMoves
<1>3. ResolveLanguage' = ResolveLanguage
  BY <1>1 DEF ResolveLanguage
<1>4. LanguageTypeOK'
  BY <1>1, <1>2 DEF OneLine, LanguageInv, LanguageTypeOK
<1>5. LinesKnown'
  BY <1>1, <1>2 DEF OneLine, LanguageInv, LinesKnown, Idling
<1>6. TidyLines'
  <2>1. SUFFICES ASSUME tidy, lines[r].kind = "save" PROVE TidyLines'
    BY <1>1 DEF TidyLines
  <2>2. lines[r].mine
    BY <1>1, <2>1 DEF LanguageInv, TidyLines
  <2>3. \A q \in Lines : Waits(q) <=> q = r
    BY <1>1, <2>1, <2>2 DEF LanguageInv, TidyLines, Waits
  <2>4. \A q \in Lines : Waits(q)' <=> q = r
    BY <1>2, <2>3 DEF OneLine, Waits, Idling
  <2>5. Awaits(r)
    BY <2>1, <2>3 DEF LanguageInv, TidyLines
  <2>6. Awaits(r)'
    BY <1>1, <1>2, <1>3, <2>1, <2>5 DEF OneLine, Awaits, WriteCookie
  <2>7. \A q \in Lines : ~Idling(q)' /\ ~lines'[q].mine => lines'[q].stage # "sent"
    BY <1>1, <1>2, <2>1, <2>2 DEF OneLine, LanguageInv, TidyLines, Idling
  <2>. QED BY <2>4, <2>6, <2>7 DEF TidyLines
<1>. QED BY <1>4, <1>5, <1>6 DEF LanguageInv

\* An answer the page waited for leaves it waiting for none.
LEMMA LineEnds ==
    ASSUME LanguageInv, NEW r \in Lines, ~Idling(r), lines' = [lines EXCEPT ![r] = Unset],
           UNCHANGED <<readOnly, browser, locale, sessionLanguage, tidy>>,
           language' \in Languages, cookie' \in Languages \cup {Unset},
           tidy /\ lines[r].mine => Agreed',
           ~lines[r].mine => UNCHANGED <<language, cookie>>
    PROVE  LanguageInv'
<1>1. lines'[r] = Unset /\ \A q \in Lines \ {r} : lines'[q] = lines[q]
  BY DEF LanguageInv, LanguageTypeOK
<1>2. LanguageTypeOK'
  BY DEF LanguageInv, LanguageTypeOK
<1>3. LinesKnown'
  BY <1>1 DEF LanguageInv, LinesKnown, Idling
<1>4. TidyLines'
  <2>1. SUFFICES ASSUME tidy PROVE TidyLines'
    BY DEF TidyLines
  <2>2. \A q \in Lines : Waits(q)' <=> Waits(q) /\ q # r
    BY <1>1 DEF Waits, Idling
  <2>3. \A q \in Lines : ~Idling(q)' /\ ~lines'[q].mine => lines'[q].stage # "sent"
    BY <1>1, <2>1 DEF LanguageInv, TidyLines, Idling
  <2>4. CASE lines[r].mine
    <3>1. \A q \in Lines : ~Waits(q)'
      BY <2>1, <2>2, <2>4 DEF LanguageInv, TidyLines, Waits
    <3>. QED BY <2>3, <2>4, <2>1, <3>1 DEF TidyLines
  <2>5. CASE ~lines[r].mine
    <3>1. UNCHANGED <<language, cookie>> /\ ResolveLanguage' = ResolveLanguage
      BY <2>5 DEF ResolveLanguage
    <3>2. \A q \in Lines : Waits(q)' <=> Waits(q)
      BY <2>2, <2>5 DEF Waits
    <3>3. \A q \in Lines : Waits(q)' => Awaits(q)'
      BY <1>1, <2>1, <2>2, <3>1 DEF LanguageInv, TidyLines, Awaits, WriteCookie
    <3>4. Agreed' <=> Agreed
      BY <3>1 DEF Agreed, WriteCookie
    <3>. QED BY <2>1, <2>3, <3>2, <3>3, <3>4 DEF LanguageInv, TidyLines
  <2>. QED BY <2>4, <2>5
<1>. QED BY <1>2, <1>3, <1>4 DEF LanguageInv

\* The language of the server is shown, or the one before again.
LEMMA AnswersSafe ==
    ASSUME LanguageInv, NEW r \in Lines,
           LanguageResolved(r) \/ LanguageSaved(r) \/ LineForgotten(r)
    PROVE  LanguageInv'
<1>1. CASE LanguageResolved(r)
  <2>1. /\ ~Idling(r) /\ lines[r].kind = "resolve" /\ lines[r].mine /\ lines[r].stage # "sent"
        /\ lines' = [lines EXCEPT ![r] = Unset]
        /\ UNCHANGED <<readOnly, browser, locale, sessionLanguage, tidy>>
    BY <1>1 DEF LanguageResolved, Ready
  <2>2. lines[r].stage \in {"ok", "failed"}
    BY <2>1 DEF LanguageInv, LanguageTypeOK, Line, Idling
  <2>3. lines[r].stage = "ok" => lines[r].want \in Languages
    BY <2>1 DEF LanguageInv, LinesKnown
  <2>4. language' \in Languages /\ cookie' \in Languages \cup {Unset}
    BY <1>1, <2>3 DEF LanguageResolved, WriteCookie, LanguageInv, LanguageTypeOK
  <2>5. tidy => Agreed'
    <3>1. SUFFICES ASSUME tidy PROVE Agreed'
      OBVIOUS
    <3>2. Awaits(r)
      BY <2>1, <3>1 DEF LanguageInv, TidyLines, Waits
    <3>3. lines[r].stage = "ok" /\ lines[r].want = ResolveLanguage
      BY <2>1, <2>2, <3>2 DEF Awaits
    <3>4. language' = lines[r].want /\ cookie' = WriteCookie(lines[r].want)
      BY <1>1, <3>3 DEF LanguageResolved
    <3>5. ResolveLanguage' = ResolveLanguage
      BY <2>1 DEF ResolveLanguage
    <3>. QED BY <2>1, <3>3, <3>4, <3>5 DEF Agreed, WriteCookie
  <2>. QED BY <2>1, <2>4, <2>5, LineEnds
<1>2. CASE LanguageSaved(r)
  <2>1. /\ ~Idling(r) /\ lines[r].kind = "save" /\ lines[r].mine /\ lines[r].stage # "sent"
        /\ lines' = [lines EXCEPT ![r] = Unset]
        /\ UNCHANGED <<readOnly, browser, locale, sessionLanguage, tidy>>
    BY <1>2 DEF LanguageSaved, Ready
  <2>2. lines[r].want \in Languages /\ lines[r].previous \in Languages
    BY <2>1 DEF LanguageInv, LinesKnown
  <2>3. language' \in Languages /\ cookie' \in Languages \cup {Unset}
    BY <1>2, <2>2 DEF LanguageSaved, WriteCookie, LanguageInv, LanguageTypeOK
  <2>4. tidy => Agreed'
    <3>1. SUFFICES ASSUME tidy PROVE Agreed'
      OBVIOUS
    <3>2. Awaits(r)
      BY <2>1, <3>1 DEF LanguageInv, TidyLines, Waits
    <3>3. ResolveLanguage' = ResolveLanguage
      BY <2>1 DEF ResolveLanguage
    <3>4. CASE lines[r].stage = "ok"
      BY <1>2, <2>1, <3>2, <3>3, <3>4 DEF LanguageSaved, Awaits, Agreed, WriteCookie
    <3>5. CASE lines[r].stage # "ok"
      BY <1>2, <2>1, <3>2, <3>3, <3>5 DEF LanguageSaved, Awaits, Agreed, WriteCookie
    <3>. QED BY <3>4, <3>5
  <2>. QED BY <2>1, <2>3, <2>4, LineEnds
<1>3. CASE LineForgotten(r)
  BY <1>3, LineEnds DEF LineForgotten, LanguageInv, LanguageTypeOK
<1>. QED BY <1>1, <1>2, <1>3

\* Nothing of the language moves.
LEMMA LanguageRest == ASSUME LanguageInv, UNCHANGED languageVars PROVE LanguageInv'
BY DEF languageVars, LanguageInv, LanguageTypeOK, LinesKnown, TidyLines, Waits, Awaits, Agreed,
       Idling, ResolveLanguage, WriteCookie

\* Every step keeps the invariant of the language.
LEMMA LanguageStep == ASSUME LanguageInv, [LanguageNext]_languageVars PROVE LanguageInv'
<1>1. CASE LanguageNext
  BY <1>1, OpenPageSafe, ChooseLanguageSafe, ServeResolveSafe, ServeSaveSafe, LineFailsSafe,
     AnswersSafe DEF LanguageNext
<1>. QED BY <1>1, LanguageRest

\* With nothing under way, page, cookie and server agree.
LEMMA InvIsSettled == ASSUME LanguageInv PROVE LanguageTypeOK /\ LanguageSettles
BY DEF LanguageInv, TidyLines, Waits, Agreed, LanguageSettles

-----------------------------------------------------------------------------
(* The accent colour.                                                      *)

\* The colours the server may hold.
Hexes == {HslToHex(a) : a \in Accents}

\* Every accent the user picks from comes back from the server as it was.
Returning == \A a \in Accents : HexToHSL(HslToHex(a)) = a

\* A quotient is no more than m if its numerator is less than the next multiple.
LEMMA QuotientAtMost ==
    ASSUME NEW x \in Nat, NEW y \in Nat \ {0}, NEW m \in Nat, x < m * y + y
    PROVE  x \div y \in 0..m
<1> DEFINE q == x \div y
<1>1. q \in Int /\ y * q <= x /\ x < y * q + y
  OBVIOUS
<1> HIDE DEF q
<1>2. q >= 0
  <2>1. SUFFICES ASSUME q <= -1 PROVE FALSE
    BY <1>1
  <2>2. y * q <= -y
    BY <1>1, <2>1
  <2>. QED BY <1>1, <2>2
<1>3. q <= m
  <2>1. SUFFICES ASSUME q >= m + 1 PROVE FALSE
    BY <1>1
  <2>2. y * q >= y * (m + 1)
    BY <1>1, <2>1
  <2>3. y * (m + 1) = m * y + y
    OBVIOUS
  <2>. QED BY <1>1, <2>2, <2>3
<1>. QED BY <1>1, <1>2, <1>3 DEF q

\* The slope of a channel times a saturation.
LEMMA SlopeBounds ==
    ASSUME NEW s \in 0..100, NEW x \in Int, -30 <= x, x <= 30
    PROVE  s * x \in Int /\ -3000 <= s * x /\ s * x <= 3000
<1>1. s * x <= s * 30 /\ s * (-30) <= s * x
  OBVIOUS
<1>2. s * 30 <= 3000 /\ s * (-30) >= -3000
  OBVIOUS
<1>. QED BY <1>1, <1>2

\* A channel is a byte.
LEMMA ChannelIsByte ==
    ASSUME NEW n \in {0, 4, 8}, NEW h \in 0..359, NEW s \in 0..100
    PROVE  Channel(n, h, s) \in 0..255
<1> DEFINE k == (30 * n + h) % 360
           x == Larger(Smaller(Smaller(k - 90, 270 - k), 30), -30)
           p == s * x
<1>1. k \in Int
  OBVIOUS
<1>2. x \in Int /\ -30 <= x /\ x <= 30
  <2> HIDE DEF k
  <2>. QED BY <1>1 DEF Larger, Smaller
<1>3. Channel(n, h, s) = (2 * (255 * (3000 - p)) + 6000) \div (2 * 6000)
  BY DEF Channel, Rounded
<1> HIDE DEF x
<1>4. p \in Int /\ -3000 <= p /\ p <= 3000
  BY <1>2, SlopeBounds
<1> HIDE DEF p
<1>. QED BY <1>3, <1>4

\* What goes to the server is three bytes.
LEMMA HexIsBytes ==
    ASSUME NEW a \in (0..359) \X (0..100)
    PROVE  HslToHex(a) \in (0..255) \X (0..255) \X (0..255)
<1>1. a[1] \in 0..359 /\ a[2] \in 0..100
  OBVIOUS
<1>2. /\ Channel(0, a[1], a[2]) \in 0..255 /\ Channel(8, a[1], a[2]) \in 0..255
      /\ Channel(4, a[1], a[2]) \in 0..255
  BY <1>1, ChannelIsByte
<1>. QED BY <1>2 DEF HslToHex

\* The largest and the smallest of three bytes.
LEMMA ExtremesAreBytes ==
    ASSUME NEW r \in 0..255, NEW g \in 0..255, NEW b \in 0..255
    PROVE  /\ Larger(r, Larger(g, b)) \in 0..255 /\ Smaller(r, Smaller(g, b)) \in 0..255
           /\ Smaller(r, Smaller(g, b)) <= Larger(r, Larger(g, b))
BY DEF Larger, Smaller

\* What comes of three bytes is a hue and a saturation.
LEMMA HslInRange ==
    ASSUME NEW c \in (0..255) \X (0..255) \X (0..255)
    PROVE  HexToHSL(c) \in (0..359) \X (0..100)
<1> DEFINE high == Larger(c[1], Larger(c[2], c[3]))
           low == Smaller(c[1], Smaller(c[2], c[3]))
           d == high - low
           turn == CASE high = c[1] -> Rounded(60 * (c[2] - c[3]), d)
                     [] high = c[2] /\ high # c[1] -> Rounded(60 * (c[3] - c[1]), d) + 120
                     [] OTHER -> Rounded(60 * (c[1] - c[2]), d) + 240
           sum == IF high + low > 255 THEN 510 - high - low ELSE high + low
<1>1. c[1] \in 0..255 /\ c[2] \in 0..255 /\ c[3] \in 0..255
  OBVIOUS
<1>2. high \in 0..255 /\ low \in 0..255 /\ low <= high
  BY <1>1, ExtremesAreBytes
<1>3. HexToHSL(c) = IF d = 0 THEN <<0, 0>> ELSE <<turn % 360, Rounded(100 * d, sum)>>
  BY DEF HexToHSL
<1> HIDE DEF high, low
<1>4. CASE d = 0
  BY <1>3, <1>4
<1>5. CASE d # 0
  <2>1. d \in Nat \ {0}
    BY <1>2, <1>5
  <2>2. sum \in Nat \ {0} /\ d <= sum
    BY <1>2, <2>1
  <2> HIDE DEF d, sum
  <2>3. \A a \in Int : Rounded(a, d) \in Int
    BY <2>1 DEF Rounded
  <2>4. turn \in Int
    <3>1. /\ 60 * (c[2] - c[3]) \in Int /\ 60 * (c[3] - c[1]) \in Int
          /\ 60 * (c[1] - c[2]) \in Int
      <4>1. \A x, y \in 0..255 : 60 * (x - y) \in Int
        OBVIOUS
      <4>. QED BY <1>1, <4>1
    <3>2. /\ Rounded(60 * (c[2] - c[3]), d) \in Int
          /\ Rounded(60 * (c[3] - c[1]), d) + 120 \in Int
          /\ Rounded(60 * (c[1] - c[2]), d) + 240 \in Int
      BY <2>3, <3>1
    <3>. QED BY <3>2
  <2>5. Rounded(100 * d, sum) \in 0..100
    <3> DEFINE x == 2 * (100 * d) + sum
               y == 2 * sum
    <3>1. x \in Nat /\ y \in Nat \ {0} /\ x < 100 * y + y
      BY <2>1, <2>2
    <3>2. Rounded(100 * d, sum) = x \div y
      BY DEF Rounded
    <3> HIDE DEF x, y
    <3>3. x \div y \in 0..100
      BY <3>1, QuotientAtMost
    <3>. QED BY <3>2, <3>3
  <2> HIDE DEF turn
  <2>6. turn % 360 \in 0..359
    BY <2>4
  <2>. QED BY <1>3, <1>5, <2>5, <2>6 DEF d
<1>. QED BY <1>4, <1>5

\* A quotient is the number whose multiple is the last not above the numerator.
LEMMA QuotientIs ==
    ASSUME NEW x \in Int, NEW y \in Nat \ {0}, NEW q \in Int, y * q <= x, x < y * q + y
    PROVE  x \div y = q
<1> DEFINE p == x \div y
<1>1. p \in Int /\ y * p <= x /\ x < y * p + y
  OBVIOUS
<1> HIDE DEF p
<1>2. ~(p >= q + 1)
  <2>1. SUFFICES ASSUME p >= q + 1 PROVE FALSE
    OBVIOUS
  <2>2. y * p >= y * (q + 1) /\ y * (q + 1) = y * q + y
    BY <1>1, <2>1
  <2>. QED BY <1>1, <2>2
<1>3. ~(q >= p + 1)
  <2>1. SUFFICES ASSUME q >= p + 1 PROVE FALSE
    OBVIOUS
  <2>2. y * q >= y * (p + 1) /\ y * (p + 1) = y * p + y
    BY <1>1, <2>1
  <2>. QED BY <1>1, <2>2
<1>4. p = q
  BY <1>1, <1>2, <1>3
<1>. QED BY <1>4 DEF p

\* The presets of the page are such accents.
LEMMA PresetsReturn == \A a \in MCAccents : HexToHSL(HslToHex(a)) = a
<1>1. HexToHSL(HslToHex(<<210, 50>>)) = <<210, 50>>
  <2>1. /\ Channel(0, 210, 50) = 64 /\ Channel(8, 210, 50) = 128
        /\ Channel(4, 210, 50) = 191
    BY DEF Channel, Rounded, Larger, Smaller
  <2>2. HslToHex(<<210, 50>>) = <<64, 128, 191>>
    BY <2>1 DEF HslToHex
  <2>3. HexToHSL(<<64, 128, 191>>) = <<210, 50>>
    <3>1. Rounded(60 * (64 - 128), 127) = -30
      <4> DEFINE x == 2 * (60 * (64 - 128)) + 127
                 y == 2 * 127
                 q == -30
      <4>1. /\ x \in Int /\ y \in Nat \ {0} /\ q \in Int
            /\ y * q <= x /\ x < y * q + y
        OBVIOUS
      <4>2. Rounded(60 * (64 - 128), 127) = x \div y
        BY DEF Rounded
      <4> HIDE DEF x, y, q
      <4>3. x \div y = q
        BY <4>1, QuotientIs
      <4>. QED BY <4>2, <4>3 DEF q
    <3>2. Rounded(100 * 127, 255) = 50
      BY DEF Rounded
    <3>. QED BY <3>1, <3>2 DEF HexToHSL, Larger, Smaller
  <2>. QED BY <2>2, <2>3
<1>2. HexToHSL(HslToHex(<<145, 45>>)) = <<145, 45>>
  <2>1. /\ Channel(0, 145, 45) = 70 /\ Channel(8, 145, 45) = 185
        /\ Channel(4, 145, 45) = 118
    BY DEF Channel, Rounded, Larger, Smaller
  <2>2. HslToHex(<<145, 45>>) = <<70, 185, 118>>
    BY <2>1 DEF HslToHex
  <2>3. HexToHSL(<<70, 185, 118>>) = <<145, 45>>
    BY DEF HexToHSL, Rounded, Larger, Smaller
  <2>. QED BY <2>2, <2>3
<1>3. HexToHSL(HslToHex(<<25, 70>>)) = <<25, 70>>
  <2>1. /\ Channel(0, 25, 70) = 217 /\ Channel(8, 25, 70) = 113
        /\ Channel(4, 25, 70) = 38
    BY DEF Channel, Rounded, Larger, Smaller
  <2>2. HslToHex(<<25, 70>>) = <<217, 113, 38>>
    BY <2>1 DEF HslToHex
  <2>3. HexToHSL(<<217, 113, 38>>) = <<25, 70>>
    BY DEF HexToHSL, Rounded, Larger, Smaller
  <2>. QED BY <2>2, <2>3
<1>4. HexToHSL(HslToHex(<<0, 60>>)) = <<0, 60>>
  <2>1. /\ Channel(0, 0, 60) = 204 /\ Channel(8, 0, 60) = 51
        /\ Channel(4, 0, 60) = 51
    BY DEF Channel, Rounded, Larger, Smaller
  <2>2. HslToHex(<<0, 60>>) = <<204, 51, 51>>
    BY <2>1 DEF HslToHex
  <2>3. HexToHSL(<<204, 51, 51>>) = <<0, 60>>
    BY DEF HexToHSL, Rounded, Larger, Smaller
  <2>. QED BY <2>2, <2>3
<1>5. HexToHSL(HslToHex(<<330, 50>>)) = <<330, 50>>
  <2>1. /\ Channel(0, 330, 50) = 191 /\ Channel(8, 330, 50) = 64
        /\ Channel(4, 330, 50) = 128
    BY DEF Channel, Rounded, Larger, Smaller
  <2>2. HslToHex(<<330, 50>>) = <<191, 64, 128>>
    BY <2>1 DEF HslToHex
  <2>3. HexToHSL(<<191, 64, 128>>) = <<330, 50>>
    <3>1. Rounded(60 * (64 - 128), 127) = -30
      <4> DEFINE x == 2 * (60 * (64 - 128)) + 127
                 y == 2 * 127
                 q == -30
      <4>1. /\ x \in Int /\ y \in Nat \ {0} /\ q \in Int
            /\ y * q <= x /\ x < y * q + y
        OBVIOUS
      <4>2. Rounded(60 * (64 - 128), 127) = x \div y
        BY DEF Rounded
      <4> HIDE DEF x, y, q
      <4>3. x \div y = q
        BY <4>1, QuotientIs
      <4>. QED BY <4>2, <4>3 DEF q
    <3>2. Rounded(100 * 127, 255) = 50
      BY DEF Rounded
    <3>. QED BY <3>1, <3>2 DEF HexToHSL, Larger, Smaller
  <2>. QED BY <2>2, <2>3
<1>6. HexToHSL(HslToHex(<<240, 40>>)) = <<240, 40>>
  <2>1. /\ Channel(0, 240, 40) = 77 /\ Channel(8, 240, 40) = 77
        /\ Channel(4, 240, 40) = 179
    BY DEF Channel, Rounded, Larger, Smaller
  <2>2. HslToHex(<<240, 40>>) = <<77, 77, 179>>
    BY <2>1 DEF HslToHex
  <2>3. HexToHSL(<<77, 77, 179>>) = <<240, 40>>
    BY DEF HexToHSL, Rounded, Larger, Smaller
  <2>. QED BY <2>2, <2>3
<1>7. HexToHSL(HslToHex(<<1, 50>>)) = <<1, 50>>
  <2>1. /\ Channel(0, 1, 50) = 191 /\ Channel(8, 1, 50) = 66
        /\ Channel(4, 1, 50) = 64
    BY DEF Channel, Rounded, Larger, Smaller
  <2>2. HslToHex(<<1, 50>>) = <<191, 66, 64>>
    BY <2>1 DEF HslToHex
  <2>3. HexToHSL(<<191, 66, 64>>) = <<1, 50>>
    BY DEF HexToHSL, Rounded, Larger, Smaller
  <2>. QED BY <2>2, <2>3
<1>8. HexToHSL(HslToHex(<<359, 100>>)) = <<359, 100>>
  <2>1. /\ Channel(0, 359, 100) = 255 /\ Channel(8, 359, 100) = 0
        /\ Channel(4, 359, 100) = 4
    BY DEF Channel, Rounded, Larger, Smaller
  <2>2. HslToHex(<<359, 100>>) = <<255, 0, 4>>
    BY <2>1 DEF HslToHex
  <2>3. HexToHSL(<<255, 0, 4>>) = <<359, 100>>
    <3>1. Rounded(60 * (0 - 4), 255) = -1
      <4> DEFINE x == 2 * (60 * (0 - 4)) + 255
                 y == 2 * 255
                 q == -1
      <4>1. /\ x \in Int /\ y \in Nat \ {0} /\ q \in Int
            /\ y * q <= x /\ x < y * q + y
        OBVIOUS
      <4>2. Rounded(60 * (0 - 4), 255) = x \div y
        BY DEF Rounded
      <4> HIDE DEF x, y, q
      <4>3. x \div y = q
        BY <4>1, QuotientIs
      <4>. QED BY <4>2, <4>3 DEF q
    <3>2. Rounded(100 * 255, 255) = 100
      BY DEF Rounded
    <3>. QED BY <3>1, <3>2 DEF HexToHSL, Larger, Smaller
  <2>. QED BY <2>2, <2>3
<1>. QED BY <1>1, <1>2, <1>3, <1>4, <1>5, <1>6, <1>7, <1>8 DEF MCAccents

\* Only the line of e moves.
OneErrand(e, o, colour) ==
    /\ ~Idles(e)' /\ errands'[e].kind = errands[e].kind /\ errands'[e].mine = errands[e].mine
    /\ errands'[e].stage = o /\ errands'[e].colour = colour
    /\ \A f \in Errands \ {e} : errands'[f] = errands[f]
    /\ errands' \in [Errands -> Errand \cup {Blank}]

\* A request under way, of this kind.
Active(e, kind) == ~Idles(e) /\ errands[e].kind = kind

\* A choice on its way is alone and on the screen; once there, the server has it, and
\* whatever the page is about to read is that choice.
Kept ==
    orderly /\ wanted # Blank =>
        /\ \A e \in Errands : Active(e, "put") /\ errands[e].stage = "sent" =>
              /\ accent = wanted /\ errands[e].colour = HslToHex(wanted)
              /\ \A f \in Errands \ {e} : Idles(f)
        /\ (\A e \in Errands : Active(e, "put") => errands[e].stage # "sent") =>
              saved = HslToHex(wanted)
        /\ \A e \in Errands : Active(e, "load") /\ errands[e].mine =>
              /\ errands[e].stage = "ok" => errands[e].colour = HslToHex(wanted)
              /\ errands[e].stage # "failed"
              /\ \A f \in Errands : Active(f, "load") /\ errands[f].mine => e = f
        /\ (\A e \in Errands : ~(Active(e, "load") /\ errands[e].mine)) => accent = wanted

\* What is put and what is read are colours.
AccentTypes ==
    /\ accent \in (0..359) \X (0..100)
    /\ saved \in Hexes \cup {Blank}
    /\ errands \in [Errands -> Errand \cup {Blank}]
    /\ wanted \in Accents \cup {Blank}
    /\ \A e \in Errands : ~Idles(e) =>
          (errands[e].kind = "put" \/ errands[e].stage = "ok" => errands[e].colour \in Hexes)

AccentInv == AccentTypes /\ (Returning => Kept)

\* A request just sent.
LEMMA ErrandShape ==
    ASSUME NEW kind \in {"load", "put"}, NEW colour \in Hexes \cup {Blank}
    PROVE  /\ Errand0(kind, colour) \in Errand /\ Errand0(kind, colour) # Blank
           /\ Errand0(kind, colour).kind = kind /\ Errand0(kind, colour).colour = colour
           /\ Errand0(kind, colour).stage = "sent" /\ Errand0(kind, colour).mine
<1>1. Errand0(kind, colour) \in Errand
  BY DEF Errand0, Errand, Hexes
<1>2. Errand0(kind, colour) # Blank
  BY <1>1, AccentAssumption
<1>. QED BY <1>1, <1>2 DEF Errand0

\* What is under way is no blank.
LEMMA ErrandNotBlank == ASSUME NEW x \in Errand PROVE x # Blank
BY AccentAssumption

\* A request whose page is gone.
LEMMA OrphanFields ==
    ASSUME NEW x \in Errand
    PROVE  /\ [x EXCEPT !.mine = FALSE] \in Errand /\ [x EXCEPT !.mine = FALSE] # Blank
           /\ [x EXCEPT !.mine = FALSE].kind = x.kind /\ ~[x EXCEPT !.mine = FALSE].mine
           /\ [x EXCEPT !.mine = FALSE].stage = x.stage
           /\ [x EXCEPT !.mine = FALSE].colour = x.colour
<1>1. [x EXCEPT !.mine = FALSE] \in Errand
  BY DEF Errand
<1>. QED BY <1>1, ErrandNotBlank DEF Errand

\* The stage of a request moves, and perhaps its colour.
LEMMA ErrandMoves ==
    ASSUME AccentTypes, NEW e \in Errands, ~Idles(e), NEW o \in {"ok", "failed"},
           NEW colour \in Hexes \cup {Blank}, NEW y,
           \/ y = [errands[e] EXCEPT !.stage = o, !.colour = colour]
           \/ y = [errands[e] EXCEPT !.stage = o] /\ colour = errands[e].colour,
           errands' = [errands EXCEPT ![e] = y]
    PROVE  OneErrand(e, o, colour)
<1>1. errands[e] \in Errand
  BY DEF AccentTypes, Idles
<1>2. y \in Errand /\ y.kind = errands[e].kind /\ y.mine = errands[e].mine
  BY <1>1 DEF Errand, Hexes
<1>3. y.stage = o /\ y.colour = colour
  BY <1>1 DEF Errand, Hexes
<1>4. errands'[e] = y /\ \A f \in Errands \ {e} : errands'[f] = errands[f]
  BY DEF AccentTypes
<1>5. errands' \in [Errands -> Errand \cup {Blank}]
  BY <1>2 DEF AccentTypes
<1>6. y # Blank
  BY <1>2, ErrandNotBlank
<1>. QED BY <1>2, <1>3, <1>4, <1>5, <1>6 DEF OneErrand, Idles

\* The colours read back are in range, and the one chosen is read back.
LEMMA ReadBack ==
    /\ \A x \in Hexes : HexToHSL(x) \in (0..359) \X (0..100) /\ x # Blank
    /\ \A a \in Accents : HslToHex(a) \in Hexes
<1>1. ASSUME NEW a \in Accents
      PROVE  HexToHSL(HslToHex(a)) \in (0..359) \X (0..100) /\ HslToHex(a) # Blank
  <2>1. a \in (0..359) \X (0..100) /\ HslToHex(a) # Blank
    BY AccentAssumption
  <2>. QED BY <2>1, HexIsBytes, HslInRange
<1>. QED BY <1>1 DEF Hexes

\* The page is opened with its first question under way.
LEMMA AccentBegins == ASSUME AccentInit PROVE AccentInv
<1>1. PICK e \in Errands :
         errands = [f \in Errands |-> IF f = e THEN Errand0("load", Blank) ELSE Blank]
  BY DEF AccentInit
<1>2. /\ Errand0("load", Blank) \in Errand /\ Errand0("load", Blank) # Blank
      /\ Errand0("load", Blank).kind = "load" /\ Errand0("load", Blank).stage = "sent"
  BY ErrandShape
<1>3. accent \in (0..359) \X (0..100)
  BY AccentAssumption DEF AccentInit
<1>4. errands[e] = Errand0("load", Blank) /\ \A f \in Errands \ {e} : errands[f] = Blank
  BY <1>1
<1>5. errands \in [Errands -> Errand \cup {Blank}]
  BY <1>1, <1>2
<1>. QED BY <1>2, <1>3, <1>4, <1>5 DEF AccentInit, AccentInv, AccentTypes, Kept, Idles, Hexes

\* The page is loaded anew: what was under way is nobody's.
LEMMA ReopenPageSafe ==
    ASSUME AccentInv, NEW e \in Errands, ReopenPage(e) PROVE AccentInv'
<1>1. /\ Errand0("load", Blank) \in Errand /\ Errand0("load", Blank) # Blank
      /\ Errand0("load", Blank).kind = "load" /\ Errand0("load", Blank).stage = "sent"
      /\ Errand0("load", Blank).mine
  BY ErrandShape
<1>2. \A f \in Errands : ~Idles(f) => errands[f] \in Errand
  BY DEF AccentInv, AccentTypes, Idles
<1>3. errands'[e] = Errand0("load", Blank)
  BY DEF ReopenPage
<1>4. \A f \in Errands \ {e} :
         /\ Idles(f) => errands'[f] = Blank
         /\ ~Idles(f) => errands'[f] = [errands[f] EXCEPT !.mine = FALSE]
  BY DEF ReopenPage
<1>5. \A f \in Errands \ {e} :
         /\ Idles(f)' <=> Idles(f)
         /\ errands'[f] \in Errand \cup {Blank}
         /\ ~Idles(f) =>
               /\ errands'[f].kind = errands[f].kind /\ errands'[f].stage = errands[f].stage
               /\ errands'[f].colour = errands[f].colour /\ ~errands'[f].mine
  <2>1. SUFFICES ASSUME NEW f \in Errands \ {e}
                 PROVE  /\ Idles(f)' <=> Idles(f)
                        /\ errands'[f] \in Errand \cup {Blank}
                        /\ ~Idles(f) =>
                              /\ errands'[f].kind = errands[f].kind
                              /\ errands'[f].stage = errands[f].stage
                              /\ errands'[f].colour = errands[f].colour /\ ~errands'[f].mine
    OBVIOUS
  <2>2. CASE Idles(f)
    BY <1>4, <2>2 DEF Idles
  <2>3. CASE ~Idles(f)
    <3>1. errands[f] \in Errand /\ errands'[f] = [errands[f] EXCEPT !.mine = FALSE]
      BY <1>2, <1>4, <2>3
    <3> DEFINE y == [errands[f] EXCEPT !.mine = FALSE]
    <3>2. /\ y \in Errand /\ y # Blank /\ y.kind = errands[f].kind /\ ~y.mine
          /\ y.stage = errands[f].stage /\ y.colour = errands[f].colour
      BY <3>1, OrphanFields, Zenon
    <3> HIDE DEF y
    <3>3. errands'[f] = y
      BY <3>1 DEF y
    <3>. QED BY <2>3, <3>2, <3>3 DEF Idles
  <2>. QED BY <2>2, <2>3
<1>6. errands' \in [Errands -> Errand \cup {Blank}]
  <2>1. errands' = [f \in Errands |-> errands'[f]]
    BY DEF ReopenPage
  <2>2. \A f \in Errands : errands'[f] \in Errand \cup {Blank}
    BY <1>1, <1>3, <1>5
  <2>. QED BY <2>1, <2>2
<1>7. accent' \in (0..359) \X (0..100)
  BY AccentAssumption DEF ReopenPage, AccentInv, AccentTypes
<1>8. AccentTypes'
  <2>1. \A f \in Errands : ~Idles(f)' =>
           (errands'[f].kind = "put" \/ errands'[f].stage = "ok" => errands'[f].colour \in Hexes)
    BY <1>1, <1>3, <1>5 DEF AccentInv, AccentTypes
  <2>. QED BY <1>6, <1>7, <2>1 DEF AccentInv, AccentTypes, ReopenPage, Hexes
<1>9. ASSUME Returning, orderly', wanted' # Blank PROVE Kept'
  <2>1. orderly /\ \A f \in Errands : ~Idles(f) => errands[f].stage # "sent"
    BY <1>9 DEF ReopenPage
  <2>2. saved = HslToHex(wanted) /\ saved' = saved /\ wanted' = wanted
    BY <1>9, <2>1 DEF AccentInv, Kept, Active, ReopenPage
  <2>3. \A f \in Errands : Active(f, "put")' => errands'[f].stage # "sent"
    BY <1>1, <1>3, <1>5, <2>1 DEF Active
  <2>4. \A f \in Errands : Active(f, "load")' /\ errands'[f].mine => f = e
    BY <1>5 DEF Active
  <2>5. Active(e, "load")' /\ errands'[e].mine /\ errands'[e].stage = "sent"
    BY <1>1, <1>3 DEF Active, Idles
  <2>6. saved' = HslToHex(wanted')
    BY <2>2
  <2>. QED BY <2>3, <2>4, <2>5, <2>6 DEF Kept
<1>. QED BY <1>8, <1>9 DEF AccentInv, Kept, Returning

\* A choice: it is shown, and sent.
LEMMA SetAccentSafe ==
    ASSUME AccentInv, NEW e \in Errands, NEW a \in Accents, SetAccent(e, a) PROVE AccentInv'
<1>0. HslToHex(a) \in Hexes
  BY ReadBack
<1> DEFINE x == Errand0("put", HslToHex(a))
<1>1. /\ x \in Errand /\ x # Blank /\ x.kind = "put" /\ x.colour = HslToHex(a)
      /\ x.stage = "sent" /\ x.mine
  BY <1>0, ErrandShape
<1>2. errands' = [errands EXCEPT ![e] = x]
  BY DEF SetAccent
<1> HIDE DEF x
<1>3. errands'[e] = x /\ \A f \in Errands \ {e} : errands'[f] = errands[f]
  BY <1>2 DEF AccentInv, AccentTypes
<1>4. errands' \in [Errands -> Errand \cup {Blank}]
  BY <1>1, <1>2 DEF AccentInv, AccentTypes
<1>5. a \in (0..359) \X (0..100)
  BY AccentAssumption
<1>6. AccentTypes'
  <2>1. \A f \in Errands : ~Idles(f)' =>
           (errands'[f].kind = "put" \/ errands'[f].stage = "ok" => errands'[f].colour \in Hexes)
    BY <1>0, <1>1, <1>3 DEF AccentInv, AccentTypes, Idles
  <2>. QED BY <1>4, <1>5, <2>1 DEF AccentInv, AccentTypes, SetAccent, Hexes
<1>7. ASSUME orderly' PROVE Kept'
  <2>1. \A f \in Errands : Idles(f)
    BY <1>7 DEF SetAccent
  <2>2. accent' = a /\ wanted' = a
    BY DEF SetAccent
  <2>3. \A f \in Errands : Idles(f)' <=> f # e
    BY <1>1, <1>3, <2>1 DEF Idles
  <2>4. \A f \in Errands : ~Active(f, "load")'
    BY <1>1, <1>3, <2>3 DEF Active
  <2>5. Active(e, "put")' /\ errands'[e].stage = "sent" /\ errands'[e].colour = HslToHex(wanted')
    BY <1>1, <1>3, <2>2, <2>3 DEF Active
  <2>6. \A f \in Errands : Active(f, "put")' => f = e
    BY <2>3 DEF Active
  <2>. QED BY <2>2, <2>3, <2>4, <2>5, <2>6 DEF Kept
<1>. QED BY <1>6, <1>7 DEF AccentInv, Kept

\* The server answers with what it has.
LEMMA GetPreferenceSafe ==
    ASSUME AccentInv, NEW e \in Errands, GetPreference(e) PROVE AccentInv'
<1> DEFINE o == IF saved = Blank THEN "failed" ELSE "ok"
<1>1. /\ ~Idles(e) /\ errands[e].kind = "load" /\ errands[e].stage = "sent"
      /\ UNCHANGED <<accent, saved, wanted, orderly>>
  BY DEF GetPreference
<1>2. errands[e] \in Errand /\ saved \in Hexes \cup {Blank} /\ o \in {"ok", "failed"}
  BY <1>1 DEF AccentInv, AccentTypes, Idles
<1>3. errands' = [errands EXCEPT ![e] = [errands[e] EXCEPT !.stage = o, !.colour = saved]]
  BY DEF GetPreference
<1>4. OneErrand(e, o, saved)
  BY <1>1, <1>2, <1>3, ErrandMoves DEF AccentInv
<1>5. AccentTypes'
  <2>1. \A f \in Errands : ~Idles(f)' =>
           (errands'[f].kind = "put" \/ errands'[f].stage = "ok" => errands'[f].colour \in Hexes)
    BY <1>1, <1>2, <1>4 DEF OneErrand, AccentInv, AccentTypes, Idles
  <2>. QED BY <1>1, <1>4, <2>1 DEF OneErrand, AccentInv, AccentTypes, Hexes
<1>6. ASSUME Kept PROVE Kept'
  <2>1. SUFFICES ASSUME orderly, wanted # Blank PROVE Kept'
    BY <1>1 DEF Kept
  <2>2. \A f \in Errands : Active(f, "put") => errands[f].stage # "sent"
    BY <1>1, <1>6, <2>1 DEF Kept, Active
  <2>3. saved = HslToHex(wanted) /\ saved # Blank
    <3>1. wanted \in Accents
      BY <2>1 DEF AccentInv, AccentTypes
    <3>. QED BY <1>6, <2>1, <2>2, <3>1, ReadBack DEF Kept
  <2>4. o = "ok"
    BY <2>3
  <2>5. \A f \in Errands, kind \in {"load", "put"} : Active(f, kind)' <=> Active(f, kind)
    BY <1>1, <1>4 DEF OneErrand, Active, Idles
  <2>6. \A f \in Errands : Active(f, "put")' => errands'[f].stage # "sent"
    BY <1>1, <1>4, <2>2, <2>5 DEF OneErrand, Active
  <2>7. \A f \in Errands : Active(f, "load")' /\ errands'[f].mine =>
           /\ errands'[f].stage = "ok" => errands'[f].colour = HslToHex(wanted')
           /\ errands'[f].stage # "failed"
           /\ \A g \in Errands : Active(g, "load")' /\ errands'[g].mine => f = g
    BY <1>1, <1>4, <1>6, <2>1, <2>3, <2>4, <2>5 DEF OneErrand, Kept
  <2>8. (\A f \in Errands : ~(Active(f, "load")' /\ errands'[f].mine)) => accent' = wanted'
    BY <1>1, <1>4, <1>6, <2>1, <2>5 DEF OneErrand, Kept
  <2>. QED BY <1>1, <2>3, <2>6, <2>7, <2>8 DEF Kept
<1>. QED BY <1>5, <1>6 DEF AccentInv, Returning

\* The server takes the colour.
LEMMA SetPreferenceSafe ==
    ASSUME AccentInv, NEW e \in Errands, SetPreference(e) PROVE AccentInv'
<1>1. /\ ~Idles(e) /\ errands[e].kind = "put" /\ errands[e].stage = "sent"
      /\ saved' = errands[e].colour
      /\ UNCHANGED <<accent, wanted, orderly>>
  BY DEF SetPreference
<1>2. errands[e] \in Errand /\ errands[e].colour \in Hexes
  BY <1>1 DEF AccentInv, AccentTypes, Idles
<1>3. errands' = [errands EXCEPT ![e] = [errands[e] EXCEPT !.stage = "ok"]]
  BY DEF SetPreference
<1>4. OneErrand(e, "ok", errands[e].colour)
  BY <1>1, <1>2, <1>3, ErrandMoves DEF AccentInv
<1>5. AccentTypes'
  <2>1. \A f \in Errands : ~Idles(f)' =>
           (errands'[f].kind = "put" \/ errands'[f].stage = "ok" => errands'[f].colour \in Hexes)
    BY <1>1, <1>2, <1>4 DEF OneErrand, AccentInv, AccentTypes, Idles
  <2>. QED BY <1>1, <1>2, <1>4, <2>1 DEF OneErrand, AccentInv, AccentTypes, Hexes
<1>6. ASSUME Kept PROVE Kept'
  <2>1. SUFFICES ASSUME orderly, wanted # Blank PROVE Kept'
    BY <1>1 DEF Kept
  <2>2. /\ accent = wanted /\ errands[e].colour = HslToHex(wanted)
        /\ \A f \in Errands \ {e} : Idles(f)
    BY <1>1, <1>6, <2>1 DEF Kept, Active
  <2>3. \A f \in Errands : ~Idles(f)' => f = e
    BY <1>4, <2>2 DEF OneErrand, Idles
  <2>. QED BY <1>1, <1>4, <2>2, <2>3 DEF OneErrand, Kept, Active
<1>. QED BY <1>5, <1>6 DEF AccentInv, Returning

\* A request fails: nothing is said of the choice any more.
LEMMA ErrandFailsSafe ==
    ASSUME AccentInv, NEW e \in Errands, ErrandFails(e) PROVE AccentInv'
<1>1. /\ ~Idles(e) /\ errands[e].stage = "sent"
      /\ wanted' = Blank /\ UNCHANGED <<accent, saved, orderly>>
  BY DEF ErrandFails
<1>2. errands[e].colour \in Hexes \cup {Blank}
  BY <1>1 DEF AccentInv, AccentTypes, Idles, Errand, Hexes
<1>3. errands' = [errands EXCEPT ![e] = [errands[e] EXCEPT !.stage = "failed"]]
  BY DEF ErrandFails
<1>4. OneErrand(e, "failed", errands[e].colour)
  BY <1>1, <1>2, <1>3, ErrandMoves DEF AccentInv
<1>5. AccentTypes'
  <2>1. \A f \in Errands : ~Idles(f)' =>
           (errands'[f].kind = "put" \/ errands'[f].stage = "ok" => errands'[f].colour \in Hexes)
    BY <1>1, <1>2, <1>4 DEF OneErrand, AccentInv, AccentTypes, Idles
  <2>. QED BY <1>1, <1>4, <2>1 DEF OneErrand, AccentInv, AccentTypes, Hexes
<1>. QED BY <1>1, <1>5 DEF AccentInv, Kept

\* An answer is shown, or nobody waited for it.
LEMMA ErrandEnds ==
    ASSUME AccentInv, NEW e \in Errands, AccentLoaded(e) \/ ErrandDone(e) PROVE AccentInv'
<1>1. /\ ~Idles(e) /\ errands[e].stage # "sent" /\ errands' = [errands EXCEPT ![e] = Blank]
      /\ UNCHANGED <<saved, wanted, orderly>>
  BY DEF AccentLoaded, ErrandDone
<1>2. errands'[e] = Blank /\ \A f \in Errands \ {e} : errands'[f] = errands[f]
  BY <1>1 DEF AccentInv, AccentTypes
<1>3. errands[e].stage \in {"ok", "failed"}
  BY <1>1 DEF AccentInv, AccentTypes, Idles, Errand
<1>4. accent' \in (0..359) \X (0..100)
  <2>1. errands[e].stage = "ok" => errands[e].colour \in Hexes
    BY <1>1 DEF AccentInv, AccentTypes
  <2>2. errands[e].stage = "ok" => HexToHSL(errands[e].colour) \in (0..359) \X (0..100)
    BY <2>1, ReadBack
  <2>3. accent \in (0..359) \X (0..100)
    BY DEF AccentInv, AccentTypes
  <2>. QED BY <2>2, <2>3 DEF AccentLoaded, ErrandDone
<1>5. AccentTypes'
  <2>1. \A f \in Errands : ~Idles(f)' => f # e /\ ~Idles(f) /\ errands'[f] = errands[f]
    BY <1>2 DEF Idles
  <2>2. errands' \in [Errands -> Errand \cup {Blank}]
    BY <1>1 DEF AccentInv, AccentTypes
  <2>. QED BY <1>1, <1>4, <2>1, <2>2 DEF AccentInv, AccentTypes, Hexes
<1>6. ASSUME Returning, Kept PROVE Kept'
  <2>1. SUFFICES ASSUME orderly, wanted # Blank PROVE Kept'
    BY <1>1 DEF Kept
  <2>2. wanted \in Accents
    BY <2>1 DEF AccentInv, AccentTypes
  <2>3. \A f \in Errands, kind \in {"load", "put"} :
           /\ Active(f, kind)' <=> Active(f, kind) /\ f # e
           /\ Active(f, kind)' => errands'[f] = errands[f]
    BY <1>2 DEF Active, Idles
  <2>4. \A f \in Errands : ~(Active(f, "put") /\ errands[f].stage = "sent")
    BY <1>1, <1>6, <2>1 DEF Kept, Active
  <2>5. saved' = HslToHex(wanted')
    BY <1>1, <1>6, <2>1, <2>4 DEF Kept
  <2>6. \A f \in Errands : Active(f, "put")' => errands'[f].stage # "sent"
    BY <2>3, <2>4
  <2>7. \A f \in Errands : Active(f, "load")' /\ errands'[f].mine =>
           /\ errands'[f].stage = "ok" => errands'[f].colour = HslToHex(wanted')
           /\ errands'[f].stage # "failed"
           /\ \A g \in Errands : Active(g, "load")' /\ errands'[g].mine => f = g
    BY <1>1, <1>6, <2>1, <2>3 DEF Kept
  <2>8. (\A f \in Errands : ~(Active(f, "load")' /\ errands'[f].mine)) => accent' = wanted'
    <3>1. CASE AccentLoaded(e)
      <4>1. Active(e, "load") /\ errands[e].mine
        BY <1>1, <3>1 DEF AccentLoaded, Active
      <4>2. errands[e].stage = "ok" /\ errands[e].colour = HslToHex(wanted)
        BY <1>3, <1>6, <2>1, <4>1 DEF Kept
      <4>. QED BY <1>1, <1>6, <2>2, <3>1, <4>2 DEF AccentLoaded, Returning
    <3>2. CASE ErrandDone(e)
      <4>1. accent' = accent /\ ~(Active(e, "load") /\ errands[e].mine)
        BY <3>2 DEF ErrandDone, Active
      <4>. QED BY <1>1, <1>6, <2>1, <2>3, <4>1 DEF Kept
    <3>. QED BY <3>1, <3>2
  <2>. QED BY <2>5, <2>6, <2>7, <2>8 DEF Kept
<1>. QED BY <1>5, <1>6 DEF AccentInv, Returning

\* Every step keeps the invariant of the colour.
LEMMA AccentStep == ASSUME AccentInv, [AccentNext]_accentVars PROVE AccentInv'
<1>1. CASE AccentNext
  BY <1>1, ReopenPageSafe, SetAccentSafe, GetPreferenceSafe, SetPreferenceSafe, ErrandFailsSafe,
     ErrandEnds DEF AccentNext
<1>2. CASE UNCHANGED accentVars
  BY <1>2 DEF accentVars, AccentInv, AccentTypes, Kept, Active, Idles, Returning, Hexes
<1>. QED BY <1>1, <1>2

\* A choice that was saved is on the screen once nothing is under way.
LEMMA InvReturns == ASSUME AccentInv PROVE AccentTypeOK /\ (Returning => AccentReturns)
BY DEF AccentInv, AccentTypes, AccentTypeOK, Kept, Active, AccentReturns

-----------------------------------------------------------------------------
(* All together.                                                           *)

\* While one part moves the others rest.
RecordsInv == StorageInv /\ SharingInv /\ LanguageInv /\ AccentInv

\* The first states of the composition.
LEMMA RecordsBegin == ASSUME Init PROVE RecordsInv
<1>1. StorageInv /\ SharingInv
  BY StorageInitially, SharingInitially DEF Init
<1>2. ASSUME LanguageRests PROVE LanguageInv
  BY <1>2, LanguageAssumption
     DEF LanguageRests, LanguageInv, LanguageTypeOK, LinesKnown, TidyLines, Idling
<1>3. ASSUME AccentRests PROVE AccentInv
  BY <1>3, AccentAssumption
     DEF AccentRests, AccentInv, AccentTypes, Kept, Idles, Hexes
<1>. QED BY <1>1, <1>2, <1>3, LanguageBegins, AccentBegins DEF Init, RecordsInv

\* Every step of the composition is one of a part.
LEMMA RecordsStep == ASSUME RecordsInv, [Next]_vars PROVE RecordsInv'
<1>1. /\ [StorageNext]_storageVars /\ [SharingNext]_sharingVars
      /\ [LanguageNext]_languageVars /\ [AccentNext]_accentVars
  BY DEF Next, vars
<1>. QED BY <1>1, StorageStep, SharingStep, LanguageStep, AccentStep DEF RecordsInv

\* The invariant of files, shares, language and colour together, for any documents, members,
\* languages, accents and requests.
THEOREM RecordsInvariance == Spec => []RecordsInv
<1>1. RecordsInv /\ [Next]_vars => RecordsInv'
  BY RecordsStep
<1>. QED BY <1>1, RecordsBegin, PTL DEF Spec

\* Every variable of files, shares and personal settings has its type; hue and saturation
\* stay in range whatever is converted (colour-utils.ts).
THEOREM RecordsTyped == Spec => []RecordsTypeOK
<1>1. RecordsInv => RecordsTypeOK
  BY InvIsSettled, InvReturns DEF RecordsInv, RecordsTypeOK, StorageInv, SharingInv
<1>. QED BY <1>1, RecordsInvariance, PTL

\* What a user chose, language or accent, is what the page shows once nothing is under way,
\* also after it is loaded again: for any languages and number of requests, and for any
\* accents that the conversion to hexadecimal and back leaves as they are
\* (i18n-context.tsx, theme-context.tsx).
THEOREM ChoiceAlwaysKept == ASSUME Returning PROVE Spec => []ChoiceKept
<1>1. RecordsInv => ChoiceKept
  BY InvIsSettled, InvReturns DEF RecordsInv, ChoiceKept
<1>. QED BY <1>1, RecordsInvariance, PTL

=============================================================================
