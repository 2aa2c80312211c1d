--------------------------- MODULE PaperlessAdapter ---------------------------
(***************************************************************************)
(* What the API asks Paperless while a user waits: the tag catalogue, a    *)
(* new tag, the metadata of a document to link, the search for documents.  *)
(***************************************************************************)
EXTENDS PaperlessServer

Rest == <<host, flavour, marks, accepted, turns>>

(* createTag: an equal name is looked for, else posted; a refusal may mean *)
(* that somebody else was faster, so it is looked for again.               *)
CreateTag(c, t) == BeginAsk(c, "create", "api", "find", t, 1)

\* Only the first hundred hits are looked at.
FindTagByExactName(t) == t \in catalogue[host] \ Buried

FindFirst(c) ==
    /\ At(c, "create", "find")
    /\ LET Then(answer) ==
              IF answer = "ok" /\ FindTagByExactName(asks[c].sticker) THEN Ends(c, "ok")
              ELSE IF answer = "ok" THEN asks' = [asks EXCEPT ![c].step = "post"]
              ELSE Unheard(c, "post")
       IN  OneRequest(c, Then)
    /\ UNCHANGED <<Rest, catalogue>>

\* The catalogue after a POST that got through.
WithTag(h, t) == [catalogue EXCEPT ![h] = @ \cup {t}]

\* A tag of the name makes Paperless refuse (400).  Without an answer the tag may
\* be there all the same; a 201 nobody can read counts as no answer.
PostTag(c) ==
    LET t == asks[c].sticker
        Then(answer) ==
            \/ /\ answer \in {"ok", "odd", "lost"} /\ host # Nowhere /\ t \notin catalogue[host]
               /\ catalogue' = WithTag(host, t)
               /\ Ends(c, IF answer = "ok" THEN "ok" ELSE "UNREACHABLE")
            \/ /\ answer \in {"ok", "odd"} /\ t \in catalogue[host]
               /\ asks' = [asks EXCEPT ![c].step = "again"]
               /\ UNCHANGED catalogue
            \/ /\ answer = "badRequest"
               /\ Unheard(c, "again")
               /\ UNCHANGED catalogue
            \/ /\ answer \notin {"ok", "odd", "badRequest"}
               /\ asks' = [asks EXCEPT ![c] =
                             Ended(Heard(@, FALSE), ClassifyTagRequest(answer))]
               /\ UNCHANGED catalogue
    IN
    /\ At(c, "create", "post")
    /\ OneRequest(c, Then)
    /\ UNCHANGED Rest

FindAgain(c) ==
    /\ At(c, "create", "again")
    /\ LET Then(answer) ==
              IF answer = "ok" /\ FindTagByExactName(asks[c].sticker) THEN Ends(c, "ok")
              ELSE asks' = [asks EXCEPT ![c] =
                              Ended(Heard(@, answer = "ok"), "REJECTED")]
       IN  OneRequest(c, Then)
    /\ UNCHANGED <<Rest, catalogue>>

-----------------------------------------------------------------------------
\* getTag: one request, every answer a result; any 404 says that the tag is gone.
GetTag(c, t) == BeginAsk(c, "tag", "api", "get", t, 1)

TagAnswered(c) ==
    /\ At(c, "tag", "get")
    /\ LET Then(answer) ==
              CASE host # Nowhere /\ answer = "ok" ->
                      Ends(c, IF asks[c].sticker \in catalogue[host] THEN "ok" ELSE "NOT_FOUND")
                [] answer = "missing" -> Ends(c, "NOT_FOUND")
                [] answer = "denied" -> Ends(c, "AUTH_FAILED")
                [] OTHER -> Ends(c, "UNREACHABLE")
       IN  OneRequest(c, Then)
    /\ UNCHANGED <<Rest, catalogue>>

-----------------------------------------------------------------------------
(* getDocumentMetadata: the document, then the names of its tags one by    *)
(* one; a name that does not come is left out.  `seen` is what is still to *)
(* be asked for, and lossy that a name is missing.                         *)
GetDocumentMetadata(c) == BeginAsk(c, "metadata", "api", "get", Idle.sticker, 1)

DocumentRead(c) ==
    /\ At(c, "metadata", "get")
    /\ LET Then(answer) ==
              IF host # Nowhere /\ answer = "ok"
              THEN asks' = [asks EXCEPT ![c].step = "names", ![c].read = TRUE,
                                        ![c].seen = marks[host][asks[c].paper]]
              ELSE Ends(c, "nothing")
       IN  OneRequest(c, Then)
    /\ UNCHANGED <<Rest, catalogue>>

FetchName(c) ==
    /\ At(c, "metadata", "names")
    /\ \E t \in asks[c].seen :
          LET Then(answer) ==
                 LET named == host # Nowhere /\ answer = "ok" /\ t \in catalogue[host]
                 IN  asks' = [asks EXCEPT ![c].seen = @ \ {t}, ![c].lossy = @ \/ ~named,
                                          ![c].heard = @ /\ answer = "ok"]
          IN  OneRequest(c, Then)
    /\ UNCHANGED <<Rest, catalogue>>

MetadataDone(c) ==
    /\ At(c, "metadata", "names")
    /\ asks[c].seen = {}
    /\ Ends(c, "ok")
    /\ UNCHANGED <<host, flavour, dialects, catalogue, marks, accepted, turns>>

-----------------------------------------------------------------------------
(* searchDocuments picks the search parameter by the dialect of one server *)
(* and hands it to a request that reads the settings anew.                 *)
SearchDocuments(c, t) == BeginAsk(c, "documents", "api", "dialect", t, 1)

DialectFound(c) ==
    /\ At(c, "documents", "dialect")
    /\ host # Nowhere
    /\ \E r \in ResolveDialect(host) :
          /\ dialects' = r[2]
          /\ asks' = [asks EXCEPT ![c].step = "get", ![c].dialect = r[1],
                                  ![c].heard = r[1] = flavour[host]]
    /\ UNCHANGED <<Rest, catalogue>>

DocumentsFound(c) ==
    /\ \/ At(c, "documents", "get")
       \/ At(c, "documents", "dialect") /\ host = Nowhere
    /\ \E answer \in IF host = Nowhere THEN {"lost"} ELSE Answers(host, asks[c].dialect) :
          asks' = [asks EXCEPT ![c] =
                     IF answer = "ok"
                     THEN [Ended(@, "ok") EXCEPT !.found = Tagged(marks, host, asks[c].sticker)]
                     ELSE Ended(Heard(@, answer # "lost"), "nothing")]
    /\ UNCHANGED <<Rest, dialects, catalogue>>

-----------------------------------------------------------------------------
CreateStep(c) ==
    (\E t \in Stickers : CreateTag(c, t)) \/ FindFirst(c) \/ PostTag(c) \/ FindAgain(c)

LookUpStep(c) ==
    \/ \E t \in Stickers : GetTag(c, t) \/ SearchDocuments(c, t)
    \/ TagAnswered(c) \/ DialectFound(c) \/ DocumentsFound(c)
    \/ GetDocumentMetadata(c) \/ DocumentRead(c) \/ FetchName(c) \/ MetadataDone(c)

-----------------------------------------------------------------------------
(* "The adapter is idempotent: an existing identical name is returned      *)
(* instead of being duplicated (parallel creation attempts included)"      *)
(* (paperless-tag.service.ts:271-275): a name that exists is not answered  *)
(* with a refusal, if Paperless answers, the server is not changed, nobody *)
(* deletes the tag, and fewer than a hundred names contain it.             *)
CreateFindsTag ==
    \A c \in Askers :
        /\ Over(c, "create")
        /\ asks[c].heard /\ asks[c].alone /\ asks[c].sticker \notin Buried
        => asks[c].result # "REJECTED"

(* The metadata a document is linked with lack the name of a tag only if a *)
(* request for it failed or somebody changed something meanwhile.          *)
MetadataWhole ==
    \A c \in Askers :
        Over(c, "metadata") /\ asks[c].result = "ok" /\ asks[c].heard /\ asks[c].alone
        => ~asks[c].lossy

=============================================================================
