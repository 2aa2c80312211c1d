---------------------------- MODULE MCPolicyTabs ----------------------------
(***************************************************************************)
(* The policy page and its tabs, one at a time: tab says which part runs,  *)
(* the others rest in their initial states, so their state spaces add up   *)
(* instead of multiplying.  The requests to Paperless that the API and the *)
(* worker make are checked in the same way.                                *)
(***************************************************************************)
EXTENDS ListTabs, DocumentsTab, PaperlessTagSection, PaperlessSearch,
        CoverageSection, PolicyPage, PaperlessAdapter, PaperlessClient,
        AdminUsersPage, SharesPage, AdminSettingsPage, TLC

VARIABLE tab

ownVars == <<docVars, sectionVars, searchVars, coverageVars, url>>
pagesVars == <<pageVars, resetTarget, formVars, editVars>>
webVars == <<tab, tabVars, ownVars, serverVars, pagesVars>>

Plain == {"persons", "links", "costs", "billing"}
Paperless == {"names", "lookups", "listing", "tagging"}
Pages == {"users", "shares", "settings"}
Tabs ==
    Plain \cup Paperless \cup Pages
    \cup {"documents", "section", "search", "coverage", "page"}

DocRests == passing = Ids /\ selected = {} /\ classifying = FALSE
SectionRests ==
    syncJob = "none" /\ progress = "none" /\ polling = FALSE /\ timer = FALSE /\ strays = 0
SearchRests == numbered = FALSE /\ waiting = FALSE
CoverageRests == view = "loading" /\ ticked = FALSE /\ central = FALSE /\ chosen = {}
PageRests == url = None

TabRests ==
    /\ store = [i \in Ids |-> "new"] /\ rev = 0 /\ calls = [s \in Slots |-> None]
    /\ list = {} /\ listRev = 0 /\ loading = FALSE
    /\ form = "closed" /\ busy = FALSE /\ mounts = 1

\* Where a call to Paperless starts; what it never looks at is fixed.
PaperlessStart ==
    /\ host \in {Nowhere, CHOOSE h \in Hosts : TRUE}
    /\ tab # "listing" => \A h \in Hosts, p \in Papers \ {1} : marks[h][p] = {}
    /\ tab = "listing" => \A h \in Hosts, p \in Papers :
                              marks[h][p] \subseteq {Idle.sticker}
    /\ tab = "lookups" => \A h \in Hosts : marks[h][1] \subseteq catalogue[h]
    /\ tab = "names" => \A h \in Hosts : marks[h][1] = {}
    /\ tab \in {"names", "lookups"} \/ \A h \in Hosts :
                              flavour[h] = "v2" /\ catalogue[h] = Stickers

PaperlessRests ==
    /\ host = Nowhere
    /\ \A h \in Hosts :
          flavour[h] = "v2" /\ catalogue[h] = {} /\ \A p \in Papers : marks[h][p] = {}

PaperlessNext ==
    \/ tab = "names" /\ ((\E c \in Askers : CreateStep(c)) \/ OutsideNames)
    \/ tab = "lookups" /\ ((\E c \in Askers : LookUpStep(c)) \/ OutsideNames)
    \/ tab = "listing" /\ ((\E c \in Askers : ListStep(c)) \/ OutsideMarks(Papers))
    \/ tab = "tagging" /\ ((\E c \in Askers : AssignStep(c)) \/ OutsideMarks({1}))

TableRests ==
    /\ table = [i \in Ids |-> "none"] /\ posts = [s \in Slots |-> None] /\ awaiting = FALSE
    /\ PageRestsElse

OwnRests ==
    /\ tab # "users" => resetTarget = None
    /\ tab # "shares" =>
          scopeType = "INSURANCE" /\ policyId = None /\ documents = None /\ astray = FALSE
    /\ tab # "settings" => editingKey = None /\ testing = {}

PagesNext ==
    \/ tab = "users" /\ UsersNext /\ UNCHANGED <<formVars, editVars>>
    \/ tab = "shares" /\ SharesPageNext /\ UNCHANGED <<resetTarget, editVars>>
    \/ tab = "settings" /\ SettingsPageNext /\ UNCHANGED <<resetTarget, formVars>>

WebInit ==
    /\ tab \in Tabs
    /\ CASE tab = "users" -> UsersInit
         [] tab = "shares" -> SharesInit
         [] tab = "settings" -> SettingsPageInit
         [] OTHER -> TableRests
    /\ OwnRests
    /\ ServerInit
    /\ tab \in Pages => TabRests
    /\ IF tab \in Paperless THEN PaperlessStart /\ TabRests ELSE PaperlessRests
    /\ tab \in Plain => TabInit
    /\ IF tab = "documents" THEN DocInit ELSE DocRests
    /\ IF tab = "section" THEN SectionInit ELSE SectionRests
    /\ IF tab = "search" THEN SearchInit ELSE SearchRests
    /\ IF tab = "coverage" THEN CoverageInit ELSE CoverageRests
    /\ IF tab = "page" THEN PageInit ELSE PageRests

\* One step of the part on the screen.
ScreenNext ==
    \/ tab = "persons" /\ PersonsNext /\ UNCHANGED ownVars
    \/ tab = "links" /\ LinksNext /\ UNCHANGED ownVars
    \/ tab = "costs" /\ CardNext /\ UNCHANGED ownVars
    \/ tab = "billing" /\ SidebarNext /\ UNCHANGED ownVars
    \/ tab = "documents" /\ DocumentsNext
       /\ UNCHANGED <<sectionVars, searchVars, coverageVars, url>>
    \/ tab = "section" /\ SectionNext
       /\ UNCHANGED <<docVars, searchVars, coverageVars, url>>
    \/ tab = "search" /\ SearchNext
       /\ UNCHANGED <<docVars, sectionVars, coverageVars, url>>
    \/ tab = "coverage" /\ CoverageNext
       /\ UNCHANGED <<docVars, sectionVars, searchVars, url>>
    \/ tab = "page" /\ PageNext
       /\ UNCHANGED <<docVars, sectionVars, searchVars, coverageVars>>

WebNext ==
    /\ \/ PaperlessNext /\ UNCHANGED <<tabVars, ownVars, pagesVars>>
       \/ PagesNext /\ UNCHANGED <<tabVars, ownVars, serverVars>>
       \/ ScreenNext /\ UNCHANGED <<serverVars, pagesVars>>
    /\ UNCHANGED tab

WebSpec == WebInit /\ [][WebNext]_webVars

WebSymmetry == Permutations(Ids) \cup Permutations(Slots)

-----------------------------------------------------------------------------
\* Every variable of every part has its type; a policy has at most one tag.
WebTypeOK ==
    /\ tab \in Tabs
    /\ tab = "section" => Cardinality(Live) <= 1
    /\ DocTypeOK /\ SectionTypeOK
    /\ numbered \in BOOLEAN /\ waiting \in BOOLEAN
    /\ view \in Views /\ ticked \in BOOLEAN /\ central \in BOOLEAN /\ chosen \subseteq Ids
    /\ url \in Ids \cup {None}
    /\ ServerTypeOK /\ PageTypeOK
    /\ {resetTarget, policyId, documents, editingKey} \subseteq Ids \cup {None}
    /\ testing \subseteq Ids

\* What the user sees as busy is waiting for a request of the part on the screen that will
\* end it, and what is under way locks its button, part by part: spinners, locks of
\* forms, the polling of a synchronisation, a search at rest, the ticked documents and
\* the policy of the page.  The spinner of the documents tab is not among them.  The
\* pages without request numbers also show, at rest, what the database holds.
ViewBacked ==
    /\ tab \in Plain \cup {"section"} => SpinnerEnds
    /\ tab \in Plain \cup {"documents"} => LockIsSave
    /\ tab = "documents" => SelectedVisible /\ ClassifyingIsClassify
    /\ tab = "section" => PollingAlive /\ TagSavesLocked
    /\ tab = "search" => TagSearchSettles
    /\ tab = "coverage" => ViewIsAwaited
    /\ tab = "page" => PageIsUrl
    /\ tab \in Pages => PageLocksBacked /\ PageAtRestIsTrue
    /\ tab = "shares" => DocumentsOfPolicy
    /\ tab = "settings" => TestsBacked

\* What Paperless is said to have answered is so: the dialect of a server, a tag that
\* exists already, the names of a document's tags, the documents of a tag, a tag that was
\* given; and no tag of a document is lost on the way, except where others or the
\* administrator came between.
PaperlessAnswersTrue ==
    /\ DialectsFit
    /\ CreateFindsTag /\ MetadataWhole
    /\ ListingIsWhole /\ TagsPreserved /\ ConfirmedIsTagged

=============================================================================
