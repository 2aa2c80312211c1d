------------------------------ MODULE WebProofs ------------------------------
(***************************************************************************)
(* What the calls to Paperless and the screens keep, for any servers,      *)
(* names, documents, callers, rows, requests and openings of a tab.        *)
(*                                                                         *)
(* Paperless: PaperlessInv says of each call under way what it has seen of *)
(* its server that is still so.  A step of one call is a notice to the     *)
(* others (Bystander and the lemmas after it), so that the lemma of a step *)
(* looks at its own call only.                                             *)
(*                                                                         *)
(* Screens: ScreenInv has a part for each tab.  The tabs share a handful   *)
(* of moves of their requests (sent, sent anew, answered, freed, aged):    *)
(* what each does to the loads and the saves under way is proved once, and *)
(* the lemma of a tab names the move of each of its steps.  The pages of   *)
(* the administrator keep a stronger part: a read that no write crossed    *)
(* carries the rows of the table, entry by entry for the settings.         *)
(***************************************************************************)
EXTENDS MCPolicyTabs, TLAPS, FiniteSetTheorems

-----------------------------------------------------------------------------
(* Calls to Paperless: the invariant.                                      *)

\* The variables of the servers and of the calls to them.
ServerTypes ==
    /\ host \in Hosts \cup {Nowhere}
    /\ flavour \in [Hosts -> Flavours]
    /\ dialects \in [Hosts -> Flavours \cup {"unknown"}]
    /\ catalogue \in [Hosts -> SUBSET Stickers]
    /\ marks \in [Hosts -> [Papers -> SUBSET Stickers]]
    /\ accepted \in [Hosts -> SUBSET (Papers \X Stickers)]
    /\ asks \in [Askers -> Ask]
    /\ turns \in 0..MaxTurns

\* A tag a document carries is in the catalogue of its server.
MarksNamed == \A h \in Hosts, p \in Papers : marks[h][p] \subseteq catalogue[h]

\* Where documents are edited no tag is created or deleted.
NamesStay == tab \in {"listing", "tagging"} => \A h \in Hosts : catalogue[h] = Stickers

\* A search that is repeated after a refusal finds the tag that was refused.
CreateSafe(c) ==
    asks[c].op = "create" /\ asks[c].heard /\ asks[c].alone =>
        /\ asks[c].step = "again" => host \in Hosts /\ asks[c].sticker \in catalogue[host]
        /\ asks[c].result = "REJECTED" => asks[c].sticker \in Buried

\* Names still to be fetched exist, and none was missed.
MetadataSafe(c) ==
    asks[c].op = "metadata" /\ asks[c].alone =>
        /\ asks[c].step = "names" => host \in Hosts /\ asks[c].seen \subseteq catalogue[host]
        /\ asks[c].heard => ~asks[c].lossy

\* What is on the pages before the next one has been found.
WalkSafe(a, m, h) ==
    LET ps == Tagged(m, h, a.sticker)
    IN  /\ h \in Hosts
        /\ a.kept \subseteq ps
        /\ \A p \in a.kept : Rank(p, ps) <= (a.page - 1) * PageSize => p \in a.found

ListSafe(c) ==
    asks[c].op = "list" /\ asks[c].steady =>
        /\ asks[c].step \in {"page", "done"}
        /\ asks[c].step = "page" => WalkSafe(asks[c], marks, host)
        /\ asks[c].step = "done" /\ asks[c].result = "ok" => asks[c].kept \subseteq asks[c].found

\* Until it writes, an assignment that was left alone knows all tags of its document.
AssignSafe(c) ==
    asks[c].op = "assign" =>
        /\ asks[c].step \in {"before", "bulk", "patch"} => ~asks[c].lossy
        /\ asks[c].step = "before" => ~asks[c].read
        /\ asks[c].step \in {"bulk", "patch"} /\ asks[c].read /\ asks[c].alone =>
              host \in Hosts /\ marks[host][asks[c].paper] \subseteq asks[c].seen
        /\ asks[c].step = "patch" => asks[c].read
        /\ asks[c].lossy => ~asks[c].alone
        /\ asks[c].step = "done" /\ asks[c].result = "ok" /\ asks[c].steady =>
              host \in Hosts /\ asks[c].sticker \in marks[host][asks[c].paper]

CallSafe(c) == CreateSafe(c) /\ MetadataSafe(c) /\ ListSafe(c) /\ AssignSafe(c)

\* The inductive invariant of the calls to Paperless.
PaperlessInv ==
    /\ ServerTypes
    /\ DialectsFit
    /\ MarksNamed
    /\ NamesStay
    /\ \A c \in Askers : CallSafe(c)

-----------------------------------------------------------------------------
(* Records, ranks and pages.                                               *)

\* A caller that asks for nothing.
LEMMA IdleAsk == Idle \in Ask
BY ServerAssumption DEF Idle, Ask, Flavours, Failures, Papers

\* The end of a call changes its step and its result only.
LEMMA EndedAsk ==
    ASSUME NEW a \in Ask, NEW r \in {"none", "ok"} \cup Failures
    PROVE  /\ Ended(a, r) \in Ask
           /\ Ended(a, r).step = "done" /\ Ended(a, r).result = r
           /\ Ended(a, r).op = a.op /\ Ended(a, r).sticker = a.sticker
           /\ Ended(a, r).paper = a.paper /\ Ended(a, r).found = a.found
           /\ Ended(a, r).kept = a.kept /\ Ended(a, r).heard = a.heard
           /\ Ended(a, r).alone = a.alone /\ Ended(a, r).steady = a.steady
           /\ Ended(a, r).lossy = a.lossy
BY DEF Ended, Ask

\* Whether a request was answered changes nothing else.
LEMMA HeardAsk ==
    ASSUME NEW a \in Ask, NEW b \in BOOLEAN
    PROVE  /\ Heard(a, b) \in Ask
           /\ Heard(a, b).heard <=> a.heard /\ b
           /\ Heard(a, b).op = a.op /\ Heard(a, b).sticker = a.sticker
           /\ Heard(a, b).alone = a.alone
BY DEF Heard, Ask

\* Who is first on more documents is not before where they were.
LEMMA RankGrows ==
    ASSUME NEW p, NEW ps \in SUBSET Papers, NEW qs \in SUBSET Papers, ps \subseteq qs
    PROVE  /\ Rank(p, ps) \in Nat /\ Rank(p, qs) \in Nat
           /\ Rank(p, ps) <= Rank(p, qs)
           /\ IsFiniteSet(ps) /\ Rank(p, ps) <= Cardinality(ps)
<1>1. IsFiniteSet(Papers)
  BY ServerAssumption, FS_Interval DEF Papers
<1>2. IsFiniteSet(ps) /\ IsFiniteSet(qs)
  BY <1>1, FS_Subset
<1>3. {q \in qs : q <= p} \subseteq qs /\ {q \in ps : q <= p} \subseteq {q \in qs : q <= p}
  OBVIOUS
<1>4. {q \in ps : q <= p} \subseteq ps
  OBVIOUS
<1>. QED BY <1>2, <1>3, <1>4, FS_Subset, FS_CardinalityType DEF Rank

\* The quotient of a number between two multiples of b that follow each other.
LEMMA QuotientIs ==
    ASSUME NEW a \in Int, NEW b \in Nat \ {0}, NEW k \in Int, b * k <= a, a < b * k + b
    PROVE  a \div b = k
OBVIOUS

\* The ranks up to a page are those before it and those on it.
LEMMA RankOnPage ==
    ASSUME NEW ps \in SUBSET Papers, NEW p \in ps, NEW n \in Nat \ {0},
           Rank(p, ps) <= n * PageSize, ~(Rank(p, ps) <= (n - 1) * PageSize)
    PROVE  p \in OnPage(ps, n)
<1>. DEFINE r == Rank(p, ps)
<1>1. r \in Nat
  BY RankGrows
<1>2. PageSize \in Nat \ {0}
  BY ServerAssumption
<1>. HIDE DEF r
<1>3. r <= n * PageSize /\ r > (n - 1) * PageSize
  BY <1>1, <1>2 DEF r
<1>4. PageSize * (n - 1) <= r - 1 /\ r - 1 < PageSize * (n - 1) + PageSize
  BY <1>1, <1>2, <1>3
<1>5. r - 1 \in Int /\ n - 1 \in Int
  BY <1>1
<1>. QED BY <1>2, <1>4, <1>5, QuotientIs DEF OnPage, r

-----------------------------------------------------------------------------
(* What others do to a call.                                               *)

\* Nothing was done to it, and tags were at most created.
LEMMA Bystander ==
    ASSUME NEW d \in Askers, CallSafe(d), asks'[d] = asks[d], UNCHANGED <<host, marks>>,
           \A h \in Hosts : catalogue[h] \subseteq catalogue'[h]
    PROVE  CallSafe(d)'
<1>1. CreateSafe(d)'
  BY DEF CallSafe, CreateSafe
<1>2. MetadataSafe(d)'
  BY DEF CallSafe, MetadataSafe
<1>3. ListSafe(d)'
  BY DEF CallSafe, ListSafe, WalkSafe
<1>4. AssignSafe(d)'
  BY DEF CallSafe, AssignSafe
<1>. QED BY <1>1, <1>2, <1>3, <1>4 DEF CallSafe

\* A call that is told that something changed is not alone; it is steady if no document
\* lost its tag.
LEMMA Disturbed ==
    ASSUME ServerTypes, ServerTypes', NEW d \in Askers, CallSafe(d), NEW s \in BOOLEAN,
           asks'[d] = [asks[d] EXCEPT !.alone = FALSE, !.steady = s],
           s => /\ asks[d].steady
                /\ UNCHANGED host
                /\ Tagged(marks, host, asks[d].sticker)
                     \subseteq Tagged(marks', host, asks[d].sticker)
    PROVE  CallSafe(d)'
<1>. DEFINE a == asks[d]
            b == asks'[d]
<1>1. a \in Ask
  BY DEF ServerTypes
<1>2. /\ b.op = a.op /\ b.step = a.step /\ b.sticker = a.sticker /\ b.paper = a.paper
      /\ b.found = a.found /\ b.page = a.page /\ b.kept = a.kept /\ b.result = a.result
      /\ b.read = a.read /\ b.lossy = a.lossy
      /\ b.alone = FALSE /\ b.steady = s
  BY <1>1 DEF Ask
<1>3. CreateSafe(d)' /\ MetadataSafe(d)'
  BY <1>2 DEF CreateSafe, MetadataSafe
<1>4. ListSafe(d)'
  <2>. SUFFICES ASSUME a.op = "list", s PROVE ListSafe(d)'
    BY <1>2 DEF ListSafe
  <2>. DEFINE ps == Tagged(marks, host, a.sticker)
              qs == Tagged(marks', host', a.sticker)
  <2>1. ListSafe(d) /\ a.steady /\ ps \subseteq qs /\ host' = host
    BY DEF CallSafe
  <2>2. ps \in SUBSET Papers /\ qs \in SUBSET Papers
    BY DEF Tagged
  <2>3. ASSUME WalkSafe(a, marks, host) PROVE WalkSafe(b, marks', host')
    <3>1. a.kept \subseteq qs /\ host' \in Hosts
      BY <2>1, <2>3 DEF WalkSafe
    <3>2. ASSUME NEW p \in a.kept, Rank(p, qs) <= (a.page - 1) * PageSize
          PROVE  p \in a.found
      <4>1. Rank(p, ps) <= Rank(p, qs) /\ Rank(p, ps) \in Nat /\ Rank(p, qs) \in Nat
        BY <2>1, <2>2, RankGrows
      <4>2. (a.page - 1) * PageSize \in Int
        BY <1>1, ServerAssumption DEF Ask
      <4>3. Rank(p, ps) <= (a.page - 1) * PageSize
        BY <3>2, <4>1, <4>2
      <4>. QED BY <4>3, <2>3 DEF WalkSafe
    <3>. QED BY <3>1, <3>2, <1>2 DEF WalkSafe
  <2>. QED BY <2>1, <2>3, <1>2 DEF ListSafe
<1>5. AssignSafe(d)'
  <2>1. AssignSafe(d)
    BY DEF CallSafe
  <2>2. ASSUME a.op = "assign", a.step = "done", a.result = "ok", s
        PROVE  host' \in Hosts /\ a.sticker \in marks'[host'][a.paper]
    <3>1. host \in Hosts /\ a.sticker \in marks[host][a.paper]
      BY <2>1, <2>2 DEF AssignSafe
    <3>2. a.paper \in Tagged(marks, host, a.sticker)
      BY <3>1, <1>1, ServerAssumption DEF Tagged, Ask
    <3>3. a.paper \in Tagged(marks', host, a.sticker)
      BY <3>2, <2>2
    <3>. QED BY <3>1, <3>3, <2>2 DEF Tagged
  <2>. QED BY <2>1, <2>2, <1>2 DEF AssignSafe
<1>. QED BY <1>3, <1>4, <1>5 DEF CallSafe

\* A notice disturbs every call but the one that gives it.
LEMMA NoticedSafe ==
    ASSUME ServerTypes, ServerTypes', NEW c, NEW d \in Askers, d # c, CallSafe(d),
           NEW h, asks'[d] = Noticed(c, marks', h)[d], h = host => UNCHANGED host
    PROVE  CallSafe(d)'
<1>1. CASE asks[d].op = "idle"
  <2>1. asks'[d].op = "idle"
    BY <1>1 DEF Noticed
  <2>. QED BY <2>1 DEF CallSafe, CreateSafe, MetadataSafe, ListSafe, AssignSafe
<1>2. CASE asks[d].op # "idle"
  <2>. DEFINE s == asks[d].steady /\ h = host /\ Tagged(marks, h, asks[d].sticker)
                                               \subseteq Tagged(marks', h, asks[d].sticker)
  <2>1. asks'[d] = [asks[d] EXCEPT !.alone = FALSE, !.steady = s]
    BY <1>2 DEF Noticed
  <2>2. s \in BOOLEAN /\ (s => /\ asks[d].steady
                               /\ UNCHANGED host
                               /\ Tagged(marks, host, asks[d].sticker)
                                     \subseteq Tagged(marks', host, asks[d].sticker))
    BY DEF ServerTypes, Ask
  <2>. HIDE DEF s
  <2>. QED BY <2>1, <2>2, Disturbed
<1>. QED BY <1>1, <1>2

-----------------------------------------------------------------------------
(* One step of a call.                                                     *)

\* A request may teach the adapter the dialect of the server it went to.
DialectLearnt ==
    \/ UNCHANGED dialects
    \/ host \in Hosts /\ dialects' = [dialects EXCEPT ![host] = flavour[host]]

\* What the adapter learns of a server's dialect while it resolves one is true.
LEMMA Learns ==
    ASSUME NEW c, host \in Hosts,
           NEW r \in IF asks[c].app = "api" THEN ResolveDialect(host)
                     ELSE {<<"plain", dialects>>},
           dialects' = r[2]
    PROVE  DialectLearnt
<1>1. CASE r = <<dialects[host], dialects>> \/ r = <<"v2", dialects>> \/ r = <<"plain", dialects>>
  BY <1>1 DEF DialectLearnt
<1>2. CASE r = <<flavour[host], [dialects EXCEPT ![host] = flavour[host]]>>
  BY <1>2 DEF DialectLearnt
<1>. QED BY <1>1, <1>2 DEF ResolveDialect

\* A step that changes nothing others rely on only has to see to its own call.
LEMMA OwnMove ==
    ASSUME PaperlessInv, NEW c \in Askers, NEW a \in Ask, asks' = [asks EXCEPT ![c] = a],
           CallSafe(c)', DialectLearnt, UNCHANGED <<tab, host, flavour, marks, turns>>,
           catalogue' \in [Hosts -> SUBSET Stickers],
           \A h \in Hosts : catalogue[h] \subseteq catalogue'[h],
           accepted' \in [Hosts -> SUBSET (Papers \X Stickers)]
    PROVE  PaperlessInv'
<1>1. ServerTypes'
  BY DEF PaperlessInv, ServerTypes, DialectLearnt
<1>2. DialectsFit'
  BY DEF PaperlessInv, ServerTypes, DialectsFit, DialectLearnt
<1>3. MarksNamed'
  BY DEF PaperlessInv, MarksNamed
<1>5. NamesStay'
  BY DEF PaperlessInv, ServerTypes, NamesStay
<1>4. ASSUME NEW d \in Askers PROVE CallSafe(d)'
  <2>1. CASE d # c
    <3>1. asks'[d] = asks[d]
      BY <2>1 DEF PaperlessInv, ServerTypes
    <3>. QED BY <3>1, Bystander DEF PaperlessInv
  <2>. QED BY <2>1
<1>. QED BY <1>1, <1>2, <1>3, <1>4, <1>5 DEF PaperlessInv

\* A call ends with a result its properties ask nothing of.
LEMMA EndsSafe ==
    ASSUME PaperlessInv, NEW c \in Askers, NEW r \in Failures, Ends(c, r),
           asks[c].op = "create" => r # "REJECTED",
           DialectLearnt, UNCHANGED <<tab, host, flavour, catalogue, marks, turns>>,
           accepted' \in [Hosts -> SUBSET (Papers \X Stickers)]
    PROVE  PaperlessInv'
<1>. DEFINE a == Ended(asks[c], r)
<1>1. asks[c] \in Ask /\ asks' = [asks EXCEPT ![c] = a]
  BY DEF PaperlessInv, ServerTypes, Ends
<1>2. a \in Ask /\ a.step = "done" /\ a.result = r
  BY <1>1, EndedAsk
<1>3. /\ a.op = asks[c].op /\ a.heard = asks[c].heard /\ a.alone = asks[c].alone
      /\ a.lossy = asks[c].lossy /\ a.steady = asks[c].steady
  BY <1>1, EndedAsk
<1>4. asks'[c] = a
  BY <1>1 DEF PaperlessInv, ServerTypes
<1>5. CallSafe(c)
  BY DEF PaperlessInv
<1>6. r # "ok"
  BY DEF Failures
<1>. HIDE DEF a
<1>7. CallSafe(c)'
  BY <1>2, <1>3, <1>4, <1>5, <1>6
     DEF CallSafe, CreateSafe, MetadataSafe, ListSafe, AssignSafe
<1>. QED BY <1>1, <1>2, <1>7, OwnMove DEF PaperlessInv, ServerTypes

\* A call begins: it is alone, steady and has lost nothing.
LEMMA BeginSafe ==
    ASSUME PaperlessInv, NEW c \in Askers, NEW op, NEW step, NEW app \in {"api", "worker"},
           NEW t \in Stickers, BeginAsk(c, op, app, step, t, 1), UNCHANGED tab,
           <<op, step>> \in {<<"create", "find">>, <<"tag", "get">>, <<"metadata", "get">>,
                             <<"documents", "dialect">>, <<"list", "page">>,
                             <<"assign", "before">>}
    PROVE  PaperlessInv'
<1>. DEFINE a == asks'[c]
<1>1. 1 \in Papers /\ Tagged(marks, host, t) \subseteq Papers
  BY ServerAssumption DEF Papers, Tagged
<1>2. host # Nowhere => host \in Hosts
  BY DEF PaperlessInv, ServerTypes
<1>. DEFINE start == IF host = Nowhere THEN "done" ELSE step
            result == IF host = Nowhere THEN "NOT_CONFIGURED" ELSE "none"
            kept == Tagged(marks, host, t)
            b == [Idle EXCEPT !.op = op, !.app = app, !.sticker = t, !.paper = 1,
                              !.step = start, !.result = result, !.kept = kept]
<1>8. asks' = [asks EXCEPT ![c] = b]
  BY DEF BeginAsk
<1>9. a = b
  BY <1>8 DEF PaperlessInv, ServerTypes
<1>4. op \in {"create", "tag", "metadata", "documents", "list", "assign"}
      /\ (op = "create" => step = "find") /\ (op = "list" => step = "page")
      /\ (op = "assign" => step = "before") /\ (op = "metadata" => step = "get")
  OBVIOUS
<1>3. /\ a \in Ask /\ asks' = [asks EXCEPT ![c] = a]
      /\ a.op = op /\ a.sticker = t /\ a.kept = Tagged(marks, host, t) /\ a.page = 1
      /\ a.step = (IF host = Nowhere THEN "done" ELSE step)
      /\ a.result = (IF host = Nowhere THEN "NOT_CONFIGURED" ELSE "none")
      /\ a.lossy = FALSE /\ a.read = FALSE /\ a.seen = {} /\ a.found = {}
  <2>1. op \in {"create", "tag", "metadata", "documents", "list", "assign"}
        /\ step \in {"find", "get", "dialect", "page", "before"}
    OBVIOUS
  <2>2. start \in {"find", "get", "dialect", "page", "before", "done"}
        /\ result \in {"none"} \cup Failures /\ kept \in SUBSET Papers
    BY <1>1, <2>1 DEF Failures
  <2>. HIDE DEF a, start, result, kept
  <2>3. a \in Ask
    BY <1>1, <1>9, <2>1, <2>2, IdleAsk DEF Ask
  <2>4. /\ a.op = op /\ a.sticker = t /\ a.kept = kept /\ a.page = 1
        /\ a.step = start /\ a.result = result
        /\ a.lossy = FALSE /\ a.read = FALSE /\ a.seen = {} /\ a.found = {}
    BY <1>9 DEF Idle
  <2>. QED BY <2>3, <2>4, <1>8, <1>9 DEF start, result, kept
<1>5. op = "list" /\ host \in Hosts => WalkSafe(a, marks, host)
  <2>1. ASSUME NEW p \in a.kept PROVE ~(Rank(p, a.kept) <= (a.page - 1) * PageSize)
    <3>1. {q \in a.kept : q <= p} \subseteq a.kept /\ a.kept \subseteq Papers
      BY <1>1, <1>3
    <3>2. p \in {q \in a.kept : q <= p}
      BY <3>1, ServerAssumption DEF Papers
    <3>3. Rank(p, a.kept) \in Nat /\ Rank(p, a.kept) # 0
      BY <3>1, <3>2, RankGrows, FS_EmptySet, FS_Subset DEF Rank
    <3>4. (a.page - 1) * PageSize = 0
      BY <1>3, ServerAssumption
    <3>. QED BY <3>3, <3>4
  <2>. QED BY <2>1, <1>3 DEF WalkSafe
<1>6. UNCHANGED <<host, flavour, dialects, catalogue, marks, accepted, turns>>
  BY DEF BeginAsk
<1>. HIDE DEF a
<1>7. CallSafe(c)'
  BY <1>2, <1>3, <1>4, <1>5, <1>6
     DEF CallSafe, CreateSafe, MetadataSafe, ListSafe, AssignSafe, a
<1>. QED BY <1>3, <1>6, <1>7, OwnMove DEF PaperlessInv, ServerTypes, DialectLearnt

\* A caller takes its answer and is idle again.
LEMMA ReturnSafe ==
    ASSUME PaperlessInv, NEW c \in Askers, AskReturns(c), UNCHANGED tab PROVE PaperlessInv'
<1>1. CallSafe(c)'
  <2>1. asks'[c] = Idle /\ Idle.op = "idle"
    BY DEF AskReturns, PaperlessInv, ServerTypes, Idle
  <2>. QED BY <2>1 DEF CallSafe, CreateSafe, MetadataSafe, ListSafe, AssignSafe
<1>. QED BY <1>1, IdleAsk, OwnMove DEF AskReturns, PaperlessInv, ServerTypes, DialectLearnt

-----------------------------------------------------------------------------
(* What happens outside.                                                   *)

\* A notice keeps calls typed.
LEMMA NoticedTyped ==
    ASSUME asks \in [Askers -> Ask], NEW c, NEW m, NEW h
    PROVE  Noticed(c, m, h) \in [Askers -> Ask]
<1>. SUFFICES ASSUME NEW d \in Askers PROVE Noticed(c, m, h)[d] \in Ask
  BY DEF Noticed
<1>. DEFINE s == asks[d].steady /\ h = host /\ Tagged(marks, h, asks[d].sticker)
                                             \subseteq Tagged(m, h, asks[d].sticker)
<1>1. asks[d] \in Ask
  OBVIOUS
<1>2. s \in BOOLEAN
  BY <1>1 DEF Ask
<1>3. \/ Noticed(c, m, h)[d] = asks[d]
      \/ Noticed(c, m, h)[d] = [asks[d] EXCEPT !.alone = FALSE, !.steady = s]
  BY DEF Noticed
<1>. HIDE DEF s
<1>4. [asks[d] EXCEPT !.alone = FALSE, !.steady = s] \in Ask
  BY <1>1, <1>2 DEF Ask
<1>. QED BY <1>1, <1>3, <1>4

\* Everybody is told that tags of documents, names of tags or the server changed.
LEMMA OutsideMove ==
    ASSUME PaperlessInv, NEW h, asks' = Noticed(Nowhere, marks', h), h = host => UNCHANGED host,
           host' \in Hosts \cup {Nowhere}, UNCHANGED <<tab, flavour, dialects>>,
           catalogue' \in [Hosts -> SUBSET Stickers], MarksNamed', NamesStay',
           marks' \in [Hosts -> [Papers -> SUBSET Stickers]],
           accepted' \in [Hosts -> SUBSET (Papers \X Stickers)], turns' \in 0..MaxTurns
    PROVE  PaperlessInv'
<1>1. ServerTypes'
  BY NoticedTyped DEF PaperlessInv, ServerTypes
<1>2. ASSUME NEW d \in Askers PROVE CallSafe(d)'
  BY <1>1, NoticedSafe, ServerAssumption DEF PaperlessInv
<1>. QED BY <1>1, <1>2 DEF PaperlessInv, DialectsFit

\* The turns stay within their bound.
LEMMA TurnTyped == ASSUME turns \in 0..MaxTurns, Turn PROVE turns' \in 0..MaxTurns
BY ServerAssumption DEF Turn

\* An administrator points the program at another server, or at none.
LEMMA ChangeHostSafe ==
    ASSUME PaperlessInv, NEW h \in Hosts \cup {Nowhere}, ChangeHost(h), UNCHANGED tab
    PROVE  PaperlessInv'
<1>1. turns' \in 0..MaxTurns
  BY TurnTyped DEF ChangeHost, PaperlessInv, ServerTypes
<1>2. MarksNamed' /\ NamesStay' /\ asks' = Noticed(Nowhere, marks', h)
  BY DEF ChangeHost, PaperlessInv, MarksNamed, NamesStay
<1>. QED BY <1>1, <1>2, OutsideMove DEF ChangeHost, PaperlessInv, ServerTypes

\* Somebody adds a tag on a Paperless server.
LEMMA AddNameSafe ==
    ASSUME PaperlessInv, NEW h \in Hosts, NEW t \in Stickers, AddName(h, t), UNCHANGED tab
    PROVE  PaperlessInv'
<1>1. turns' \in 0..MaxTurns
  BY TurnTyped DEF AddName, PaperlessInv, ServerTypes
<1>2. /\ catalogue' \in [Hosts -> SUBSET Stickers]
      /\ \A g \in Hosts : catalogue[g] \subseteq catalogue'[g]
  BY DEF AddName, PaperlessInv, ServerTypes
<1>3. ASSUME NEW d \in Askers PROVE CallSafe(d)'
  BY <1>2, Bystander DEF AddName, PaperlessInv
<1>4. ServerTypes'
  BY <1>1, <1>2 DEF AddName, PaperlessInv, ServerTypes
<1>5. MarksNamed'
  BY <1>2 DEF AddName, PaperlessInv, MarksNamed
<1>6. NamesStay'
  BY <1>2 DEF AddName, PaperlessInv, NamesStay
<1>. QED BY <1>3, <1>4, <1>5, <1>6 DEF AddName, PaperlessInv, DialectsFit

\* A tag that is deleted goes from every document as well.
LEMMA DeleteNameSafe ==
    ASSUME PaperlessInv, NEW h \in Hosts, NEW t \in Stickers, DeleteName(h, t), UNCHANGED tab,
           tab \in {"names", "lookups"}
    PROVE  PaperlessInv'
<1>1. turns' \in 0..MaxTurns
  BY TurnTyped DEF DeleteName, PaperlessInv, ServerTypes
<1>2. catalogue' \in [Hosts -> SUBSET Stickers]
      /\ marks' \in [Hosts -> [Papers -> SUBSET Stickers]]
  BY DEF DeleteName, PaperlessInv, ServerTypes
<1>3. MarksNamed'
  BY DEF DeleteName, PaperlessInv, ServerTypes, MarksNamed
<1>4. NamesStay'
  BY DEF NamesStay
<1>. QED BY <1>1, <1>2, <1>3, <1>4, OutsideMove DEF DeleteName, PaperlessInv, ServerTypes

\* Somebody works on documents where all tags exist.
LEMMA EditPaperSafe ==
    ASSUME PaperlessInv, NEW h \in Hosts, NEW p \in Papers, NEW t \in Stickers,
           EditPaper(h, p, t), UNCHANGED tab, tab \in {"listing", "tagging"}
    PROVE  PaperlessInv'
<1>1. turns' \in 0..MaxTurns
  BY TurnTyped DEF EditPaper, PaperlessInv, ServerTypes
<1>2. marks' \in [Hosts -> [Papers -> SUBSET Stickers]]
  BY DEF EditPaper, PaperlessInv, ServerTypes
<1>3. MarksNamed' /\ NamesStay'
  BY <1>2 DEF EditPaper, PaperlessInv, MarksNamed, NamesStay
<1>. QED BY <1>1, <1>2, <1>3, OutsideMove DEF EditPaper, PaperlessInv, ServerTypes

\* Paperless carries out a bulk edit it had accepted, or loses it.
LEMMA CarryOutSafe ==
    ASSUME PaperlessInv, NEW h \in Hosts, CarryOut(h), UNCHANGED tab,
           tab \in {"listing", "tagging"}
    PROVE  PaperlessInv'
<1>1. PICK b \in accepted[h] :
          /\ accepted' = [accepted EXCEPT ![h] = @ \ {b}]
          /\ \/ /\ marks' = [marks EXCEPT ![h][b[1]] = @ \cup {b[2]}]
                /\ asks' = Noticed(Nowhere, marks', host)
             \/ UNCHANGED <<marks, asks>>
  BY DEF CarryOut
<1>2. /\ accepted' \in [Hosts -> SUBSET (Papers \X Stickers)]
      /\ b[1] \in Papers /\ b[2] \in Stickers
  BY <1>1 DEF PaperlessInv, ServerTypes
<1>3. UNCHANGED <<host, flavour, dialects, catalogue, turns>>
  BY DEF CarryOut
<1>4. CASE UNCHANGED <<marks, asks>>
  <2>1. ASSUME NEW d \in Askers PROVE CallSafe(d)'
    BY <1>3, <1>4, Bystander DEF PaperlessInv
  <2>2. ServerTypes'
    BY <1>2, <1>3, <1>4 DEF PaperlessInv, ServerTypes
  <2>3. MarksNamed' /\ NamesStay' /\ DialectsFit'
    BY <1>3, <1>4 DEF PaperlessInv, MarksNamed, NamesStay, DialectsFit
  <2>. QED BY <2>1, <2>2, <2>3 DEF PaperlessInv
<1>5. CASE /\ marks' = [marks EXCEPT ![h][b[1]] = @ \cup {b[2]}]
           /\ asks' = Noticed(Nowhere, marks', host)
  <2>1. marks' \in [Hosts -> [Papers -> SUBSET Stickers]]
    BY <1>2, <1>5 DEF PaperlessInv, ServerTypes
  <2>2. MarksNamed' /\ NamesStay'
    BY <1>3, <2>1 DEF PaperlessInv, MarksNamed, NamesStay
  <2>. QED BY <1>2, <1>3, <1>5, <2>1, <2>2, OutsideMove DEF PaperlessInv, ServerTypes
<1>. QED BY <1>1, <1>4, <1>5

-----------------------------------------------------------------------------
(* Steps of createTag, getTag and searchDocuments.                         *)

\* A call that goes on without an answer.
LEMMA UnheardSafe ==
    ASSUME PaperlessInv, NEW c \in Askers, asks[c].op = "create",
           NEW step \in {"post", "again"}, Unheard(c, step), DialectLearnt,
           UNCHANGED <<tab, host, flavour, catalogue, marks, accepted, turns>>
    PROVE  PaperlessInv'
<1>. DEFINE a == [asks[c] EXCEPT !.step = step, !.heard = FALSE]
<1>1. asks[c] \in Ask /\ asks' = [asks EXCEPT ![c] = a]
  BY DEF PaperlessInv, ServerTypes, Unheard
<1>2. a \in Ask /\ a.op = "create" /\ a.heard = FALSE
  BY <1>1 DEF Ask
<1>3. asks'[c] = a
  BY <1>1 DEF PaperlessInv, ServerTypes
<1>. HIDE DEF a
<1>4. CallSafe(c)'
  BY <1>2, <1>3 DEF CallSafe, CreateSafe, MetadataSafe, ListSafe, AssignSafe
<1>. QED BY <1>1, <1>2, <1>4, OwnMove DEF PaperlessInv, ServerTypes

\* createTag looks for a tag of the name before it posts one.
LEMMA FindFirstSafe ==
    ASSUME PaperlessInv, NEW c \in Askers, FindFirst(c), UNCHANGED tab PROVE PaperlessInv'
<1>1. /\ asks[c].op = "create" /\ DialectLearnt
      /\ \/ Ends(c, "ok")
         \/ asks' = [asks EXCEPT ![c].step = "post"]
         \/ Unheard(c, "post")
  <2>1. CASE host = Nowhere
    BY <2>1 DEF FindFirst, OneRequest, DialectLearnt, At
  <2>2. CASE host # Nowhere
    BY <2>2 DEF FindFirst, OneRequest, DialectLearnt, At, ResolveDialect, PaperlessInv,
                ServerTypes
  <2>. QED BY <2>1, <2>2
<1>2. UNCHANGED <<host, flavour, marks, accepted, turns, catalogue>>
  BY DEF FindFirst, Rest
<1>3. CASE Ends(c, "ok")
  <2>1. asks[c] \in Ask
    BY DEF PaperlessInv, ServerTypes
  <2>2. asks' = [asks EXCEPT ![c] = Ended(asks[c], "ok")] /\ asks'[c] = Ended(asks[c], "ok")
    BY <1>3 DEF Ends, PaperlessInv, ServerTypes
  <2>3. Ended(asks[c], "ok") \in Ask /\ asks'[c].op = "create" /\ asks'[c].step = "done"
        /\ asks'[c].result = "ok"
    BY <1>1, <2>1, <2>2, EndedAsk
  <2>4. CallSafe(c)'
    BY <2>3 DEF CallSafe, CreateSafe, MetadataSafe, ListSafe, AssignSafe
  <2>. QED BY <1>1, <1>2, <2>2, <2>3, <2>4, OwnMove DEF PaperlessInv, ServerTypes
<1>4. CASE asks' = [asks EXCEPT ![c].step = "post"]
  <2>. DEFINE a == [asks[c] EXCEPT !.step = "post"]
  <2>1. asks[c] \in Ask /\ asks' = [asks EXCEPT ![c] = a] /\ asks'[c] = a
    BY <1>4 DEF PaperlessInv, ServerTypes
  <2>2. a \in Ask /\ a.op = "create" /\ a.step = "post" /\ a.result = asks[c].result
        /\ a.heard = asks[c].heard /\ a.alone = asks[c].alone /\ a.sticker = asks[c].sticker
    BY <1>1, <2>1 DEF Ask
  <2>. HIDE DEF a
  <2>4. CallSafe(c)
    BY DEF PaperlessInv
  <2>3. CallSafe(c)'
    BY <1>1, <2>1, <2>2, <2>4 DEF CallSafe, CreateSafe, MetadataSafe, ListSafe, AssignSafe
  <2>. QED BY <1>1, <1>2, <2>1, <2>2, <2>3, OwnMove DEF PaperlessInv, ServerTypes
<1>5. CASE Unheard(c, "post")
  BY <1>1, <1>2, <1>5, UnheardSafe
<1>. QED BY <1>1, <1>3, <1>4, <1>5

\* createTag posts the tag; a tag of its name makes Paperless refuse.
LEMMA PostTagSafe ==
    ASSUME PaperlessInv, NEW c \in Askers, PostTag(c), UNCHANGED tab,
           tab \in {"names", "lookups"}
    PROVE  PaperlessInv'
<1>. DEFINE t == asks[c].sticker
            refused(r) == Ended(Heard(asks[c], FALSE), r)
<1>1. /\ asks[c].op = "create" /\ DialectLearnt
      /\ \/ /\ host \in Hosts /\ catalogue' = WithTag(host, t)
            /\ Ends(c, "ok") \/ Ends(c, "UNREACHABLE")
         \/ /\ host \in Hosts /\ t \in catalogue[host] /\ UNCHANGED catalogue
            /\ asks' = [asks EXCEPT ![c].step = "again"]
         \/ UNCHANGED catalogue /\ Unheard(c, "again")
         \/ /\ UNCHANGED catalogue
            /\ \E r \in Failures : asks' = [asks EXCEPT ![c] = refused(r)]
  <2>1. CASE host = Nowhere
    BY <2>1 DEF PostTag, OneRequest, DialectLearnt, At, ClassifyTagRequest, Failures
  <2>2. CASE host # Nowhere
    <3>1. host \in Hosts
      BY <2>2 DEF PaperlessInv, ServerTypes
    <3>2. DialectLearnt
      <4>1. PICK r \in IF asks[c].app = "api" THEN ResolveDialect(host)
                       ELSE {<<"plain", dialects>>} : dialects' = r[2]
        BY <2>2 DEF PostTag, OneRequest
      <4>. QED BY <3>1, <4>1, Learns
    <3>3. PICK answer :
            \/ /\ answer \in {"ok", "odd", "lost"} /\ host # Nowhere /\ t \notin catalogue[host]
               /\ catalogue' = WithTag(host, t)
               /\ Ends(c, IF answer = "ok" THEN "ok" ELSE "UNREACHABLE")
            \/ /\ answer \in {"ok", "odd"} /\ t \in catalogue[host]
               /\ asks' = [asks EXCEPT ![c].step = "again"]
               /\ UNCHANGED catalogue
            \/ /\ answer = "badRequest"
               /\ Unheard(c, "again")
               /\ UNCHANGED catalogue
            \/ /\ asks' = [asks EXCEPT ![c] =
                             Ended(Heard(@, FALSE), ClassifyTagRequest(answer))]
               /\ UNCHANGED catalogue
      BY <2>2 DEF PostTag, OneRequest
    <3>4. ClassifyTagRequest(answer) \in Failures
      BY DEF ClassifyTagRequest, Failures
    <3>. QED BY <3>1, <3>2, <3>3, <3>4 DEF PostTag, At
  <2>. QED BY <2>1, <2>2
<1>2. UNCHANGED <<host, flavour, marks, accepted, turns>>
  BY DEF PostTag, Rest
<1>3. asks[c] \in Ask /\ CallSafe(c) /\ t \in Stickers
  BY DEF PaperlessInv, ServerTypes, Ask
<1>4. ASSUME host \in Hosts, catalogue' = WithTag(host, t), NEW r \in {"ok", "UNREACHABLE"},
             Ends(c, r)
      PROVE  PaperlessInv'
  <2>. DEFINE a == Ended(asks[c], r)
  <2>1. asks' = [asks EXCEPT ![c] = a] /\ asks'[c] = a
    BY <1>4 DEF Ends, PaperlessInv, ServerTypes
  <2>2. a \in Ask /\ a.op = "create" /\ a.step = "done" /\ a.result # "REJECTED"
    BY <1>1, <1>3, <1>4, EndedAsk DEF Failures
  <2>. HIDE DEF a
  <2>3. CallSafe(c)'
    BY <2>1, <2>2 DEF CallSafe, CreateSafe, MetadataSafe, ListSafe, AssignSafe
  <2>4. catalogue' \in [Hosts -> SUBSET Stickers]
        /\ \A h \in Hosts : catalogue[h] \subseteq catalogue'[h]
    BY <1>3, <1>4 DEF WithTag, PaperlessInv, ServerTypes
  <2>. QED BY <1>1, <1>2, <2>1, <2>2, <2>3, <2>4, OwnMove DEF PaperlessInv, ServerTypes
<1>5. ASSUME host \in Hosts, t \in catalogue[host], UNCHANGED catalogue,
             asks' = [asks EXCEPT ![c].step = "again"]
      PROVE  PaperlessInv'
  <2>. DEFINE a == [asks[c] EXCEPT !.step = "again"]
  <2>1. asks' = [asks EXCEPT ![c] = a] /\ asks'[c] = a
    BY <1>5 DEF PaperlessInv, ServerTypes
  <2>2. a \in Ask /\ a.op = "create" /\ a.step = "again" /\ a.result = asks[c].result
        /\ a.heard = asks[c].heard /\ a.alone = asks[c].alone /\ a.sticker = t
    BY <1>1, <1>3 DEF Ask
  <2>. HIDE DEF a
  <2>3. CallSafe(c)'
    BY <1>1, <1>2, <1>3, <1>5, <2>1, <2>2
       DEF CallSafe, CreateSafe, MetadataSafe, ListSafe, AssignSafe
  <2>. QED BY <1>1, <1>2, <1>5, <2>1, <2>2, <2>3, OwnMove DEF PaperlessInv, ServerTypes
<1>6. ASSUME NEW r \in Failures, asks' = [asks EXCEPT ![c] = refused(r)], UNCHANGED catalogue
      PROVE  PaperlessInv'
  <2>. DEFINE b == Heard(asks[c], FALSE)
  <2>1. b \in Ask /\ b.op = "create" /\ ~b.heard
    BY <1>1, <1>3, HeardAsk
  <2>. HIDE DEF b
  <2>2. Ended(b, r) \in Ask /\ Ended(b, r).op = "create" /\ Ended(b, r).heard = b.heard
    BY <2>1, EndedAsk
  <2>3. asks' = [asks EXCEPT ![c] = Ended(b, r)] /\ asks'[c] = Ended(b, r)
    BY <1>6 DEF b, PaperlessInv, ServerTypes
  <2>4. CallSafe(c)'
    BY <2>1, <2>2, <2>3 DEF CallSafe, CreateSafe, MetadataSafe, ListSafe, AssignSafe
  <2>. QED BY <1>1, <1>2, <1>6, <2>2, <2>3, <2>4, OwnMove DEF PaperlessInv, ServerTypes
<1>7. ASSUME Unheard(c, "again"), UNCHANGED catalogue PROVE PaperlessInv'
  BY <1>1, <1>2, <1>7, UnheardSafe
<1>. QED BY <1>1, <1>4, <1>5, <1>6, <1>7

\* After a refusal createTag looks once more: somebody else was first.
LEMMA FindAgainSafe ==
    ASSUME PaperlessInv, NEW c \in Askers, FindAgain(c), UNCHANGED tab PROVE PaperlessInv'
<1>. DEFINE t == asks[c].sticker
            refused(b) == Ended(Heard(asks[c], b), "REJECTED")
<1>1. asks[c].op = "create" /\ asks[c].step = "again" /\ DialectLearnt
  <2>1. CASE host = Nowhere
    BY <2>1 DEF FindAgain, OneRequest, DialectLearnt, At
  <2>2. CASE host # Nowhere
    BY <2>2 DEF FindAgain, OneRequest, DialectLearnt, At, ResolveDialect, PaperlessInv,
                ServerTypes
  <2>. QED BY <2>1, <2>2
<1>2. UNCHANGED <<host, flavour, marks, accepted, turns, catalogue>>
  BY DEF FindAgain, Rest
<1>3. asks[c] \in Ask /\ CallSafe(c)
  BY DEF PaperlessInv, ServerTypes
<1>4. \/ Ends(c, "ok")
      \/ \E good \in BOOLEAN :
            /\ asks' = [asks EXCEPT ![c] = refused(good)]
            /\ good => host \in Hosts /\ t \notin catalogue[host] \ Buried
  <2>1. CASE host = Nowhere
    <3>1. asks' = [asks EXCEPT ![c] = refused("lost" = "ok")]
      BY <2>1 DEF FindAgain, OneRequest
    <3>. QED BY <3>1
  <2>2. CASE host # Nowhere
    <3>1. PICK answer :
             IF answer = "ok" /\ FindTagByExactName(t) THEN Ends(c, "ok")
             ELSE asks' = [asks EXCEPT ![c] = refused(answer = "ok")]
      BY <2>2 DEF FindAgain, OneRequest
    <3>2. host \in Hosts /\ (answer = "ok") \in BOOLEAN
      BY <2>2 DEF PaperlessInv, ServerTypes
    <3>. HIDE DEF refused
    <3>. QED BY <3>1, <3>2 DEF FindTagByExactName
  <2>. QED BY <2>1, <2>2
<1>5. CASE Ends(c, "ok")
  <2>. DEFINE a == Ended(asks[c], "ok")
  <2>1. asks' = [asks EXCEPT ![c] = a] /\ asks'[c] = a
    BY <1>5 DEF Ends, PaperlessInv, ServerTypes
  <2>2. a \in Ask /\ a.op = "create" /\ a.step = "done" /\ a.result = "ok"
    BY <1>1, <1>3, EndedAsk
  <2>. HIDE DEF a
  <2>3. CallSafe(c)'
    BY <2>1, <2>2 DEF CallSafe, CreateSafe, MetadataSafe, ListSafe, AssignSafe
  <2>. QED BY <1>1, <1>2, <2>1, <2>2, <2>3, OwnMove DEF PaperlessInv, ServerTypes
<1>6. ASSUME NEW good \in BOOLEAN, asks' = [asks EXCEPT ![c] = refused(good)],
             good => host \in Hosts /\ t \notin catalogue[host] \ Buried
      PROVE  PaperlessInv'
  <2>. DEFINE a == Heard(asks[c], good)
  <2>1. a \in Ask /\ a.op = "create" /\ (a.heard <=> asks[c].heard /\ good)
        /\ a.alone = asks[c].alone /\ a.sticker = t
    BY <1>1, <1>3, HeardAsk
  <2>. HIDE DEF a
  <2>. DEFINE e == Ended(a, "REJECTED")
  <2>3. /\ e \in Ask /\ e.op = "create" /\ e.step = "done"
        /\ (e.heard <=> asks[c].heard /\ good) /\ e.alone = asks[c].alone /\ e.sticker = t
    BY <2>1, EndedAsk DEF Failures
  <2>4. asks' = [asks EXCEPT ![c] = e] /\ asks'[c] = e
    BY <1>6 DEF a, PaperlessInv, ServerTypes
  <2>. HIDE DEF e
  <2>5. good /\ asks[c].heard /\ asks[c].alone => t \in Buried
    BY <1>1, <1>3, <1>6 DEF CallSafe, CreateSafe
  <2>6. CallSafe(c)'
    BY <2>3, <2>4, <2>5 DEF CallSafe, CreateSafe, MetadataSafe, ListSafe, AssignSafe
  <2>. QED BY <1>1, <1>2, <2>3, <2>4, <2>6, OwnMove DEF PaperlessInv, ServerTypes
<1>. QED BY <1>4, <1>5, <1>6

\* getTag ends with what the server says of the tag.
LEMMA TagAnsweredSafe ==
    ASSUME PaperlessInv, NEW c \in Askers, TagAnswered(c), UNCHANGED tab PROVE PaperlessInv'
<1>1. asks[c].op = "tag" /\ DialectLearnt /\ \E r \in {"ok"} \cup Failures : Ends(c, r)
  <2>1. CASE host = Nowhere
    BY <2>1 DEF TagAnswered, OneRequest, DialectLearnt, At, Failures
  <2>2. CASE host # Nowhere
    BY <2>2 DEF TagAnswered, OneRequest, DialectLearnt, At, ResolveDialect, PaperlessInv,
                ServerTypes, Failures
  <2>. QED BY <2>1, <2>2
<1>2. PICK r \in {"ok"} \cup Failures : Ends(c, r)
  BY <1>1
<1>. DEFINE a == Ended(asks[c], r)
<1>3. asks' = [asks EXCEPT ![c] = a] /\ asks'[c] = a /\ asks[c] \in Ask
  BY <1>2 DEF Ends, PaperlessInv, ServerTypes
<1>4. a \in Ask /\ a.op = "tag"
  BY <1>1, <1>3, EndedAsk
<1>. HIDE DEF a
<1>5. CallSafe(c)'
  BY <1>3, <1>4 DEF CallSafe, CreateSafe, MetadataSafe, ListSafe, AssignSafe
<1>. QED BY <1>1, <1>3, <1>4, <1>5, OwnMove DEF TagAnswered, Rest, PaperlessInv, ServerTypes

\* searchDocuments asks for the dialect of the server before it searches.
LEMMA DialectFoundSafe ==
    ASSUME PaperlessInv, NEW c \in Askers, DialectFound(c), UNCHANGED tab PROVE PaperlessInv'
<1>1. host \in Hosts
  BY DEF DialectFound, PaperlessInv, ServerTypes
<1>2. PICK r \in ResolveDialect(host) :
          /\ dialects' = r[2]
          /\ asks' = [asks EXCEPT ![c].step = "get", ![c].dialect = r[1],
                                  ![c].heard = r[1] = flavour[host]]
  BY DEF DialectFound
<1>3. DialectLearnt /\ r[1] \in Flavours
  <2>1. flavour[host] \in Flavours /\ dialects[host] \in Flavours \cup {"unknown"}
    BY <1>1 DEF PaperlessInv, ServerTypes
  <2>2. CASE r = <<dialects[host], dialects>> /\ dialects[host] # "unknown"
    BY <1>2, <2>1, <2>2 DEF DialectLearnt
  <2>3. CASE r = <<flavour[host], [dialects EXCEPT ![host] = flavour[host]]>>
    BY <1>1, <1>2, <2>1, <2>3 DEF DialectLearnt
  <2>4. CASE r = <<"v2", dialects>>
    BY <1>2, <2>4 DEF DialectLearnt, Flavours
  <2>. QED BY <2>2, <2>3, <2>4 DEF ResolveDialect
<1>. DEFINE fits == r[1] = flavour[host]
            a == [asks[c] EXCEPT !.step = "get", !.dialect = r[1], !.heard = fits]
<1>4. asks[c] \in Ask /\ asks[c].op = "documents" /\ fits \in BOOLEAN
  BY DEF DialectFound, At, PaperlessInv, ServerTypes
<1>5. asks' = [asks EXCEPT ![c] = a] /\ asks'[c] = a
  BY <1>2 DEF PaperlessInv, ServerTypes
<1>. HIDE DEF fits
<1>6. a \in Ask /\ a.op = "documents"
  BY <1>3, <1>4 DEF Ask
<1>. HIDE DEF a
<1>7. CallSafe(c)'
  BY <1>5, <1>6 DEF CallSafe, CreateSafe, MetadataSafe, ListSafe, AssignSafe
<1>. QED BY <1>3, <1>5, <1>6, <1>7, OwnMove DEF DialectFound, Rest, PaperlessInv, ServerTypes

\* searchDocuments ends with the documents of the server or with nothing.
LEMMA DocumentsFoundSafe ==
    ASSUME PaperlessInv, NEW c \in Askers, DocumentsFound(c), UNCHANGED tab
    PROVE  PaperlessInv'
<1>. DEFINE ps == Tagged(marks, host, asks[c].sticker)
            got == [Ended(asks[c], "ok") EXCEPT !.found = ps]
            without(b) == Ended(Heard(asks[c], b), "nothing")
            a == asks'[c]
<1>1. asks[c] \in Ask /\ asks[c].op = "documents"
  BY DEF DocumentsFound, At, PaperlessInv, ServerTypes
<1>2. PICK answer : asks' = [asks EXCEPT ![c] =
             IF answer = "ok" THEN got ELSE without(answer # "lost")]
  BY DEF DocumentsFound
<1>3. got \in Ask /\ got.op = "documents"
  <2>1. ps \in SUBSET Papers
    BY DEF Tagged
  <2>2. Ended(asks[c], "ok") \in Ask /\ Ended(asks[c], "ok").op = "documents"
    BY <1>1, EndedAsk
  <2>. HIDE DEF ps
  <2>. QED BY <2>1, <2>2 DEF Ask
<1>4. ASSUME NEW b \in BOOLEAN PROVE without(b) \in Ask /\ without(b).op = "documents"
  <2>1. Heard(asks[c], b) \in Ask /\ Heard(asks[c], b).op = "documents"
    BY <1>1, HeardAsk
  <2>. QED BY <2>1, EndedAsk DEF Failures
<1>. HIDE DEF got, without
<1>5. asks' = [asks EXCEPT ![c] = a] /\ a \in Ask /\ a.op = "documents"
  <2>1. CASE answer = "ok"
    BY <1>2, <1>3, <2>1 DEF PaperlessInv, ServerTypes
  <2>2. CASE answer # "ok"
    <3>1. (answer # "lost") \in BOOLEAN
      OBVIOUS
    <3>2. without(answer # "lost") \in Ask /\ without(answer # "lost").op = "documents"
      BY <1>4, <3>1
    <3>. QED BY <1>2, <2>2, <3>2 DEF PaperlessInv, ServerTypes
  <2>. QED BY <2>1, <2>2
<1>. HIDE DEF a
<1>6. CallSafe(c)'
  BY <1>5 DEF CallSafe, CreateSafe, MetadataSafe, ListSafe, AssignSafe, a
<1>7. UNCHANGED <<host, flavour, marks, accepted, turns, dialects, catalogue>>
  BY DEF DocumentsFound, Rest
<1>. QED BY <1>5, <1>6, <1>7, OwnMove DEF PaperlessInv, ServerTypes, DialectLearnt

-----------------------------------------------------------------------------
(* Steps of getDocumentMetadata.                                           *)

\* getDocumentMetadata reads the document, whose tags are names to ask for.
LEMMA DocumentReadSafe ==
    ASSUME PaperlessInv, NEW c \in Askers, DocumentRead(c), UNCHANGED tab PROVE PaperlessInv'
<1>. DEFINE tags == marks[host][asks[c].paper]
            a == [asks[c] EXCEPT !.step = "names", !.read = TRUE, !.seen = tags]
<1>1. /\ asks[c].op = "metadata" /\ DialectLearnt
      /\ \/ Ends(c, "nothing")
         \/ /\ host # Nowhere
            /\ asks' = [asks EXCEPT ![c].step = "names", ![c].read = TRUE, ![c].seen = tags]
  <2>1. CASE host = Nowhere
    BY <2>1 DEF DocumentRead, OneRequest, DialectLearnt, At
  <2>2. CASE host # Nowhere
    <3>1. host \in Hosts
      BY <2>2 DEF PaperlessInv, ServerTypes
    <3>2. PICK r \in IF asks[c].app = "api" THEN ResolveDialect(host)
                     ELSE {<<"plain", dialects>>} :
             /\ dialects' = r[2]
             /\ \E answer \in Answers(host, r[1]) :
                   IF host # Nowhere /\ answer = "ok"
                   THEN asks' = [asks EXCEPT ![c].step = "names", ![c].read = TRUE,
                                             ![c].seen = tags]
                   ELSE Ends(c, "nothing")
      BY <2>2 DEF DocumentRead, OneRequest
    <3>3. DialectLearnt
      BY <3>1, <3>2, Learns
    <3>. QED BY <2>2, <3>2, <3>3 DEF DocumentRead, At
  <2>. QED BY <2>1, <2>2
<1>2. UNCHANGED <<host, flavour, marks, accepted, turns, catalogue>>
  BY DEF DocumentRead, Rest
<1>3. CASE Ends(c, "nothing")
  BY <1>1, <1>2, <1>3, EndsSafe DEF Failures, PaperlessInv, ServerTypes
<1>4. CASE host # Nowhere
           /\ asks' = [asks EXCEPT ![c].step = "names", ![c].read = TRUE, ![c].seen = tags]
  <2>1. host \in Hosts /\ asks[c] \in Ask /\ CallSafe(c)
    BY <1>4 DEF PaperlessInv, ServerTypes
  <2>2. tags \in SUBSET Stickers /\ tags \subseteq catalogue[host]
    BY <2>1 DEF PaperlessInv, ServerTypes, MarksNamed, Ask
  <2>3. asks' = [asks EXCEPT ![c] = a] /\ asks'[c] = a
    BY <1>4 DEF PaperlessInv, ServerTypes
  <2>. HIDE DEF tags
  <2>4. /\ a \in Ask /\ a.op = "metadata" /\ a.seen = tags
        /\ a.heard = asks[c].heard /\ a.alone = asks[c].alone /\ a.lossy = asks[c].lossy
    BY <1>1, <2>1, <2>2 DEF Ask
  <2>. HIDE DEF a
  <2>5. CallSafe(c)'
    BY <1>1, <1>2, <2>1, <2>2, <2>3, <2>4
       DEF CallSafe, CreateSafe, MetadataSafe, ListSafe, AssignSafe
  <2>. QED BY <1>1, <1>2, <2>3, <2>4, <2>5, OwnMove DEF PaperlessInv, ServerTypes
<1>. QED BY <1>1, <1>3, <1>4

\* A name that is asked for exists: it is missing only if the request went wrong.
LEMMA FetchNameSafe ==
    ASSUME PaperlessInv, NEW c \in Askers, FetchName(c), UNCHANGED tab PROVE PaperlessInv'
<1>1. PICK t \in asks[c].seen :
         LET Then(answer) ==
                LET named == host # Nowhere /\ answer = "ok" /\ t \in catalogue[host]
                IN  asks' = [asks EXCEPT ![c].seen = @ \ {t}, ![c].lossy = @ \/ ~named,
                                         ![c].heard = @ /\ answer = "ok"]
         IN  OneRequest(c, Then)
  BY DEF FetchName
<1>. DEFINE got(good, named) ==
              [asks[c] EXCEPT !.seen = @ \ {t}, !.lossy = @ \/ ~named, !.heard = @ /\ good]
<1>2. asks[c] \in Ask /\ CallSafe(c) /\ asks[c].op = "metadata" /\ asks[c].step = "names"
  BY DEF FetchName, At, PaperlessInv, ServerTypes
<1>3. DialectLearnt
  <2>1. CASE host = Nowhere
    BY <1>1, <2>1 DEF OneRequest, DialectLearnt
  <2>2. CASE host # Nowhere
    <3>1. host \in Hosts
      BY <2>2 DEF PaperlessInv, ServerTypes
    <3>2. PICK r \in IF asks[c].app = "api" THEN ResolveDialect(host)
                     ELSE {<<"plain", dialects>>} : dialects' = r[2]
      BY <1>1, <2>2 DEF OneRequest
    <3>. QED BY <3>1, <3>2, Learns
  <2>. QED BY <2>1, <2>2
<1>4. \E good, named \in BOOLEAN :
         /\ asks' = [asks EXCEPT ![c] = got(good, named)]
         /\ good => (named <=> host # Nowhere /\ t \in catalogue[host])
         /\ good => host # Nowhere
  <2>1. CASE host = Nowhere
    <3>1. asks' = [asks EXCEPT ![c] = got(FALSE, FALSE)]
      BY <1>1, <2>1 DEF OneRequest
    <3>. HIDE DEF got
    <3>. QED BY <3>1
  <2>2. CASE host # Nowhere
    <3>1. PICK answer :
             asks' = [asks EXCEPT ![c].seen = @ \ {t},
                        ![c].lossy = @ \/ ~(host # Nowhere /\ answer = "ok" /\ t \in catalogue[host]),
                        ![c].heard = @ /\ answer = "ok"]
      BY <1>1, <2>2 DEF OneRequest
    <3>. DEFINE good == answer = "ok"
                named == host # Nowhere /\ answer = "ok" /\ t \in catalogue[host]
    <3>2. asks' = [asks EXCEPT ![c] = got(good, named)]
      BY <3>1 DEF PaperlessInv, ServerTypes
    <3>3. good \in BOOLEAN /\ named \in BOOLEAN
          /\ (good => (named <=> host # Nowhere /\ t \in catalogue[host]))
      BY <2>2
    <3>. HIDE DEF got, good, named
    <3>. QED BY <2>2, <3>2, <3>3
  <2>. QED BY <2>1, <2>2
<1>5. PICK good, named \in BOOLEAN :
         /\ asks' = [asks EXCEPT ![c] = got(good, named)]
         /\ good => (named <=> host # Nowhere /\ t \in catalogue[host])
         /\ good => host # Nowhere
  BY <1>4
<1>. DEFINE a == got(good, named)
<1>6. /\ a \in Ask /\ a.op = "metadata" /\ a.seen \subseteq asks[c].seen
      /\ (a.heard <=> asks[c].heard /\ good) /\ a.alone = asks[c].alone
      /\ (a.lossy <=> asks[c].lossy \/ ~named)
  <2>. DEFINE rest == asks[c].seen \ {t}
              lossy == asks[c].lossy \/ ~named
              heard == asks[c].heard /\ good
  <2>1. rest \in SUBSET Stickers /\ rest \subseteq asks[c].seen
    BY <1>2 DEF Ask
  <2>2. lossy \in BOOLEAN /\ heard \in BOOLEAN
    OBVIOUS
  <2>3. a = [asks[c] EXCEPT !.seen = rest, !.lossy = lossy, !.heard = heard]
    OBVIOUS
  <2>. HIDE DEF a, rest, lossy, heard
  <2>4. a \in Ask /\ a.op = "metadata" /\ a.seen = rest /\ a.heard = heard
        /\ a.lossy = lossy /\ a.alone = asks[c].alone
    BY <1>2, <2>1, <2>2, <2>3 DEF Ask
  <2>. QED BY <2>1, <2>4 DEF lossy, heard
<1>7. UNCHANGED <<host, flavour, marks, accepted, turns, catalogue>>
  BY DEF FetchName, Rest
<1>8. asks' = [asks EXCEPT ![c] = a] /\ asks'[c] = a
  BY <1>5 DEF PaperlessInv, ServerTypes
<1>. HIDE DEF a
<1>9. CallSafe(c)'
  BY <1>1, <1>2, <1>5, <1>6, <1>7, <1>8
     DEF CallSafe, CreateSafe, MetadataSafe, ListSafe, AssignSafe
<1>. QED BY <1>3, <1>6, <1>7, <1>8, <1>9, OwnMove DEF PaperlessInv, ServerTypes

\* No name is left to be asked for.
LEMMA MetadataDoneSafe ==
    ASSUME PaperlessInv, NEW c \in Askers, MetadataDone(c), UNCHANGED tab PROVE PaperlessInv'
<1>. DEFINE a == Ended(asks[c], "ok")
<1>1. asks[c] \in Ask /\ CallSafe(c) /\ asks[c].op = "metadata"
  BY DEF MetadataDone, At, PaperlessInv, ServerTypes
<1>2. asks' = [asks EXCEPT ![c] = a] /\ asks'[c] = a
  BY DEF MetadataDone, Ends, PaperlessInv, ServerTypes
<1>3. /\ a \in Ask /\ a.op = "metadata" /\ a.step = "done" /\ a.heard = asks[c].heard
      /\ a.alone = asks[c].alone /\ a.lossy = asks[c].lossy
  BY <1>1, EndedAsk
<1>. HIDE DEF a
<1>4. CallSafe(c)'
  BY <1>1, <1>2, <1>3 DEF CallSafe, CreateSafe, MetadataSafe, ListSafe, AssignSafe
<1>. QED BY <1>2, <1>3, <1>4, OwnMove DEF MetadataDone, PaperlessInv, ServerTypes, DialectLearnt

-----------------------------------------------------------------------------
(* Steps of listDocumentsByTag.                                            *)

\* Where there is no further page, or the walk goes on.
LEMMA PageReadSafe ==
    ASSUME PaperlessInv, NEW c \in Askers, asks[c].op = "list", asks[c].step = "page",
           host \in Hosts, PageRead(c), DialectLearnt,
           UNCHANGED <<tab, host, flavour, catalogue, turns, marks, accepted>>
    PROVE  PaperlessInv'
<1>. DEFINE ps == Tagged(marks, host, asks[c].sticker)
            n == asks[c].page
            found == asks[c].found \cup OnPage(ps, n)
            got == [asks[c] EXCEPT !.found = found]
<1>1. /\ asks[c] \in Ask /\ CallSafe(c) /\ n \in Nat \ {0} /\ n \in 1..MaxPages
      /\ ps \in SUBSET Papers /\ found \in SUBSET Papers
  BY ServerAssumption DEF PaperlessInv, ServerTypes, Ask, Tagged, OnPage
<1>2. /\ got \in Ask /\ got.op = "list" /\ got.step = "page" /\ got.found = found
      /\ got.kept = asks[c].kept /\ got.steady = asks[c].steady /\ got.page = n
      /\ got.sticker = asks[c].sticker
  <2>. HIDE DEF found
  <2>. QED BY <1>1 DEF Ask
<1>3. asks[c].steady => asks[c].kept \subseteq ps
      /\ \A p \in asks[c].kept : Rank(p, ps) <= (n - 1) * PageSize => p \in asks[c].found
  BY <1>1 DEF CallSafe, ListSafe, WalkSafe
<1>4. asks[c].steady => \A p \in asks[c].kept : Rank(p, ps) <= n * PageSize => p \in found
  <2>. SUFFICES ASSUME asks[c].steady, NEW p \in asks[c].kept, Rank(p, ps) <= n * PageSize
                PROVE  p \in found
    OBVIOUS
  <2>1. p \in ps
    BY <1>3
  <2>2. CASE Rank(p, ps) <= (n - 1) * PageSize
    BY <1>3, <2>2
  <2>3. CASE ~(Rank(p, ps) <= (n - 1) * PageSize)
    BY <1>1, <2>1, <2>3, RankOnPage
  <2>. QED BY <2>2, <2>3
<1>5. CASE PageFailed(c)
  BY <1>5, EndsSafe DEF PageFailed, Failures, PaperlessInv, ServerTypes
<1>6. CASE Cardinality(ps) <= n * PageSize /\ asks' = [asks EXCEPT ![c] = Ended(got, "ok")]
  <2>. DEFINE a == Ended(got, "ok")
  <2>1. /\ a \in Ask /\ a.op = "list" /\ a.step = "done" /\ a.found = found
        /\ a.kept = asks[c].kept /\ a.steady = asks[c].steady
    <3>. HIDE DEF got, found
    <3>. QED BY <1>2, EndedAsk
  <2>2. asks'[c] = a
    BY <1>6 DEF PaperlessInv, ServerTypes
  <2>. HIDE DEF a
  <2>3. asks[c].steady => asks[c].kept \subseteq found
    <3>. SUFFICES ASSUME asks[c].steady, NEW p \in asks[c].kept PROVE p \in found
      OBVIOUS
    <3>1. Rank(p, ps) \in Nat /\ IsFiniteSet(ps) /\ Rank(p, ps) <= Cardinality(ps)
      BY <1>1, RankGrows
    <3>2. Cardinality(ps) \in Nat /\ n * PageSize \in Int
      BY <1>1, <3>1, FS_CardinalityType, ServerAssumption
    <3>. HIDE DEF ps, n, found
    <3>3. Rank(p, ps) <= n * PageSize
      BY <1>6, <3>1, <3>2
    <3>. QED BY <1>4, <3>3
  <2>. HIDE DEF found
  <2>4. CallSafe(c)'
    BY <2>1, <2>2, <2>3 DEF CallSafe, CreateSafe, MetadataSafe, ListSafe, AssignSafe
  <2>. HIDE DEF got
  <2>. QED BY <1>6, <2>1, <2>4, OwnMove DEF PaperlessInv, ServerTypes, a
<1>7. CASE asks' = [asks EXCEPT ![c] = Ended(got, "nothing")]
  <2>. DEFINE a == Ended(got, "nothing")
  <2>1. a \in Ask /\ a.op = "list" /\ a.step = "done" /\ a.result = "nothing"
    <3>. HIDE DEF got
    <3>1. "nothing" \in {"none", "ok"} \cup Failures
      BY DEF Failures
    <3>. QED BY <1>2, <3>1, EndedAsk
  <2>2. asks'[c] = a
    BY <1>7 DEF PaperlessInv, ServerTypes
  <2>. HIDE DEF a
  <2>3. CallSafe(c)'
    BY <2>1, <2>2 DEF CallSafe, CreateSafe, MetadataSafe, ListSafe, AssignSafe
  <2>. HIDE DEF got
  <2>. QED BY <1>7, <2>1, <2>3, OwnMove DEF PaperlessInv, ServerTypes, a
<1>8. CASE n # MaxPages /\ asks' = [asks EXCEPT ![c] = [got EXCEPT !.page = n + 1]]
  <2>. DEFINE a == [got EXCEPT !.page = n + 1]
  <2>1. n + 1 \in 1..MaxPages
    BY <1>1, <1>8, ServerAssumption
  <2>2. /\ a \in Ask /\ a.op = "list" /\ a.step = "page" /\ a.found = found
        /\ a.kept = asks[c].kept /\ a.steady = asks[c].steady /\ a.page = n + 1
        /\ a.sticker = asks[c].sticker
    <3>. HIDE DEF got, n, found
    <3>. QED BY <1>2, <2>1 DEF Ask
  <2>3. asks'[c] = a
    BY <1>8 DEF PaperlessInv, ServerTypes
  <2>4. (n + 1) - 1 = n
    BY <1>1
  <2>. HIDE DEF a
  <2>5. asks[c].steady => WalkSafe(a, marks, host)
    <3>. HIDE DEF n, found
    <3>. QED BY <1>3, <1>4, <2>2, <2>4 DEF WalkSafe
  <2>6. CallSafe(c)'
    <3>. HIDE DEF n, found
    <3>. QED BY <2>2, <2>3, <2>5 DEF CallSafe, CreateSafe, MetadataSafe, ListSafe, AssignSafe
  <2>. HIDE DEF got, n
  <2>. QED BY <1>8, <2>2, <2>6, OwnMove DEF PaperlessInv, ServerTypes, a
<1>. QED BY <1>5, <1>6, <1>7, <1>8 DEF PageRead

\* A page of the listing arrives, is refused or does not come.
LEMMA NextPageSafe ==
    ASSUME PaperlessInv, NEW c \in Askers, NextPage(c), UNCHANGED tab PROVE PaperlessInv'
<1>1. asks[c].op = "list" /\ asks[c].step = "page" /\ asks[c] \in Ask /\ CallSafe(c)
  BY DEF NextPage, At, PaperlessInv, ServerTypes
<1>2. UNCHANGED <<host, flavour, catalogue, turns, marks, accepted>>
  BY DEF NextPage, Stays
<1>3. /\ DialectLearnt
      /\ \/ host \in Hosts /\ PageRead(c)
         \/ asks' = [asks EXCEPT ![c].minimal = TRUE]
         \/ PageFailed(c)
  <2>1. CASE host = Nowhere
    BY <2>1 DEF NextPage, OneRequest, DialectLearnt
  <2>2. CASE host # Nowhere
    <3>1. host \in Hosts
      BY <2>2 DEF PaperlessInv, ServerTypes
    <3>2. PICK r \in IF asks[c].app = "api" THEN ResolveDialect(host)
                     ELSE {<<"plain", dialects>>} :
             /\ dialects' = r[2]
             /\ \E answer \in Answers(host, r[1]) :
                   CASE host # Nowhere /\ answer = "ok" -> PageRead(c)
                     [] answer = "badRequest" /\ asks[c].app = "worker" /\ ~asks[c].minimal ->
                           asks' = [asks EXCEPT ![c].minimal = TRUE]
                     [] OTHER -> PageFailed(c)
      BY <2>2 DEF NextPage, OneRequest
    <3>3. DialectLearnt
      BY <3>1, <3>2, Learns
    <3>. QED BY <3>1, <3>2, <3>3
  <2>. QED BY <2>1, <2>2
<1>4. CASE host \in Hosts /\ PageRead(c)
  BY <1>1, <1>2, <1>3, <1>4, PageReadSafe
<1>5. CASE PageFailed(c)
  BY <1>1, <1>2, <1>3, <1>5, EndsSafe DEF PageFailed, Failures, PaperlessInv, ServerTypes
<1>6. CASE asks' = [asks EXCEPT ![c].minimal = TRUE]
  <2>. DEFINE a == [asks[c] EXCEPT !.minimal = TRUE]
  <2>1. asks' = [asks EXCEPT ![c] = a] /\ asks'[c] = a
    BY <1>6 DEF PaperlessInv, ServerTypes
  <2>2. /\ a \in Ask /\ a.op = "list" /\ a.step = "page" /\ a.found = asks[c].found
        /\ a.kept = asks[c].kept /\ a.steady = asks[c].steady /\ a.page = asks[c].page
        /\ a.sticker = asks[c].sticker
    BY <1>1 DEF Ask
  <2>. HIDE DEF a
  <2>3. asks[c].steady => WalkSafe(a, marks, host)
    BY <1>1, <2>2 DEF CallSafe, ListSafe, WalkSafe
  <2>4. CallSafe(c)'
    BY <1>2, <2>1, <2>2, <2>3 DEF CallSafe, CreateSafe, MetadataSafe, ListSafe, AssignSafe
  <2>. QED BY <1>2, <1>3, <2>1, <2>2, <2>4, OwnMove DEF PaperlessInv, ServerTypes
<1>. QED BY <1>3, <1>4, <1>5, <1>6

-----------------------------------------------------------------------------
(* Steps of assignTagToDocument.                                           *)

\* A step of an assignment that leaves the tags of all documents alone.
LEMMA AssignMoves ==
    ASSUME PaperlessInv, NEW c \in Askers, NEW a \in Ask, asks' = [asks EXCEPT ![c] = a],
           asks[c].op = "assign", a.op = "assign", DialectLearnt,
           UNCHANGED <<tab, host, flavour, catalogue, turns, marks>>,
           accepted' \in [Hosts -> SUBSET (Papers \X Stickers)],
           a.step \in {"before", "bulk", "patch"} => ~a.lossy,
           a.step # "before",
           a.step \in {"bulk", "patch"} /\ a.read /\ a.alone =>
               host \in Hosts /\ marks[host][a.paper] \subseteq a.seen,
           a.step = "patch" => a.read,
           a.lossy => ~a.alone,
           a.step = "done" /\ a.result = "ok" /\ a.steady =>
               host \in Hosts /\ a.sticker \in marks[host][a.paper]
    PROVE  PaperlessInv'
<1>1. asks'[c] = a
  BY DEF PaperlessInv, ServerTypes
<1>2. CallSafe(c)'
  BY <1>1 DEF CallSafe, CreateSafe, MetadataSafe, ListSafe, AssignSafe
<1>. QED BY <1>2, OwnMove DEF PaperlessInv, ServerTypes

\* An assignment ends, confirmed or not.
LEMMA AssignEnds ==
    ASSUME PaperlessInv, NEW c \in Askers, NEW r \in {"ok"} \cup Failures, Ends(c, r),
           asks[c].op = "assign", DialectLearnt,
           UNCHANGED <<tab, host, flavour, catalogue, turns, marks>>,
           accepted' \in [Hosts -> SUBSET (Papers \X Stickers)],
           r = "ok" => host \in Hosts /\ asks[c].sticker \in marks[host][asks[c].paper]
    PROVE  PaperlessInv'
<1>. DEFINE a == Ended(asks[c], r)
<1>1. asks[c] \in Ask /\ AssignSafe(c) /\ asks' = [asks EXCEPT ![c] = a]
  BY DEF PaperlessInv, ServerTypes, Ends, CallSafe
<1>2. /\ a \in Ask /\ a.op = "assign" /\ a.step = "done" /\ a.result = r
      /\ a.sticker = asks[c].sticker /\ a.paper = asks[c].paper
      /\ a.alone = asks[c].alone /\ a.lossy = asks[c].lossy
  BY <1>1, EndedAsk
<1>. HIDE DEF a
<1>. QED BY <1>1, <1>2, AssignMoves DEF AssignSafe

\* The document is read: now the call knows its tags, or it does not.
LEMMA ReadBeforeSafe ==
    ASSUME PaperlessInv, NEW c \in Askers, ReadBefore(c), UNCHANGED tab PROVE PaperlessInv'
<1>. DEFINE tags == marks[host][asks[c].paper]
            t == asks[c].sticker
<1>1. /\ asks[c].op = "assign" /\ asks[c].step = "before" /\ asks[c] \in Ask /\ AssignSafe(c)
      /\ ~asks[c].lossy /\ ~asks[c].read
  BY DEF ReadBefore, At, PaperlessInv, ServerTypes, CallSafe, AssignSafe
<1>2. UNCHANGED <<host, flavour, catalogue, turns, marks, accepted>>
  BY DEF ReadBefore, Stays
<1>3. /\ DialectLearnt
      /\ \/ host \in Hosts /\ t \in tags /\ Ends(c, "ok")
         \/ /\ host \in Hosts
            /\ asks' = [asks EXCEPT ![c].seen = tags, ![c].read = TRUE, ![c].alone = TRUE,
                                    ![c].step = "bulk"]
         \/ Ends(c, "DOCUMENT_NOT_FOUND")
         \/ Ends(c, "AUTH_FAILED")
         \/ asks' = [asks EXCEPT ![c].step = "bulk"]
  <2>1. CASE host = Nowhere
    BY <2>1 DEF ReadBefore, OneRequest, DialectLearnt
  <2>2. CASE host # Nowhere
    <3>1. host \in Hosts
      BY <2>2 DEF PaperlessInv, ServerTypes
    <3>2. PICK r \in IF asks[c].app = "api" THEN ResolveDialect(host)
                     ELSE {<<"plain", dialects>>} :
             /\ dialects' = r[2]
             /\ \E answer \in Answers(host, r[1]) :
                   CASE host # Nowhere /\ answer = "ok" ->
                           IF t \in tags THEN Ends(c, "ok")
                           ELSE asks' = [asks EXCEPT ![c].seen = tags,
                                                     ![c].read = TRUE, ![c].alone = TRUE,
                                                     ![c].step = "bulk"]
                     [] answer = "missing" -> Ends(c, "DOCUMENT_NOT_FOUND")
                     [] answer = "denied" -> Ends(c, "AUTH_FAILED")
                     [] OTHER -> asks' = [asks EXCEPT ![c].step = "bulk"]
      BY <2>2 DEF ReadBefore, OneRequest
    <3>3. DialectLearnt
      BY <3>1, <3>2, Learns
    <3>. QED BY <3>1, <3>2, <3>3
  <2>. QED BY <2>1, <2>2
<1>4. CASE host \in Hosts /\ t \in tags /\ Ends(c, "ok")
  BY <1>1, <1>2, <1>3, <1>4, AssignEnds DEF PaperlessInv, ServerTypes
<1>5. ASSUME NEW r \in {"DOCUMENT_NOT_FOUND", "AUTH_FAILED"}, Ends(c, r) PROVE PaperlessInv'
  BY <1>1, <1>2, <1>3, <1>5, AssignEnds DEF PaperlessInv, ServerTypes, Failures
<1>6. CASE /\ host \in Hosts
           /\ asks' = [asks EXCEPT ![c].seen = tags, ![c].read = TRUE, ![c].alone = TRUE,
                                   ![c].step = "bulk"]
  <2>. DEFINE a == [asks[c] EXCEPT !.seen = tags, !.read = TRUE, !.alone = TRUE,
                                   !.step = "bulk"]
  <2>1. asks' = [asks EXCEPT ![c] = a]
    BY <1>6 DEF PaperlessInv, ServerTypes
  <2>2. tags \in SUBSET Stickers
    BY <1>1, <1>6 DEF PaperlessInv, ServerTypes, Ask
  <2>3. /\ a \in Ask /\ a.op = "assign" /\ a.step = "bulk" /\ a.seen = tags
        /\ a.paper = asks[c].paper /\ ~a.lossy
    <3>. HIDE DEF tags
    <3>. QED BY <1>1, <2>2 DEF Ask
  <2>. HIDE DEF a
  <2>. QED BY <1>1, <1>2, <1>3, <1>6, <2>1, <2>3, AssignMoves DEF PaperlessInv, ServerTypes
<1>7. CASE asks' = [asks EXCEPT ![c].step = "bulk"]
  <2>. DEFINE a == [asks[c] EXCEPT !.step = "bulk"]
  <2>1. asks' = [asks EXCEPT ![c] = a]
    BY <1>7 DEF PaperlessInv, ServerTypes
  <2>2. a \in Ask /\ a.op = "assign" /\ a.step = "bulk" /\ ~a.lossy /\ ~a.read
    BY <1>1 DEF Ask
  <2>. HIDE DEF a
  <2>. QED BY <1>1, <1>2, <1>3, <2>1, <2>2, AssignMoves DEF PaperlessInv, ServerTypes
<1>. QED BY <1>3, <1>4, <1>5, <1>6, <1>7

\* An edit in bulk changes no document yet.
LEMMA BulkEditSafe ==
    ASSUME PaperlessInv, NEW c \in Askers, BulkEdit(c), UNCHANGED tab PROVE PaperlessInv'
<1>. DEFINE queued == [accepted EXCEPT ![host] =
                         @ \cup {<<asks[c].paper, asks[c].sticker>>}]
<1>1. /\ asks[c].op = "assign" /\ asks[c].step = "bulk" /\ asks[c] \in Ask /\ AssignSafe(c)
  BY DEF BulkEdit, At, PaperlessInv, ServerTypes, CallSafe
<1>2. UNCHANGED <<host, flavour, catalogue, turns, marks>>
  BY DEF BulkEdit, Stays
<1>3. /\ DialectLearnt
      /\ accepted' = accepted \/ accepted' = queued
      /\ \/ AfterAccepted(c)
         \/ \E r \in Failures : Ends(c, r)
         \/ \E answer \in {"missing", "noMethod"} :
               /\ asks[c].read
               /\ asks' = [asks EXCEPT ![c].step = "patch", ![c].bulk = answer]
  <2>0. \A answer : BulkError(answer) \in Failures
    BY DEF BulkError, Failures
  <2>1. CASE host = Nowhere
    BY <2>0, <2>1 DEF BulkEdit, OneRequest, DialectLearnt
  <2>2. CASE host # Nowhere
    <3>1. host \in Hosts
      BY <2>2 DEF PaperlessInv, ServerTypes
    <3>2. PICK r \in IF asks[c].app = "api" THEN ResolveDialect(host)
                     ELSE {<<"plain", dialects>>} :
             /\ dialects' = r[2]
             /\ \E answer \in Answers(host, r[1]) :
                  \/ /\ answer \in {"ok", "odd"}
                     /\ accepted' = queued
                     /\ AfterAccepted(c)
                  \/ /\ answer = "lost" /\ host # Nowhere
                     /\ accepted' = queued
                     /\ Ends(c, BulkError(answer))
                  \/ /\ answer \in {"missing", "noMethod"} /\ asks[c].read
                     /\ asks' = [asks EXCEPT ![c].step = "patch", ![c].bulk = answer]
                     /\ UNCHANGED accepted
                  \/ /\ answer \notin {"ok", "odd"}
                     /\ answer \in {"missing", "noMethod"} => ~asks[c].read
                     /\ Ends(c, BulkError(answer))
                     /\ UNCHANGED accepted
      BY <2>2 DEF BulkEdit, OneRequest
    <3>3. DialectLearnt
      BY <3>1, <3>2, Learns
    <3>. HIDE DEF queued
    <3>. QED BY <2>0, <3>2, <3>3
  <2>. QED BY <2>1, <2>2
<1>4. accepted' \in [Hosts -> SUBSET (Papers \X Stickers)]
  <2>1. queued \in [Hosts -> SUBSET (Papers \X Stickers)]
    <3>1. <<asks[c].paper, asks[c].sticker>> \in Papers \X Stickers
      BY <1>1 DEF Ask
    <3>2. accepted \in [Hosts -> SUBSET (Papers \X Stickers)]
      BY DEF PaperlessInv, ServerTypes
    <3>. QED BY <3>1, <3>2
  <2>. HIDE DEF queued
  <2>. QED BY <1>3, <2>1 DEF PaperlessInv, ServerTypes
<1>5. CASE AfterAccepted(c)
  <2>. DEFINE a == [asks[c] EXCEPT !.step = "verify"]
  <2>1. asks' = [asks EXCEPT ![c] = a]
    BY <1>5 DEF AfterAccepted, PaperlessInv, ServerTypes
  <2>2. a \in Ask /\ a.op = "assign" /\ a.step = "verify"
        /\ a.alone = asks[c].alone /\ a.lossy = asks[c].lossy
    BY <1>1 DEF Ask
  <2>. HIDE DEF a
  <2>3. a.lossy => ~a.alone
    BY <1>1, <2>2 DEF AssignSafe
  <2>. QED BY <1>1, <1>2, <1>3, <1>4, <2>1, <2>2, <2>3, AssignMoves
<1>6. ASSUME NEW r \in Failures, Ends(c, r) PROVE PaperlessInv'
  <2>1. r # "ok"
    BY DEF Failures
  <2>. QED BY <1>1, <1>2, <1>3, <1>4, <1>6, <2>1, AssignEnds
<1>7. ASSUME NEW answer \in {"missing", "noMethod"}, asks[c].read,
             asks' = [asks EXCEPT ![c].step = "patch", ![c].bulk = answer]
      PROVE  PaperlessInv'
  <2>. DEFINE a == [asks[c] EXCEPT !.step = "patch", !.bulk = answer]
  <2>1. asks' = [asks EXCEPT ![c] = a]
    BY <1>7 DEF PaperlessInv, ServerTypes
  <2>2. /\ a \in Ask /\ a.op = "assign" /\ a.step = "patch" /\ a.read = asks[c].read
        /\ a.seen = asks[c].seen /\ a.paper = asks[c].paper
        /\ a.alone = asks[c].alone /\ a.lossy = asks[c].lossy
    BY <1>1 DEF Ask
  <2>. HIDE DEF a
  <2>3. /\ a.read /\ ~a.lossy
        /\ a.alone => host \in Hosts /\ marks[host][a.paper] \subseteq a.seen
    BY <1>1, <1>7, <2>2 DEF AssignSafe
  <2>. QED BY <1>1, <1>2, <1>3, <1>4, <2>1, <2>2, <2>3, AssignMoves
<1>. QED BY <1>3, <1>5, <1>6, <1>7

\* A patch writes what the call read: the document loses a tag only if somebody else
\* came between, and others are told.
LEMMA PatchWritesSafe ==
    ASSUME PaperlessInv, NEW c \in Askers, asks[c].op = "assign", asks[c].step = "patch",
           tab = "tagging", host \in Hosts, DialectLearnt,
           UNCHANGED <<tab, host, flavour, catalogue, turns, accepted>>,
           marks' = [marks EXCEPT ![host][asks[c].paper] = Merged(asks[c])],
           NEW a \in Ask, asks' = [Patched(c) EXCEPT ![c] = a],
           a.op = "assign", a.step \in {"verify", "done"},
           a.step = "done" => a.result # "ok",
           a.alone = asks[c].alone,
           a.lossy <=> marks[host][asks[c].paper] \ Merged(asks[c]) # {}
    PROVE  PaperlessInv'
<1>1. asks[c] \in Ask /\ AssignSafe(c)
  BY DEF PaperlessInv, ServerTypes, CallSafe
<1>2. Merged(asks[c]) \in SUBSET Stickers
  BY <1>1 DEF Merged, Ask
<1>3. marks' \in [Hosts -> [Papers -> SUBSET Stickers]]
  BY <1>1, <1>2 DEF PaperlessInv, ServerTypes, Ask
<1>4. Noticed(c, marks', host) \in [Askers -> Ask]
  BY NoticedTyped DEF PaperlessInv, ServerTypes
<1>5. /\ asks' \in [Askers -> Ask] /\ asks'[c] = a
      /\ \A d \in Askers \ {c} : asks'[d] = Noticed(c, marks', host)[d]
  BY <1>4 DEF Patched
<1>6. ServerTypes'
  BY <1>3, <1>5 DEF PaperlessInv, ServerTypes, DialectLearnt
<1>7. a.lossy => ~a.alone
  BY <1>1 DEF AssignSafe, Merged
<1>8. ASSUME NEW d \in Askers PROVE CallSafe(d)'
  <2>1. CASE d = c
    BY <1>5, <1>7, <2>1 DEF CallSafe, CreateSafe, MetadataSafe, ListSafe, AssignSafe
  <2>2. CASE d # c
    <3>1. asks'[d] = Noticed(c, marks', host)[d]
      BY <1>5, <2>2
    <3>2. ServerTypes /\ CallSafe(d)
      BY DEF PaperlessInv
    <3>. QED BY <1>6, <2>2, <3>1, <3>2, NoticedSafe
  <2>. QED BY <2>1, <2>2
<1>9. DialectsFit'
  BY DEF PaperlessInv, ServerTypes, DialectsFit, DialectLearnt
<1>10. MarksNamed' /\ NamesStay'
  BY <1>3 DEF PaperlessInv, MarksNamed, NamesStay
<1>. QED BY <1>6, <1>8, <1>9, <1>10 DEF PaperlessInv

\* The tags read before, with the new one, are written over those of the document.
LEMMA PatchSafe ==
    ASSUME PaperlessInv, NEW c \in Askers, Patch(c), UNCHANGED tab, tab = "tagging"
    PROVE  PaperlessInv'
<1>. DEFINE refused == IF asks[c].bulk = "missing" THEN "DOCUMENT_NOT_FOUND" ELSE "API_ERROR"
            lost == marks[host][asks[c].paper] \ Merged(asks[c]) # {}
<1>1. /\ asks[c].op = "assign" /\ asks[c].step = "patch" /\ asks[c] \in Ask /\ AssignSafe(c)
  BY DEF Patch, At, PaperlessInv, ServerTypes, CallSafe
<1>2. UNCHANGED <<host, flavour, catalogue, turns, accepted>>
  BY DEF Patch, Stays
<1>3. /\ DialectLearnt
      /\ \/ Ends(c, refused) /\ UNCHANGED marks
         \/ /\ host \in Hosts
            /\ marks' = [marks EXCEPT ![host][asks[c].paper] = Merged(asks[c])]
            /\ \/ asks' = [Patched(c) EXCEPT ![c].step = "verify"]
               \/ asks' = [Patched(c) EXCEPT ![c] = Ended(@, refused)]
  <2>1. CASE host = Nowhere
    BY <2>1 DEF Patch, OneRequest, DialectLearnt
  <2>2. CASE host # Nowhere
    <3>1. host \in Hosts
      BY <2>2 DEF PaperlessInv, ServerTypes
    <3>2. PICK r \in IF asks[c].app = "api" THEN ResolveDialect(host)
                     ELSE {<<"plain", dialects>>} :
             /\ dialects' = r[2]
             /\ \E answer \in Answers(host, r[1]) :
                  \/ /\ answer \in {"ok", "odd"}
                     /\ marks' = [marks EXCEPT ![host][asks[c].paper] = Merged(asks[c])]
                     /\ asks' = [Patched(c) EXCEPT ![c].step = "verify"]
                  \/ /\ answer = "lost" /\ host # Nowhere
                     /\ marks' = [marks EXCEPT ![host][asks[c].paper] = Merged(asks[c])]
                     /\ asks' = [Patched(c) EXCEPT ![c] = Ended(@, refused)]
                  \/ /\ answer \notin {"ok", "odd"}
                     /\ Ends(c, refused)
                     /\ UNCHANGED marks
      BY <2>2 DEF Patch, OneRequest
    <3>3. DialectLearnt
      BY <3>1, <3>2, Learns
    <3>. HIDE DEF refused
    <3>. QED BY <3>1, <3>2, <3>3
  <2>. QED BY <2>1, <2>2
<1>4. refused \in Failures /\ refused # "ok"
  BY DEF Failures
<1>. HIDE DEF refused
<1>5. CASE Ends(c, refused) /\ UNCHANGED marks
  BY <1>1, <1>2, <1>3, <1>4, <1>5, AssignEnds DEF PaperlessInv, ServerTypes
<1>6. CASE /\ host \in Hosts
           /\ marks' = [marks EXCEPT ![host][asks[c].paper] = Merged(asks[c])]
           /\ \/ asks' = [Patched(c) EXCEPT ![c].step = "verify"]
              \/ asks' = [Patched(c) EXCEPT ![c] = Ended(@, refused)]
  <2>. DEFINE b == [asks[c] EXCEPT !.lossy = lost]
  <2>1. Noticed(c, marks', host) \in [Askers -> Ask] /\ Noticed(c, marks', host)[c] = asks[c]
    <3>1. Noticed(c, marks', host)[c] = asks[c]
      BY DEF Noticed
    <3>. QED BY <3>1, NoticedTyped DEF PaperlessInv, ServerTypes
  <2>2. Patched(c) = [Noticed(c, marks', host) EXCEPT ![c] = b] /\ Patched(c)[c] = b
    <3>. HIDE DEF lost
    <3>1. Patched(c) = [Noticed(c, marks', host) EXCEPT ![c].lossy = lost]
      BY DEF Patched, lost
    <3>. QED BY <2>1, <3>1
  <2>3. b \in Ask /\ b.op = "assign" /\ b.alone = asks[c].alone /\ b.lossy = lost
    <3>1. lost \in BOOLEAN
      OBVIOUS
    <3>. HIDE DEF lost
    <3>. QED BY <1>1, <3>1 DEF Ask
  <2>. HIDE DEF b
  <2>4. \E a \in Ask :
           /\ asks' = [Patched(c) EXCEPT ![c] = a]
           /\ a.op = "assign" /\ a.step \in {"verify", "done"}
           /\ a.step = "done" => a.result # "ok"
           /\ a.alone = asks[c].alone /\ a.lossy = lost
    <3>. HIDE DEF lost
    <3>1. CASE asks' = [Patched(c) EXCEPT ![c].step = "verify"]
      <4>. DEFINE a == [b EXCEPT !.step = "verify"]
      <4>1. asks' = [Patched(c) EXCEPT ![c] = a]
        BY <2>1, <2>2, <3>1
      <4>2. a \in Ask /\ a.op = "assign" /\ a.step = "verify" /\ a.alone = asks[c].alone
            /\ a.lossy = lost
        BY <2>3 DEF Ask
      <4>. HIDE DEF a
      <4>. QED BY <4>1, <4>2
    <3>2. CASE asks' = [Patched(c) EXCEPT ![c] = Ended(@, refused)]
      <4>. DEFINE a == Ended(b, refused)
      <4>1. asks' = [Patched(c) EXCEPT ![c] = a]
        BY <2>2, <3>2
      <4>2. a \in Ask /\ a.op = "assign" /\ a.step = "done" /\ a.alone = asks[c].alone
            /\ a.lossy = lost /\ a.result = refused
        BY <1>4, <2>3, EndedAsk
      <4>. HIDE DEF a
      <4>. QED BY <1>4, <4>1, <4>2
    <3>. QED BY <1>6, <3>1, <3>2
  <2>5. PICK a \in Ask :
           /\ asks' = [Patched(c) EXCEPT ![c] = a]
           /\ a.op = "assign" /\ a.step \in {"verify", "done"}
           /\ a.step = "done" => a.result # "ok"
           /\ a.alone = asks[c].alone /\ a.lossy = lost
    BY <2>4
  <2>6. a.lossy <=> marks[host][asks[c].paper] \ Merged(asks[c]) # {}
    BY <2>5
  <2>. QED BY <1>1, <1>2, <1>3, <1>6, <2>5, <2>6, PatchWritesSafe
<1>. QED BY <1>3, <1>5, <1>6

\* What is read back decides whether the assignment counts.
LEMMA VerifySafe ==
    ASSUME PaperlessInv, NEW c \in Askers, Verify(c), UNCHANGED tab PROVE PaperlessInv'
<1>1. /\ asks[c].op = "assign" /\ asks[c].step = "verify" /\ asks[c] \in Ask /\ AssignSafe(c)
  BY DEF Verify, At, PaperlessInv, ServerTypes, CallSafe
<1>2. UNCHANGED <<host, flavour, catalogue, turns, marks, accepted>>
  BY DEF Verify, Stays
<1>3. /\ DialectLearnt
      /\ \/ /\ host \in Hosts /\ asks[c].sticker \in marks[host][asks[c].paper]
            /\ Ends(c, "ok")
         \/ Ends(c, "VERIFY_FAILED")
         \/ asks[c].tries # 2 /\ asks' = [asks EXCEPT ![c].tries = @ + 1]
  <2>1. CASE host = Nowhere
    BY <2>1 DEF Verify, OneRequest, DialectLearnt
  <2>2. CASE host # Nowhere
    <3>1. host \in Hosts
      BY <2>2 DEF PaperlessInv, ServerTypes
    <3>2. PICK r \in IF asks[c].app = "api" THEN ResolveDialect(host)
                     ELSE {<<"plain", dialects>>} :
             /\ dialects' = r[2]
             /\ \E answer \in Answers(host, r[1]) :
                   CASE host # Nowhere /\ answer = "ok"
                          /\ asks[c].sticker \in marks[host][asks[c].paper] -> Ends(c, "ok")
                     [] answer = "lost" \/ asks[c].tries = 2 -> Ends(c, "VERIFY_FAILED")
                     [] OTHER -> asks' = [asks EXCEPT ![c].tries = @ + 1]
      BY <2>2 DEF Verify, OneRequest
    <3>3. DialectLearnt
      BY <3>1, <3>2, Learns
    <3>. QED BY <3>1, <3>2, <3>3
  <2>. QED BY <2>1, <2>2
<1>4. CASE /\ host \in Hosts /\ asks[c].sticker \in marks[host][asks[c].paper]
           /\ Ends(c, "ok")
  BY <1>1, <1>2, <1>3, <1>4, AssignEnds DEF PaperlessInv, ServerTypes
<1>5. CASE Ends(c, "VERIFY_FAILED")
  BY <1>1, <1>2, <1>3, <1>5, AssignEnds DEF PaperlessInv, ServerTypes, Failures
<1>6. CASE asks[c].tries # 2 /\ asks' = [asks EXCEPT ![c].tries = @ + 1]
  <2>. DEFINE n == asks[c].tries + 1
              a == [asks[c] EXCEPT !.tries = n]
  <2>1. asks' = [asks EXCEPT ![c] = a]
    BY <1>6 DEF PaperlessInv, ServerTypes
  <2>2. n \in 0..2
    BY <1>1, <1>6 DEF Ask
  <2>. HIDE DEF n
  <2>3. /\ a \in Ask /\ a.op = "assign" /\ a.step = "verify"
        /\ a.alone = asks[c].alone /\ a.lossy = asks[c].lossy
    BY <1>1, <2>2 DEF Ask
  <2>. HIDE DEF a
  <2>4. a.lossy => ~a.alone
    BY <1>1, <2>3 DEF AssignSafe
  <2>. QED BY <1>1, <1>2, <1>3, <2>1, <2>3, <2>4, AssignMoves DEF PaperlessInv, ServerTypes
<1>. QED BY <1>3, <1>4, <1>5, <1>6

-----------------------------------------------------------------------------
(* All steps together.                                                     *)

\* Whatever somebody does on a Paperless server itself.
LEMMA OutsideAnySafe ==
    ASSUME PaperlessInv, OutsideAny, UNCHANGED tab PROVE PaperlessInv'
BY ChangeHostSafe, ReturnSafe DEF OutsideAny

\* Every step of the callers, the adapter and the servers.
LEMMA PaperlessNextSafe ==
    ASSUME PaperlessInv, PaperlessNext, UNCHANGED tab PROVE PaperlessInv'
<1>1. ASSUME tab \in {"names", "lookups"}, OutsideNames PROVE PaperlessInv'
  BY <1>1, OutsideAnySafe, AddNameSafe, DeleteNameSafe DEF OutsideNames
<1>2. ASSUME tab \in {"listing", "tagging"}, NEW ps \in SUBSET Papers, OutsideMarks(ps)
      PROVE  PaperlessInv'
  <2>1. CASE OutsideAny
    BY <2>1, OutsideAnySafe
  <2>2. ASSUME NEW h \in Hosts, NEW p \in ps, NEW t \in Stickers, EditPaper(h, p, t)
        PROVE  PaperlessInv'
    BY <1>2, <2>2, EditPaperSafe
  <2>3. ASSUME NEW h \in Hosts, CarryOut(h) PROVE PaperlessInv'
    BY <1>2, <2>3, CarryOutSafe
  <2>. QED BY <1>2, <2>1, <2>2, <2>3 DEF OutsideMarks
<1>3. ASSUME tab = "names", NEW c \in Askers, CreateStep(c) PROVE PaperlessInv'
  <2>1. ASSUME NEW t \in Stickers, CreateTag(c, t) PROVE PaperlessInv'
    BY <2>1, BeginSafe DEF CreateTag
  <2>. QED BY <1>3, <2>1, FindFirstSafe, PostTagSafe, FindAgainSafe DEF CreateStep
<1>4. ASSUME tab = "lookups", NEW c \in Askers, LookUpStep(c) PROVE PaperlessInv'
  <2>1. ASSUME NEW t \in Stickers, GetTag(c, t) \/ SearchDocuments(c, t) PROVE PaperlessInv'
    BY <2>1, BeginSafe DEF GetTag, SearchDocuments
  <2>2. CASE GetDocumentMetadata(c)
    <3>1. Idle.sticker \in Stickers
      BY IdleAsk DEF Ask
    <3>. QED BY <2>2, <3>1, BeginSafe DEF GetDocumentMetadata
  <2>. QED BY <1>4, <2>1, <2>2, TagAnsweredSafe, DialectFoundSafe, DocumentsFoundSafe,
              DocumentReadSafe, FetchNameSafe, MetadataDoneSafe DEF LookUpStep
<1>5. ASSUME NEW c \in Askers, ListStep(c) PROVE PaperlessInv'
  <2>1. ASSUME NEW t \in Stickers, NEW app \in Apps, ListDocumentsByTag(c, app, t)
        PROVE  PaperlessInv'
    BY <2>1, BeginSafe DEF ListDocumentsByTag, Apps
  <2>. QED BY <1>5, <2>1, NextPageSafe DEF ListStep
<1>6. ASSUME tab = "tagging", NEW c \in Askers, AssignStep(c) PROVE PaperlessInv'
  <2>1. ASSUME NEW t \in Stickers, NEW app \in Apps, AssignTagToDocument(c, app, t)
        PROVE  PaperlessInv'
    BY <2>1, BeginSafe DEF AssignTagToDocument, Apps
  <2>. QED BY <1>6, <2>1, ReadBeforeSafe, BulkEditSafe, PatchSafe, VerifySafe DEF AssignStep
<1>7. 1 \in Papers
  BY ServerAssumption DEF Papers
<1>. QED BY <1>1, <1>2, <1>3, <1>4, <1>5, <1>6, <1>7 DEF PaperlessNext

\* The tags of all documents exist when it begins, and no call is under way.
LEMMA PaperlessBegins == WebInit => PaperlessInv
<1>. SUFFICES ASSUME WebInit PROVE PaperlessInv
  OBVIOUS
<1>1. ServerInit /\ (IF tab \in Paperless THEN PaperlessStart ELSE PaperlessRests)
  BY DEF WebInit
<1>2. ServerTypes
  BY <1>1, IdleAsk, ServerAssumption DEF ServerInit, ServerTypes
<1>3. DialectsFit
  BY <1>1 DEF ServerInit, DialectsFit
<1>4. NamesStay
  BY <1>1 DEF NamesStay, PaperlessStart, Paperless
<1>5. MarksNamed
  <2>1. CASE tab \notin Paperless
    BY <1>1, <2>1 DEF PaperlessRests, MarksNamed
  <2>2. CASE tab \in {"listing", "tagging"}
    BY <1>2, <1>4, <2>2 DEF NamesStay, MarksNamed, ServerTypes
  <2>3. CASE tab \in {"names", "lookups"}
    <3>1. \A h \in Hosts, p \in Papers \ {1} : marks[h][p] = {}
      BY <1>1, <2>3 DEF PaperlessStart, Paperless
    <3>2. \A h \in Hosts : marks[h][1] \subseteq catalogue[h]
      BY <1>1, <2>3 DEF PaperlessStart, Paperless
    <3>. QED BY <3>1, <3>2 DEF MarksNamed
  <2>. QED BY <2>1, <2>2, <2>3 DEF Paperless
<1>6. ASSUME NEW c \in Askers PROVE CallSafe(c)
  <2>1. asks[c].op = "idle"
    BY <1>1 DEF ServerInit, Idle
  <2>. QED BY <2>1 DEF CallSafe, CreateSafe, MetadataSafe, ListSafe, AssignSafe
<1>. QED BY <1>2, <1>3, <1>4, <1>5, <1>6 DEF PaperlessInv

\* A step of a screen leaves the servers and the calls to them alone.
LEMMA PaperlessUntouched ==
    ASSUME PaperlessInv, UNCHANGED <<tab, serverVars>> PROVE PaperlessInv'
<1>1. UNCHANGED <<tab, host, flavour, dialects, catalogue, marks, accepted, asks, turns>>
  BY DEF serverVars
<1>2. ServerTypes' /\ DialectsFit' /\ MarksNamed' /\ NamesStay'
  BY <1>1 DEF PaperlessInv, ServerTypes, DialectsFit, MarksNamed, NamesStay
<1>3. ASSUME NEW c \in Askers PROVE CallSafe(c)'
  BY <1>1, Bystander DEF PaperlessInv
<1>. QED BY <1>2, <1>3 DEF PaperlessInv

\* What the calls to Paperless keep, for any servers, names and documents, whoever
\* changes them meanwhile and whatever gets lost (paperless-ngx.service.ts and the worker's
\* paperless-tag.client.ts).
THEOREM PaperlessInvariance == WebSpec => []PaperlessInv
<1>1. PaperlessInv /\ [WebNext]_webVars => PaperlessInv'
  <2>. SUFFICES ASSUME PaperlessInv, [WebNext]_webVars PROVE PaperlessInv'
    OBVIOUS
  <2>1. CASE PaperlessNext /\ UNCHANGED tab
    BY <2>1, PaperlessNextSafe
  <2>2. CASE UNCHANGED <<tab, serverVars>>
    BY <2>2, PaperlessUntouched
  <2>. QED BY <2>1, <2>2 DEF WebNext, webVars
<1>. QED BY <1>1, PaperlessBegins, PTL DEF WebSpec

\* What Paperless is said to have answered is so, for any servers, names, documents and
\* callers: the dialect remembered of a server is its own; createTag does not end with a
\* refusal if every request was answered and the name is not hidden behind a hundred others;
\* the metadata of a document lack a name only after a failed request; a listing that ends
\* well has every document that bore the tag throughout; no assignment takes a tag off a
\* document nobody else touched; one that is confirmed is there until somebody undoes it.
THEOREM PaperlessAlwaysTrue == WebSpec => []PaperlessAnswersTrue
<1>1. PaperlessInv => PaperlessAnswersTrue
  BY DEF PaperlessInv, PaperlessAnswersTrue, CreateFindsTag, MetadataWhole, ListingIsWhole,
         TagsPreserved, ConfirmedIsTagged, CallSafe, CreateSafe, MetadataSafe, ListSafe,
         AssignSafe, Over, At
<1>. QED BY <1>1, PaperlessInvariance, PTL

-----------------------------------------------------------------------------
(* Screens: the invariants.                                                *)

\* Of the loads of the tab at most one holds the newest number, and it never brings back
\* rows older than those shown.
NewestLoad ==
    /\ \A s, t \in Mine(Loads) : calls[s].fresh /\ calls[t].fresh => s = t
    /\ \A s \in Mine(Loads) : calls[s].fresh /\ calls[s].stage = "ok" => listRev <= calls[s].rev

\* Nothing that was read is newer than the database.
RevsPast == listRev <= rev /\ \A s \in Slots : calls[s] # None => calls[s].rev <= rev

\* LockIsSave without a cardinality.
OneSave ==
    /\ busy <=> Mine(Saves) # {}
    /\ \A s, t \in Mine(Saves) : s = t

\* These tabs have one kind of load.
OnlyLoads == Mine(Loads \ {"load"}) = {}

PlainInv == SpinnerEnds /\ OneSave /\ NewestLoad /\ RevsPast /\ OnlyLoads

DocumentsInv ==
    /\ OneSave /\ NewestLoad /\ RevsPast /\ SelectedVisible /\ ClassifyingIsClassify
    /\ \A s, t \in Mine({"classify"}) : s = t

TagSaves == {"assign", "create", "remove", "sync", "reload"}

SectionInv ==
    /\ SpinnerEnds /\ NewestLoad /\ RevsPast /\ PollingAlive
    /\ Mine(TagSaves) # {} => busy
    /\ \A s, t \in Mine(TagSaves) : s = t
    /\ \A i, j \in Live : i = j

\* Once the timer has run, the newest search is for the term typed.
SearchInv ==
    /\ waiting => form \in Ids
    /\ \A s \in Slots : calls[s] # None /\ calls[s].kind = "load" => calls[s].row \in Ids
    /\ numbered /\ ~waiting =>
          /\ \A s \in Mine({"load"}) : calls[s].fresh => calls[s].row = form
          /\ (\A s \in Mine({"load"}) : ~calls[s].fresh) => ~loading /\ list \subseteq {form}

\* A request that was not cancelled is for the policy in the address bar.
PolicyInv ==
    /\ PageIsUrl
    /\ \A s \in Slots : calls[s] # None /\ calls[s].kind = "load" =>
          /\ calls[s].mine /\ calls[s].row \in Ids
          /\ calls[s].fresh => calls[s].row = url
          /\ calls[s].stage = "ok" => calls[s].data = {calls[s].row}

-----------------------------------------------------------------------------
(* Pages.                                                                  *)

\* Who reads rows, and whose commits may make rows old.
RowReads == Underway({"rows"})
Dirty == Underway(RowWrites \cup {"createShare"})

\* PageLocksBacked without a cardinality.
LocksHeld ==
    /\ awaiting => RowReads # {}
    /\ busyId # None => \E s \in Underway(RowWrites) : posts[s].row = busyId
    /\ formLocked <=> Underway(FormWrites) # {}
    /\ \A s, t \in Underway(FormWrites) : s = t

\* Unless requests crossed, the rows are true or a read that will make them so is under
\* way; a write counts until it has been answered.
RowsFollow ==
    ~crossed =>
        /\ \A s, t \in RowReads : s = t
        /\ \A s \in RowReads : posts[s].filter = pageFilter
        /\ Dirty = {} =>
              /\ \A s \in RowReads : posts[s].stage = "ok" => posts[s].rows = RowsOf(pageFilter)
              /\ RowReads = {} => onPage = [filter |-> pageFilter, rows |-> RowsOf(pageFilter)]

\* The same for the documents of the policy in the form.
DocumentsFollow ==
    ~astray => /\ documents \in {None, policyId}
               /\ \A s \in DocumentReads : posts[s].row = policyId

\* The same for the entries of the settings page, one by one; until the first rows have
\* arrived nothing else is under way.
EntryWrites(i) == {s \in Underway({"saveSetting", "unset"}) : posts[s].row = i}

EntryTrue(i) ==
    /\ \A s, t \in ReadsOf(i) : s = t
    /\ EntryWrites(i) = {} =>
          /\ \A s \in ReadsOf(i) : posts[s].stage = "ok" => posts[s].rows[i] = table[i]
          /\ ReadsOf(i) = {} => onPage.rows[i] = table[i]

EntriesFollow ==
    /\ pageFilter = "all" /\ \A s \in Slots : posts[s] # None => posts[s].filter = "all"
    /\ awaiting <=> RowReads # {}
    /\ awaiting => \A s, t \in Slots : posts[s] # None /\ posts[t] # None => s = t
    /\ awaiting /\ ~crossed => \A s \in RowReads :
          posts[s].stage = "ok" => posts[s].rows = RowsOf("all")
    /\ ~awaiting /\ ~crossed => onPage.filter = "all" /\ \A i \in Ids : EntryTrue(i)

UsersInv == LocksHeld /\ RowsFollow
SharesInv == LocksHeld /\ RowsFollow /\ DocumentsFollow
SettingsInv == LocksHeld /\ EntriesFollow /\ TestsBacked

-----------------------------------------------------------------------------
(* Requests of a tab.                                                      *)

Kinds == Loads \cup Saves \cup Statuses
            \cup {"delete", "link", "retry", "classify", "assign", "remove", "sync"}

\* What a load is and is not.
LEMMA LoadKinds ==
    "load" \in Kinds /\ "load" \in Loads /\ "load" \in Spins /\ "load" \notin Saves
BY DEF Kinds, Loads, Spins, Saves

\* A free slot holds no request of the tab shown.
LEMMA FreeNotMine == ASSUME NEW s \in Slots, Free(s), NEW kinds PROVE s \notin Mine(kinds)
BY DEF Free, Mine, Under

\* A request just sent.
LEMMA RequestIs ==
    ASSUME NEW kind \in Kinds, NEW row \in Ids \cup {None}
    PROVE  /\ Request(kind, row) \in Fetch /\ Request(kind, row) # None
           /\ Request(kind, row).kind = kind /\ Request(kind, row).row = row
           /\ Request(kind, row).fresh /\ Request(kind, row).mine
           /\ Request(kind, row).stage = "sent" /\ Request(kind, row).rev = 0
<1>1. 0 \in 0..MaxRev
  BY TabAssumption
<1>2. Request(kind, row) \in Fetch
  BY <1>1 DEF Request, Fetch, Kinds
<1>. QED BY <1>2, TabAssumption DEF Request

\* A request under way has the fields of one.
LEMMA CallIs ==
    ASSUME TabTypeOK, NEW s \in Slots, calls[s] # None
    PROVE  /\ calls[s] \in Fetch
           /\ calls[s].kind \in Kinds /\ calls[s].row \in Ids \cup {None}
           /\ calls[s].fresh \in BOOLEAN /\ calls[s].mine \in BOOLEAN
           /\ calls[s].stage \in {"sent", "ok", "failed"}
           /\ calls[s].data \subseteq Ids /\ calls[s].rev \in 0..MaxRev
           /\ calls[s].job \in {"none", "active", "ended"}
BY DEF TabTypeOK, Fetch, Kinds

\* What a request is for stays; it may lose its number.
Fades(t) ==
    /\ calls'[t] = None <=> calls[t] = None
    /\ calls[t] # None =>
          /\ calls'[t].kind = calls[t].kind /\ calls'[t].row = calls[t].row
          /\ calls'[t].mine = calls[t].mine /\ calls'[t].stage = calls[t].stage
          /\ calls'[t].data = calls[t].data /\ calls'[t].rev = calls[t].rev
          /\ calls'[t].job = calls[t].job
          /\ calls'[t].fresh => calls[t].fresh

Typed(cs) == cs \in [Slots -> Fetch \cup {None}]

\* A request taken out of its slot leaves the others alone.
LEMMA FreedIs ==
    ASSUME TabTypeOK, NEW s \in Slots, calls' = Freed(s)
    PROVE  /\ Typed(calls') /\ calls'[s] = None
           /\ \A t \in Slots \ {s} : calls'[t] = calls[t]
BY DEF TabTypeOK, Freed, Typed

\* A request put into a slot leaves the others alone.
LEMMA SentIs ==
    ASSUME TabTypeOK, NEW s \in Slots, NEW kind \in Kinds, NEW row \in Ids \cup {None},
           calls' = Sent(s, kind, row)
    PROVE  /\ Typed(calls') /\ calls'[s] = Request(kind, row)
           /\ \A t \in Slots \ {s} : calls'[t] = calls[t]
BY RequestIs DEF TabTypeOK, Sent, Typed

\* A request that lost its number.
Aged(a) == [a EXCEPT !.fresh = FALSE]

\* A request outrun by a later one is the same request, no longer the newest.
LEMMA AgedIs ==
    ASSUME NEW a \in Fetch
    PROVE  /\ Aged(a) \in Fetch /\ Aged(a) # None
           /\ Aged(a).kind = a.kind /\ Aged(a).row = a.row
           /\ Aged(a).mine = a.mine /\ Aged(a).stage = a.stage
           /\ Aged(a).data = a.data /\ Aged(a).rev = a.rev
           /\ Aged(a).job = a.job /\ Aged(a).fresh = FALSE
BY TabAssumption DEF Fetch, Aged

\* A new number of the list (requestSeq) outruns every load under way.
LEMMA RenumberedIs ==
    ASSUME TabTypeOK
    PROVE  /\ Typed(Renumbered)
           /\ \A t \in Slots :
                 /\ Renumbered[t] = None <=> calls[t] = None
                 /\ calls[t] # None =>
                       /\ Renumbered[t] = Aged(calls[t])
                       /\ Renumbered[t] \in Fetch
<1>1. ASSUME NEW t \in Slots, calls[t] # None
      PROVE  /\ Renumbered[t] = Aged(calls[t])
             /\ Renumbered[t] \in Fetch /\ Renumbered[t] # None
  <2>1. Renumbered[t] = Aged(calls[t])
    BY <1>1 DEF Renumbered, EachCall, Aged
  <2>. QED BY <1>1, <2>1, CallIs, AgedIs
<1>2. ASSUME NEW t \in Slots, calls[t] = None PROVE Renumbered[t] = None
  BY <1>2 DEF Renumbered, EachCall
<1>. QED BY <1>1, <1>2 DEF Renumbered, EachCall, Typed

\* A load sent anew is the newest one.
LEMMA SentAnewIs ==
    ASSUME TabTypeOK, NEW s \in Slots, NEW kind \in Kinds, NEW row \in Ids \cup {None},
           calls' = SentAnew(s, kind, row)
    PROVE  /\ Typed(calls') /\ calls'[s] = Request(kind, row)
           /\ \A t \in Slots \ {s} : Fades(t) /\ (calls'[t] # None => ~calls'[t].fresh)
<1>1. /\ Typed(calls') /\ calls'[s] = Request(kind, row)
      /\ \A t \in Slots \ {s} : calls'[t] = Renumbered[t]
  BY RenumberedIs, RequestIs DEF SentAnew, Typed
<1>2. ASSUME NEW t \in Slots \ {s} PROVE Fades(t) /\ (calls'[t] # None => ~calls'[t].fresh)
  <2>1. CASE calls[t] = None
    BY <1>1, <2>1, RenumberedIs DEF Fades
  <2>2. CASE calls[t] # None
    <3>1. calls'[t] = Aged(calls[t]) /\ calls[t] \in Fetch
      BY <1>1, <2>2, RenumberedIs, CallIs
    <3>. QED BY <2>2, <3>1, AgedIs DEF Fades
  <2>. QED BY <2>1, <2>2
<1>. QED BY <1>1, <1>2

\* The tab is opened again: what was under way is not its business any more.
LEMMA RemountIs ==
    ASSUME TabTypeOK, NEW s \in Slots, Remount(s)
    PROVE  /\ Typed(calls') /\ calls'[s] = Request("load", None)
           /\ \A t \in Slots \ {s} :
                 /\ calls'[t] = None <=> calls[t] = None
                 /\ calls[t] # None => ~calls'[t].mine /\ calls'[t].rev = calls[t].rev
<1>. DEFINE left(a) == [a EXCEPT !.fresh = FALSE, !.mine = FALSE]
<1>1. /\ DOMAIN calls' = Slots /\ calls'[s] = Request("load", None)
      /\ calls' = [calls' EXCEPT ![s] = @]
      /\ \A t \in Slots \ {s} : calls'[t] = IF calls[t] = None THEN None ELSE left(calls[t])
  BY DEF Remount, EachCall
<1>2. ASSUME NEW a \in Fetch
      PROVE  left(a) \in Fetch /\ left(a) # None /\ ~left(a).mine /\ left(a).rev = a.rev
  BY TabAssumption DEF Fetch
<1>3. \A t \in Slots : calls[t] # None => calls[t] \in Fetch
  BY CallIs
<1>4. Request("load", None) \in Fetch
  BY RequestIs DEF Kinds, Loads, Spins
<1>. HIDE DEF left
<1>. QED BY <1>1, <1>2, <1>3, <1>4 DEF Typed

\* An answer of the API: the request keeps its place, its kind, its row and its number.
Replied(s) ==
    /\ calls[s] # None /\ calls'[s] # None
    /\ calls'[s].kind = calls[s].kind /\ calls'[s].row = calls[s].row
    /\ calls'[s].mine = calls[s].mine /\ calls'[s].fresh = calls[s].fresh

\* The answer of the API changes the stage of one request only.
LEMMA StageIs ==
    ASSUME TabTypeOK, NEW s \in Slots, calls[s] # None, NEW o \in {"ok", "failed"},
           calls' = [calls EXCEPT ![s].stage = o]
    PROVE  /\ Typed(calls') /\ Replied(s) /\ calls'[s].stage = o
           /\ calls'[s].rev = calls[s].rev /\ calls'[s].data = calls[s].data
           /\ \A t \in Slots \ {s} : calls'[t] = calls[t]
<1>. DEFINE a == [calls[s] EXCEPT !.stage = o]
<1>1. calls[s] \in Fetch
  BY CallIs
<1>2. calls' = [calls EXCEPT ![s] = a]
  BY DEF TabTypeOK
<1>3. /\ a \in Fetch /\ a # None /\ a.kind = calls[s].kind /\ a.row = calls[s].row
      /\ a.mine = calls[s].mine /\ a.fresh = calls[s].fresh /\ a.stage = o
      /\ a.rev = calls[s].rev /\ a.data = calls[s].data
  BY <1>1, TabAssumption DEF Fetch
<1>. HIDE DEF a
<1>. QED BY <1>2, <1>3 DEF TabTypeOK, Typed, Replied

\* The API answers a load with the rows of the table and their revision.
LEMMA ServeListIs ==
    ASSUME TabTypeOK, NEW s \in Slots, ServeList(s)
    PROVE  /\ Typed(calls') /\ Replied(s) /\ calls'[s].stage = "ok"
           /\ calls'[s].data \subseteq Ids /\ calls'[s].rev = rev
           /\ \A t \in Slots \ {s} : calls'[t] = calls[t]
<1>. DEFINE a == [calls[s] EXCEPT !.stage = "ok", !.data = Live, !.rev = rev]
<1>1. calls[s] \in Fetch /\ calls[s] # None
  BY CallIs DEF ServeList, Under
<1>2. calls' = [calls EXCEPT ![s] = a]
  BY DEF TabTypeOK, ServeList
<1>3. Live \in SUBSET Ids /\ rev \in 0..MaxRev
  BY DEF TabTypeOK, Live
<1>4. /\ a \in Fetch /\ a # None /\ a.kind = calls[s].kind /\ a.row = calls[s].row
      /\ a.mine = calls[s].mine /\ a.fresh = calls[s].fresh /\ a.stage = "ok"
      /\ a.rev = rev /\ a.data = Live
  BY <1>1, <1>3, TabAssumption DEF Fetch
<1>. HIDE DEF a
<1>. QED BY <1>1, <1>2, <1>3, <1>4 DEF TabTypeOK, Typed, Replied

-----------------------------------------------------------------------------
(* The API.                                                                *)

\* A request is answered: rows are read now, or something else happens.
ApiMove(s) ==
    /\ Typed(calls') /\ Replied(s) /\ \A t \in Slots \ {s} : calls'[t] = calls[t]
    /\ calls'[s].rev \in {calls[s].rev, rev}
    /\ calls'[s].kind \in Loads /\ calls'[s].stage = "ok" => calls'[s].rev = rev
    /\ rev' \in 0..MaxRev /\ rev <= rev'
    /\ store' \in [Ids -> {"new", "live", "gone"}]
    /\ UNCHANGED <<list, listRev, loading, form, busy, mounts>>

\* Serving a list is a step of the API alone.
LEMMA ServeListMoves ==
    ASSUME TabTypeOK, NEW s \in Slots, ServeList(s) PROVE ApiMove(s)
<1>1. rev \in Nat /\ rev <= rev
  BY DEF TabTypeOK
<1>. QED BY <1>1, ServeListIs DEF ApiMove, ServeList, TabTypeOK

\* Refusing a request is a step of the API alone.
LEMMA RefuseMoves ==
    ASSUME TabTypeOK, NEW s \in Slots, Refuse(s) PROVE ApiMove(s)
<1>1. calls[s] # None /\ calls' = [calls EXCEPT ![s].stage = "failed"]
  BY DEF Refuse
<1>2. rev \in Nat /\ rev <= rev
  BY DEF TabTypeOK
<1>. QED BY <1>1, <1>2, StageIs DEF ApiMove, Refuse, TabTypeOK

\* A commit answers a write.
LEMMA CommitMoves ==
    ASSUME TabTypeOK, NEW s \in Slots, calls[s] # None, calls[s].kind \notin Loads, NEW written,
           Commit(s, written), written \in [Ids -> {"new", "live", "gone"}]
    PROVE  ApiMove(s)
<1>1. PICK o \in {"ok", "failed"} : calls' = [calls EXCEPT ![s].stage = o]
  BY DEF Commit
<1>2. /\ Typed(calls') /\ Replied(s) /\ \A t \in Slots \ {s} : calls'[t] = calls[t]
      /\ calls'[s].rev = calls[s].rev
  BY <1>1, StageIs
<1>3. rev' \in 0..MaxRev /\ rev <= rev'
  BY TabAssumption DEF Commit, TabTypeOK
<1>. QED BY <1>2, <1>3 DEF ApiMove, Commit, Replied

\* Writing a new row is a step of the API alone.
LEMMA InsertMoves ==
    ASSUME TabTypeOK, NEW s \in Slots, NEW kind, kind \notin Loads, Insert(s, kind)
    PROVE  ApiMove(s)
<1>1. PICK i \in Ids : Commit(s, [store EXCEPT ![i] = "live"])
  BY DEF Insert
<1>2. [store EXCEPT ![i] = "live"] \in [Ids -> {"new", "live", "gone"}]
  BY DEF TabTypeOK
<1>. QED BY <1>1, <1>2, CommitMoves DEF Insert, Under

\* Writing over a row is a step of the API alone.
LEMMA ChangeMoves ==
    ASSUME TabTypeOK, NEW s \in Slots, NEW kind, kind \notin Loads, Change(s, kind)
    PROVE  ApiMove(s)
BY CommitMoves DEF Change, Under, TabTypeOK

\* Deleting a row is a step of the API alone.
LEMMA EraseMoves ==
    ASSUME TabTypeOK, NEW s \in Slots, NEW kind, kind \notin Loads, Erase(s, kind)
    PROVE  ApiMove(s)
<1>1. [store EXCEPT ![calls[s].row] = "gone"] \in [Ids -> {"new", "live", "gone"}]
  BY DEF TabTypeOK
<1>. QED BY <1>1, CommitMoves DEF Erase, Under

\* Whose request it is, and for what, no answer changes.
LEMMA MineStays ==
    ASSUME NEW s \in Slots, Replied(s), \A t \in Slots \ {s} : calls'[t] = calls[t], NEW kinds
    PROVE  Mine(kinds)' = Mine(kinds)
BY DEF Replied, Mine, Under

\* A step of the API keeps the types.
LEMMA ApiTyped == ASSUME TabTypeOK, NEW s \in Slots, ApiMove(s) PROVE TabTypeOK'
BY DEF ApiMove, TabTypeOK, Typed

\* A step of the API takes no load from a spinner.
LEMMA ApiSpinner ==
    ASSUME NEW s \in Slots, ApiMove(s), SpinnerEnds PROVE SpinnerEnds'
<1>1. Mine(Spins)' = Mine(Spins)
  BY MineStays DEF ApiMove
<1>2. \A t \in Slots : calls[t] # None => calls'[t].fresh = calls[t].fresh
  BY DEF ApiMove, Replied
<1>. QED BY <1>1, <1>2 DEF ApiMove, SpinnerEnds, Mine, Under

\* A step of the API adds no save.
LEMMA ApiSave == ASSUME NEW s \in Slots, ApiMove(s), OneSave PROVE OneSave'
<1>1. Mine(Saves)' = Mine(Saves)
  BY MineStays DEF ApiMove
<1>. QED BY <1>1 DEF ApiMove, OneSave

\* A step of the API leaves one newest load and no answer from the future.
LEMMA ApiLoads ==
    ASSUME TabTypeOK, NEW s \in Slots, ApiMove(s), NewestLoad, RevsPast
    PROVE  NewestLoad' /\ RevsPast'
<1>1. Mine(Loads)' = Mine(Loads)
  BY MineStays DEF ApiMove
<1>2. \A t \in Slots : calls[t] # None => calls'[t].fresh = calls[t].fresh
  BY DEF ApiMove, Replied
<1>3. listRev \in Nat /\ rev \in Nat /\ rev' \in Nat
      /\ \A t \in Slots : calls[t] # None => calls[t].rev \in Nat
  BY CallIs DEF TabTypeOK, ApiMove
<1>4. NewestLoad'
  <2>1. \A t, u \in Mine(Loads)' : calls'[t].fresh /\ calls'[u].fresh => t = u
    BY <1>1, <1>2 DEF NewestLoad, Mine, Under
  <2>2. ASSUME NEW t \in Mine(Loads)', calls'[t].fresh, calls'[t].stage = "ok"
        PROVE  listRev <= calls'[t].rev
    <3>1. t \in Mine(Loads) /\ t \in Slots /\ calls[t] # None /\ calls[t].kind \in Loads
      BY <1>1, <2>2 DEF Mine, Under
    <3>2. CASE t = s
      BY <2>2, <3>1, <3>2, <1>3 DEF ApiMove, Replied, RevsPast
    <3>3. CASE t # s
      BY <2>2, <3>1, <3>3 DEF ApiMove, NewestLoad
    <3>. QED BY <3>2, <3>3
  <2>. QED BY <2>1, <2>2 DEF NewestLoad, ApiMove
<1>5. RevsPast'
  <2>1. ASSUME NEW t \in Slots, calls'[t] # None PROVE calls'[t].rev <= rev'
    <3>1. calls[t] # None /\ calls[t].rev <= rev /\ calls'[t].rev \in {calls[t].rev, rev}
      BY <2>1 DEF ApiMove, Replied, RevsPast
    <3>. QED BY <1>3, <3>1 DEF ApiMove
  <2>2. listRev' <= rev'
    BY <1>3 DEF ApiMove, RevsPast
  <2>. QED BY <2>1, <2>2 DEF RevsPast
<1>. QED BY <1>4, <1>5

-----------------------------------------------------------------------------
(* The tab.                                                                *)

\* As long as the tab stays open its list does not go back.
StepsForth == mounts' = mounts => listRev' >= listRev

\* A request leaves its slot, and nothing else of the tab changes.
LEMMA IgnoreKeeps ==
    ASSUME TabTypeOK, NEW s \in Slots, Ignore(s)
    PROVE  /\ TabTypeOK' /\ StepsForth
           /\ \A kinds \in SUBSET Kinds : Mine(kinds)' = Mine(kinds)
           /\ \A t \in Slots : calls'[t] # None => calls'[t] = calls[t]
<1>1. Typed(calls') /\ calls'[s] = None /\ \A t \in Slots \ {s} : calls'[t] = calls[t]
  BY FreedIs DEF Ignore
<1>2. \A kinds \in SUBSET Kinds : Mine(kinds)' = Mine(kinds)
  BY <1>1 DEF Ignore, Mine, Under
<1>3. listRev \in Nat /\ listRev' = listRev
  BY DEF TabTypeOK, Ignore
<1>. QED BY <1>1, <1>2, <1>3 DEF Ignore, TabTypeOK, Typed, StepsForth

\* An answer nobody waits for is dropped.
LEMMA IgnorePlain ==
    ASSUME TabTypeOK, NEW s \in Slots, Ignore(s)
    PROVE  /\ SpinnerEnds => SpinnerEnds'
           /\ OneSave => OneSave'
           /\ NewestLoad /\ RevsPast => NewestLoad' /\ RevsPast'
<1>1. \A kinds \in SUBSET Kinds : Mine(kinds)' = Mine(kinds)
  BY IgnoreKeeps
<1>2. \A t \in Slots : calls'[t] # None => calls'[t] = calls[t]
  BY IgnoreKeeps
<1>3. Mine(Spins)' = Mine(Spins) /\ Mine(Saves)' = Mine(Saves) /\ Mine(Loads)' = Mine(Loads)
  BY <1>1 DEF Kinds, Loads
<1>4. /\ \A t \in Mine(Spins) : calls'[t] = calls[t]
      /\ \A t \in Mine(Loads) : calls'[t] = calls[t]
  BY <1>2, <1>3 DEF Mine, Under
<1>5. UNCHANGED <<rev, listRev, loading, busy>>
  BY DEF Ignore
<1>6. SpinnerEnds => SpinnerEnds'
  BY <1>3, <1>4, <1>5 DEF SpinnerEnds
<1>7. OneSave => OneSave'
  BY <1>3, <1>5 DEF OneSave
<1>8. NewestLoad /\ RevsPast => NewestLoad' /\ RevsPast'
  BY <1>2, <1>3, <1>4, <1>5 DEF NewestLoad, RevsPast
<1>. QED BY <1>6, <1>7, <1>8

\* A new tab waits for its one load.
LEMMA RemountPlain ==
    ASSUME TabTypeOK, NEW s \in Slots, Remount(s)
    PROVE  /\ TabTypeOK' /\ StepsForth
           /\ SpinnerEnds' /\ OneSave'
           /\ RevsPast => NewestLoad' /\ RevsPast'
           /\ \A kinds \in SUBSET Kinds : Mine(kinds)' \subseteq {s} /\ calls'[s].kind = "load"
<1>1. /\ Typed(calls') /\ calls'[s] = Request("load", None)
      /\ \A t \in Slots \ {s} :
            /\ calls'[t] = None <=> calls[t] = None
            /\ calls[t] # None => ~calls'[t].mine /\ calls'[t].rev = calls[t].rev
  BY RemountIs
<1>2. /\ calls'[s] # None /\ calls'[s].kind = "load" /\ calls'[s].fresh /\ calls'[s].mine
      /\ calls'[s].stage = "sent" /\ calls'[s].rev = 0
  <2>1. "load" \in Kinds /\ None \in Ids \cup {None}
    BY DEF Kinds, Loads, Spins
  <2>2. /\ Request("load", None) # None /\ Request("load", None).kind = "load"
        /\ Request("load", None).fresh /\ Request("load", None).mine
        /\ Request("load", None).stage = "sent" /\ Request("load", None).rev = 0
    BY <2>1, RequestIs
  <2>. QED BY <1>1, <2>2
<1>3. /\ UNCHANGED <<store, rev>> /\ list' = {} /\ listRev' = 0 /\ loading' = TRUE
      /\ form' = "closed" /\ busy' = FALSE /\ mounts < MaxMounts /\ mounts' = mounts + 1
  BY DEF Remount
<1>4. mounts' \in 1..MaxMounts /\ mounts' # mounts /\ 0 \in 0..MaxRev
  BY <1>3, TabAssumption DEF TabTypeOK
<1>5. TabTypeOK'
  BY <1>1, <1>3, <1>4 DEF TabTypeOK, Typed
<1>6. \A kinds : Mine(kinds)' \subseteq {s}
  BY <1>1 DEF Mine, Under
<1>7. s \in Mine(Spins)' /\ Mine(Saves)' = {}
  BY <1>2, <1>6 DEF Mine, Under, Spins, Saves
<1>8. SpinnerEnds' /\ OneSave'
  BY <1>2, <1>3, <1>7 DEF SpinnerEnds, OneSave
<1>9. NewestLoad'
  BY <1>2, <1>6 DEF NewestLoad
<1>10. RevsPast => RevsPast'
  BY <1>1, <1>2, <1>3 DEF RevsPast, TabTypeOK
<1>. QED BY <1>2, <1>4, <1>5, <1>6, <1>8, <1>9, <1>10 DEF StepsForth

\* What becomes of the requests that are mine when one is sent, alone or anew, or answered.
LEMMA SentMine ==
    ASSUME TabTypeOK, NEW s \in Slots, NEW kind \in Kinds, NEW row \in Ids \cup {None},
           calls' = Sent(s, kind, row) \/ calls' = SentAnew(s, kind, row), NEW kinds
    PROVE  Mine(kinds)' = (Mine(kinds) \ {s}) \cup (IF kind \in kinds THEN {s} ELSE {})
<1>1. calls'[s] = Request(kind, row) /\ \A t \in Slots \ {s} : calls'[t] = calls[t] \/ Fades(t)
  BY SentIs, SentAnewIs
<1>2. calls'[s] # None /\ calls'[s].kind = kind /\ calls'[s].mine
  BY <1>1, RequestIs
<1>3. \A t \in Slots \ {s} : t \in Mine(kinds)' <=> t \in Mine(kinds)
  BY <1>1 DEF Fades, Mine, Under
<1>4. s \in Mine(kinds)' <=> kind \in kinds
  BY <1>2 DEF Mine, Under
<1>. QED BY <1>3, <1>4 DEF Mine

\* The requests of the tab without the one answered.
LEMMA FreedMine ==
    ASSUME TabTypeOK, NEW s \in Slots, calls' = Freed(s), NEW kinds
    PROVE  Mine(kinds)' = Mine(kinds) \ {s}
<1>1. calls'[s] = None /\ \A t \in Slots \ {s} : calls'[t] = calls[t]
  BY FreedIs
<1>. QED BY <1>1 DEF Mine, Under

\* A tab that sends, resends or frees a slot keeps the types.
LEMMA SentTyped ==
    ASSUME TabTypeOK, NEW s \in Slots, NEW kind \in Kinds, NEW row \in Ids \cup {None},
           \/ calls' = Sent(s, kind, row)
           \/ calls' = SentAnew(s, kind, row)
           \/ calls' = Freed(s)
           \/ calls' = calls,
           UNCHANGED <<store, rev, mounts>>, list' \subseteq Ids, listRev' \in 0..MaxRev,
           loading' \in BOOLEAN, busy' \in BOOLEAN, form' \in {"closed", "new"} \cup Ids
    PROVE  TabTypeOK'
<1>1. Typed(calls')
  BY SentIs, SentAnewIs, FreedIs DEF Typed, TabTypeOK
<1>. QED BY <1>1 DEF TabTypeOK, Typed

\* A request that takes a new number is the only load with the newest one.
LEMMA AnewLoads ==
    ASSUME TabTypeOK, NEW s \in Slots, NEW kind \in Kinds, NEW row \in Ids \cup {None},
           calls' = SentAnew(s, kind, row), UNCHANGED <<listRev, rev>>, RevsPast
    PROVE  /\ NewestLoad' /\ RevsPast'
           /\ kind \in Spins \/ ~loading' => SpinnerEnds'
<1>1. /\ calls'[s] = Request(kind, row)
      /\ \A t \in Slots \ {s} : Fades(t) /\ (calls'[t] # None => ~calls'[t].fresh)
  BY SentAnewIs
<1>2. /\ calls'[s] # None /\ calls'[s].kind = kind /\ calls'[s].mine /\ calls'[s].fresh
      /\ calls'[s].stage = "sent" /\ calls'[s].rev = 0
  BY <1>1, RequestIs
<1>3. NewestLoad'
  <2>1. \A t \in Mine(Loads)' : calls'[t].fresh => t = s
    BY <1>1 DEF Mine, Under
  <2>. QED BY <1>2, <2>1 DEF NewestLoad
<1>4. RevsPast'
  BY <1>1, <1>2 DEF RevsPast, Fades, TabTypeOK
<1>5. ASSUME kind \in Spins PROVE SpinnerEnds'
  <2>1. s \in Mine(Spins)'
    BY <1>2, <1>5 DEF Mine, Under
  <2>. QED BY <1>2, <2>1 DEF SpinnerEnds
<1>. QED BY <1>3, <1>4, <1>5 DEF SpinnerEnds

\* A write without a new number leaves the loads alone.
LEMMA SentLoads ==
    ASSUME TabTypeOK, NEW s \in Slots, NEW kind \in Kinds \ Loads, NEW row \in Ids \cup {None},
           calls' = Sent(s, kind, row), UNCHANGED <<listRev, rev>>
    PROVE  /\ NewestLoad /\ RevsPast => NewestLoad' /\ RevsPast'
           /\ SpinnerEnds /\ calls[s] = None /\ loading' = loading => SpinnerEnds'
<1>1. calls'[s] = Request(kind, row) /\ \A t \in Slots \ {s} : calls'[t] = calls[t]
  BY SentIs
<1>2. /\ calls'[s] # None /\ calls'[s].kind = kind /\ calls'[s].rev = 0
  BY <1>1, RequestIs
<1>3. /\ Mine(Loads)' = Mine(Loads) \ {s} /\ Mine(Spins)' = Mine(Spins) \ {s}
  BY SentMine DEF Loads
<1>4. \A t \in Mine(Loads)' : calls'[t] = calls[t]
  BY <1>1, <1>3 DEF Mine
<1>5. NewestLoad => NewestLoad'
  BY <1>3, <1>4 DEF NewestLoad
<1>6. RevsPast => RevsPast'
  BY <1>1, <1>2 DEF RevsPast, TabTypeOK
<1>7. SpinnerEnds /\ calls[s] = None /\ loading' = loading => SpinnerEnds'
  BY <1>1, <1>3 DEF SpinnerEnds, Mine, Under
<1>. QED BY <1>5, <1>6, <1>7

\* An answer that brings no rows.
LEMMA FreedLoads ==
    ASSUME TabTypeOK, NEW s \in Slots, calls' = Freed(s), UNCHANGED <<listRev, rev>>
    PROVE  /\ NewestLoad /\ RevsPast => NewestLoad' /\ RevsPast'
           /\ /\ SpinnerEnds /\ loading' \in BOOLEAN /\ (loading' => loading)
              /\ s \in Mine(Spins) /\ calls[s].fresh => ~loading'
              => SpinnerEnds'
<1>1. calls'[s] = None /\ \A t \in Slots \ {s} : calls'[t] = calls[t]
  BY FreedIs
<1>2. Mine(Loads)' = Mine(Loads) \ {s} /\ Mine(Spins)' = Mine(Spins) \ {s}
  BY FreedMine
<1>3. NewestLoad => NewestLoad'
  BY <1>1, <1>2 DEF NewestLoad, Mine
<1>4. RevsPast => RevsPast'
  BY <1>1 DEF RevsPast
<1>5. ASSUME SpinnerEnds, loading' \in BOOLEAN, loading' => loading,
             s \in Mine(Spins) /\ calls[s].fresh => ~loading'
      PROVE  SpinnerEnds'
  <2>. SUFFICES ASSUME loading' PROVE \E t \in Mine(Spins)' : calls'[t].fresh
    BY DEF SpinnerEnds
  <2>1. PICK t \in Mine(Spins) : calls[t].fresh
    BY <1>5 DEF SpinnerEnds
  <2>2. t # s
    BY <1>5, <2>1
  <2>. QED BY <1>1, <1>2, <2>1, <2>2 DEF Mine
<1>. QED BY <1>3, <1>4, <1>5

\* A load that holds the newest number brings its rows.
LEMMA LoadArrives ==
    ASSUME TabTypeOK, NEW s \in Slots, calls' = Freed(s), s \in Mine(Loads),
           rev' = rev, NewestLoad, RevsPast,
           \/ listRev' = listRev
           \/ calls[s].fresh /\ calls[s].stage = "ok" /\ listRev' = calls[s].rev
    PROVE  NewestLoad' /\ RevsPast' /\ listRev' >= listRev /\ listRev' \in 0..MaxRev
<1>1. CASE listRev' = listRev
  BY <1>1, FreedLoads DEF TabTypeOK
<1>2. CASE calls[s].fresh /\ calls[s].stage = "ok" /\ listRev' = calls[s].rev
  <2>1. calls'[s] = None /\ \A t \in Slots \ {s} : calls'[t] = calls[t]
    BY FreedIs
  <2>2. Mine(Loads)' = Mine(Loads) \ {s}
    BY FreedMine
  <2>3. s \in Slots /\ calls[s] # None /\ listRev <= calls[s].rev /\ calls[s].rev <= rev
        /\ calls[s].rev \in 0..MaxRev
    BY <1>2, CallIs DEF Mine, Under, NewestLoad, RevsPast
  <2>4. \A t \in Mine(Loads)' : ~calls'[t].fresh
    BY <1>2, <2>1, <2>2 DEF NewestLoad, Mine
  <2>5. NewestLoad'
    BY <2>4 DEF NewestLoad
  <2>6. RevsPast'
    BY <1>2, <2>1, <2>3 DEF RevsPast
  <2>. QED BY <1>2, <2>3, <2>5, <2>6 DEF TabTypeOK
<1>. QED BY <1>1, <1>2

\* Whatever concerns the form only.
LEMMA FormOnly ==
    ASSUME TabTypeOK, form' \in {"closed", "new"} \cup Ids,
           UNCHANGED <<store, rev, calls, list, listRev, loading, busy, mounts>>
    PROVE  /\ TabTypeOK' /\ StepsForth
           /\ \A kinds : Mine(kinds)' = Mine(kinds)
           /\ SpinnerEnds => SpinnerEnds'
           /\ OneSave => OneSave'
           /\ NewestLoad /\ RevsPast => NewestLoad' /\ RevsPast'
<1>1. \A kinds : Mine(kinds)' = Mine(kinds)
  BY DEF Mine, Under
<1>2. TabTypeOK' /\ listRev' >= listRev
  BY DEF TabTypeOK
<1>. QED BY <1>1, <1>2 DEF StepsForth, SpinnerEnds, OneSave, NewestLoad, RevsPast

-----------------------------------------------------------------------------
(* The list tabs.                                                          *)

\* A tab that loads its rows only by its load sends nothing else that loads.
LEMMA OnlyLoadsStay ==
    ASSUME TabTypeOK, OnlyLoads, NEW s \in Slots, NEW kind \in (Kinds \ Loads) \cup {"load"},
           NEW row \in Ids \cup {None},
           calls' = Sent(s, kind, row) \/ calls' = SentAnew(s, kind, row) \/ calls' = Freed(s)
    PROVE  OnlyLoads'
<1>1. kind \in Kinds /\ kind \notin Loads \ {"load"}
  BY LoadKinds
<1>2. \/ Mine(Loads \ {"load"})' = (Mine(Loads \ {"load"}) \ {s})
                                      \cup (IF kind \in Loads \ {"load"} THEN {s} ELSE {})
      \/ Mine(Loads \ {"load"})' = Mine(Loads \ {"load"}) \ {s}
  BY <1>1, SentMine, FreedMine
<1>. QED BY <1>1, <1>2 DEF OnlyLoads

PlainKept == TabTypeOK' /\ PlainInv' /\ StepsForth

\* A step of the API keeps the invariant of a list tab.
LEMMA PlainApi ==
    ASSUME TabTypeOK, PlainInv, NEW s \in Slots, ApiMove(s) PROVE PlainKept
<1>1. listRev' >= listRev
  BY DEF ApiMove, TabTypeOK
<1>2. OnlyLoads'
  BY MineStays DEF ApiMove, PlainInv, OnlyLoads
<1>. QED BY <1>1, <1>2, ApiTyped, ApiSpinner, ApiSave, ApiLoads
         DEF PlainInv, PlainKept, StepsForth

\* The steps all list tabs share.
LEMMA PlainShared ==
    ASSUME TabTypeOK, PlainInv, NEW s \in Slots,
           ServeList(s) \/ Refuse(s) \/ Remount(s) \/ Ignore(s)
    PROVE  PlainKept
<1>1. CASE ServeList(s) \/ Refuse(s)
  BY <1>1, ServeListMoves, RefuseMoves, PlainApi
<1>2. CASE Remount(s)
  <2>1. Mine(Loads \ {"load"})' \subseteq {s} /\ calls'[s].kind = "load"
    BY <1>2, RemountPlain DEF Kinds
  <2>2. OnlyLoads'
    BY <2>1 DEF OnlyLoads, Mine, Under
  <2>. QED BY <1>2, <2>2, RemountPlain DEF PlainInv, PlainKept
<1>3. CASE Ignore(s)
  <2>1. Mine(Loads \ {"load"})' = Mine(Loads \ {"load"})
    BY <1>3, IgnoreKeeps DEF Kinds
  <2>. QED BY <1>3, <2>1, IgnoreKeeps, IgnorePlain DEF PlainInv, PlainKept, OnlyLoads
<1>. QED BY <1>1, <1>2, <1>3

\* The writes of the API keep the invariant of a list tab.
LEMMA PlainWrites ==
    ASSUME TabTypeOK, PlainInv, NEW s \in Slots,
           Insert(s, "create") \/ Change(s, "update") \/ Erase(s, "delete")
    PROVE  PlainKept
BY InsertMoves, ChangeMoves, EraseMoves, PlainApi DEF Loads, Spins

\* Opening and closing the form keeps the invariant of a list tab.
LEMMA PlainForm ==
    ASSUME TabTypeOK, PlainInv, form' \in {"closed", "new"} \cup Ids,
           UNCHANGED <<store, rev, calls, list, listRev, loading, busy, mounts>>
    PROVE  PlainKept
BY FormOnly DEF PlainInv, PlainKept, OnlyLoads

\* A load is answered; it is listed if it holds the newest number.
LEMMA PlainLoaded ==
    ASSUME TabTypeOK, PlainInv, NEW s \in Slots, Answered(s, {"load"}), calls' = Freed(s),
           \/ listRev' = listRev
           \/ calls[s].fresh /\ calls[s].stage = "ok" /\ listRev' = calls[s].rev,
           list' \in {list, calls[s].data, {}}, loading' \in {loading, FALSE},
           loading' => ~calls[s].fresh,
           UNCHANGED <<store, rev, form, busy, mounts>>
    PROVE  PlainKept
<1>1. /\ s \in Mine(Loads) /\ s \notin Mine(Saves) /\ calls[s] # None
      /\ calls[s].data \subseteq Ids
  BY CallIs DEF Answered, Mine, Under, Loads, Spins, Saves
<1>2. NewestLoad' /\ RevsPast' /\ listRev' >= listRev /\ listRev' \in 0..MaxRev
  BY <1>1, LoadArrives DEF PlainInv
<1>3. OneSave'
  BY <1>1, FreedMine DEF PlainInv, OneSave
<1>4. SpinnerEnds'
  <2>1. ASSUME loading' PROVE SpinnerEnds'
    <3>1. loading /\ ~calls[s].fresh
      BY <2>1
    <3>2. PICK t \in Mine(Spins) : calls[t].fresh
      BY <3>1 DEF PlainInv, SpinnerEnds
    <3>3. t \in Mine(Spins)' /\ calls'[t] = calls[t]
      BY <3>1, <3>2, FreedIs, FreedMine DEF Mine
    <3>. QED BY <3>2, <3>3 DEF SpinnerEnds
  <2>. QED BY <2>1 DEF SpinnerEnds
<1>5. TabTypeOK'
  <2>1. list' \subseteq Ids /\ loading' \in BOOLEAN /\ busy' \in BOOLEAN
        /\ form' \in {"closed", "new"} \cup Ids
    BY <1>1 DEF TabTypeOK
  <2>2. "load" \in Kinds
    BY DEF Kinds, Loads, Spins
  <2>. QED BY <1>2, <2>1, <2>2, SentTyped
<1>6. OnlyLoads'
  BY FreedMine DEF PlainInv, OnlyLoads
<1>. QED BY <1>2, <1>3, <1>4, <1>5, <1>6 DEF PlainInv, PlainKept, StepsForth

\* A form is submitted where none was, with a new number or without.
LEMMA PlainSubmit ==
    ASSUME TabTypeOK, PlainInv, NEW s \in Slots, Free(s), ~busy, busy' = TRUE,
           NEW kind \in Saves, NEW row \in Ids \cup {None},
           \/ calls' = Sent(s, kind, row)
           \/ calls' = SentAnew(s, kind, row) /\ ~loading,
           UNCHANGED <<store, rev, list, listRev, loading, form, mounts>>
    PROVE  PlainKept
<1>1. kind \in Kinds \ Loads /\ calls[s] = None /\ listRev' >= listRev
  BY DEF Kinds, Loads, Spins, Saves, Free, TabTypeOK
<1>2. TabTypeOK'
  BY <1>1, SentTyped DEF TabTypeOK
<1>3. NewestLoad' /\ RevsPast' /\ SpinnerEnds'
  BY <1>1, SentLoads, AnewLoads DEF PlainInv
<1>4. Mine(Saves)' = (Mine(Saves) \ {s}) \cup {s}
  BY <1>1, SentMine
<1>5. OneSave'
  BY <1>4 DEF PlainInv, OneSave
<1>6. OnlyLoads'
  <2>1. kind \in (Kinds \ Loads) \cup {"load"} /\ OnlyLoads
        /\ (calls' = Sent(s, kind, row) \/ calls' = SentAnew(s, kind, row))
    BY <1>1 DEF PlainInv
  <2>. QED BY <2>1, OnlyLoadsStay
<1>. QED BY <1>1, <1>2, <1>3, <1>5, <1>6 DEF PlainInv, PlainKept, StepsForth

\* Whatever was saved, the button is free again, and perhaps the list is read again.
LEMMA PlainSaved ==
    ASSUME TabTypeOK, PlainInv, NEW s \in Slots, Answered(s, Saves), busy' = FALSE,
           \/ calls' = Freed(s) /\ UNCHANGED loading
           \/ calls' = SentAnew(s, "load", None) /\ loading' \in BOOLEAN,
           list' \in {list, {}}, form' \in {form, "closed"},
           UNCHANGED <<store, rev, listRev, mounts>>
    PROVE  PlainKept
<1>1. /\ "load" \in Kinds /\ "load" \in Spins /\ "load" \notin Saves /\ listRev' >= listRev
      /\ s \in Mine(Saves) /\ s \notin Mine(Spins)
  BY DEF Kinds, Loads, Spins, Saves, Answered, Mine, Under, TabTypeOK
<1>2. TabTypeOK'
  BY <1>1, SentTyped DEF TabTypeOK
<1>3. NewestLoad' /\ RevsPast' /\ SpinnerEnds'
  BY <1>1, FreedLoads, AnewLoads DEF PlainInv, TabTypeOK
<1>4. Mine(Saves)' = Mine(Saves) \ {s}
  BY <1>1, FreedMine, SentMine
<1>5. OneSave'
  BY <1>1, <1>4 DEF PlainInv, OneSave
<1>6. OnlyLoads'
  BY <1>1, OnlyLoadsStay DEF PlainInv
<1>. QED BY <1>1, <1>2, <1>3, <1>5, <1>6 DEF PlainInv, PlainKept, StepsForth

\* A row is deleted: a new number, while the list is there.
LEMMA PlainDelete ==
    ASSUME TabTypeOK, PlainInv, NEW s \in Slots, Free(s), ~loading, NEW i \in Ids,
           calls' = SentAnew(s, "delete", i),
           UNCHANGED <<store, rev, list, listRev, loading, form, busy, mounts>>
    PROVE  PlainKept
<1>1. /\ "delete" \in Kinds /\ "delete" \notin Saves /\ listRev' >= listRev
      /\ s \notin Mine(Saves)
  BY DEF Kinds, Saves, Free, Mine, Under, TabTypeOK
<1>2. TabTypeOK'
  BY <1>1, SentTyped DEF TabTypeOK
<1>3. NewestLoad' /\ RevsPast' /\ SpinnerEnds'
  BY <1>1, AnewLoads DEF PlainInv
<1>4. Mine(Saves)' = Mine(Saves)
  BY <1>1, SentMine
<1>5. OnlyLoads'
  <2>1. "delete" \notin Loads
    BY DEF Loads, Spins
  <2>. QED BY <1>1, <2>1, OnlyLoadsStay DEF PlainInv
<1>. QED BY <1>1, <1>2, <1>3, <1>4, <1>5 DEF PlainInv, PlainKept, StepsForth, OneSave

\* The answer of a deletion, which may start a load of its own.
LEMMA PlainDeleted ==
    ASSUME TabTypeOK, PlainInv, NEW s \in Slots, Answered(s, {"delete"}),
           \/ calls' = Freed(s) /\ UNCHANGED loading
           \/ calls' = SentAnew(s, "load", None) /\ loading' \in BOOLEAN,
           list' \in {list, {}}, form' \in {form, "closed"},
           UNCHANGED <<store, rev, listRev, busy, mounts>>
    PROVE  PlainKept
<1>1. /\ "load" \in Kinds /\ "load" \in Spins /\ "load" \notin Saves /\ listRev' >= listRev
      /\ s \notin Mine(Saves) /\ s \notin Mine(Spins)
  BY DEF Kinds, Loads, Spins, Saves, Answered, Mine, Under, TabTypeOK
<1>2. TabTypeOK'
  BY <1>1, SentTyped DEF TabTypeOK
<1>3. NewestLoad' /\ RevsPast' /\ SpinnerEnds'
  BY <1>1, FreedLoads, AnewLoads DEF PlainInv, TabTypeOK
<1>4. Mine(Saves)' = Mine(Saves)
  BY <1>1, FreedMine, SentMine
<1>5. OnlyLoads'
  BY <1>1, OnlyLoadsStay DEF PlainInv
<1>. QED BY <1>1, <1>2, <1>3, <1>4, <1>5 DEF PlainInv, PlainKept, StepsForth, OneSave

\* Every step of the tab of covered persons (covered-persons-tab.tsx).
LEMMA PersonsSafe == ASSUME TabTypeOK, PlainInv, PersonsNext PROVE PlainKept
<1>1. CASE AddPerson \/ CancelPerson \/ \E i \in Ids : EditPerson(i)
  BY <1>1, PlainForm DEF AddPerson, CancelPerson, EditPerson
<1>2. ASSUME NEW s \in Slots, PersonsLoaded(s) PROVE PlainKept
  <2>1. /\ Answered(s, {"load"}) /\ calls' = Freed(s) /\ calls[s].fresh \in BOOLEAN
        /\ UNCHANGED <<store, rev, form, busy, mounts>>
    BY <1>2, CallIs DEF PersonsLoaded, Answered, Under
  <2>2. loading' \in {loading, FALSE} /\ (loading' => ~calls[s].fresh)
    BY <1>2, <2>1 DEF PersonsLoaded, TabTypeOK
  <2>3. /\ \/ listRev' = listRev
           \/ calls[s].fresh /\ calls[s].stage = "ok" /\ listRev' = calls[s].rev
        /\ list' \in {list, calls[s].data, {}}
    BY <1>2 DEF PersonsLoaded, Succeeded
  <2>. QED BY <2>1, <2>2, <2>3, PlainLoaded
<1>3. ASSUME NEW s \in Slots, SubmitPerson(s) PROVE PlainKept
  <2>1. \/ calls' = Sent(s, "create", None)
        \/ form \in Ids /\ calls' = Sent(s, "update", form)
    BY <1>3 DEF SubmitPerson, TabTypeOK
  <2>. QED BY <1>3, <2>1, PlainSubmit DEF SubmitPerson, Saves
<1>4. ASSUME NEW s \in Slots, PersonSaved(s) PROVE PlainKept
  BY <1>4, PlainSaved DEF PersonSaved, ReloadPersons
<1>5. ASSUME NEW s \in Slots, NEW i \in Ids, DeletePerson(s, i) PROVE PlainKept
  BY <1>5, PlainDelete DEF DeletePerson
<1>6. ASSUME NEW s \in Slots, PersonDeleted(s) PROVE PlainKept
  BY <1>6, PlainDeleted DEF PersonDeleted, ReloadPersons
<1>7. ASSUME NEW s \in Slots,
             AddCoveredPerson(s) \/ UpdateCoveredPerson(s) \/ RemoveCoveredPerson(s)
      PROVE  PlainKept
  BY <1>7, PlainWrites DEF AddCoveredPerson, UpdateCoveredPerson, RemoveCoveredPerson
<1>. QED BY <1>1, <1>2, <1>3, <1>4, <1>5, <1>6, <1>7, PlainShared DEF PersonsNext

\* Every step of the tab of links (links-tab.tsx).
LEMMA LinksSafe == ASSUME TabTypeOK, PlainInv, LinksNext PROVE PlainKept
<1>1. ASSUME NEW s \in Slots, LinkSaved(s) PROVE PlainKept
  BY <1>1, PlainSaved DEF LinkSaved, ReloadLinks, ReloadPersons
<1>2. ASSUME NEW s \in Slots, LinkDeleted(s) PROVE PlainKept
  BY <1>2, PlainDeleted DEF LinkDeleted, ReloadLinks, ReloadPersons
<1>3. ASSUME NEW s \in Slots,
             CreatePortalLink(s) \/ UpdatePortalLink(s) \/ RemovePortalLink(s)
      PROVE  PlainKept
  BY <1>3, PlainWrites DEF CreatePortalLink, UpdatePortalLink, RemovePortalLink
<1>4. CASE \/ StartCreate \/ CancelLink
           \/ \E i \in Ids : EditLink(i)
           \/ \E s \in Slots : \/ LinksLoaded(s) \/ SubmitLink(s)
                               \/ \E i \in Ids : DeleteLink(s, i)
  BY <1>4, PersonsSafe
     DEF PersonsNext, StartCreate, CancelLink, EditLink, LinksLoaded, SubmitLink, DeleteLink
<1>. QED BY <1>1, <1>2, <1>3, <1>4, PlainShared DEF LinksNext

\* Every step of the card of costs (costs-overview-card.tsx).
LEMMA CardSafe == ASSUME TabTypeOK, PlainInv, CardNext PROVE PlainKept
<1>1. CASE CancelCost \/ \E i \in Ids : EditCost(i)
  BY <1>1, PlainForm DEF CancelCost, EditCost
<1>2. ASSUME NEW s \in Slots, CostsLoaded(s) PROVE PlainKept
  BY <1>2, PlainLoaded DEF CostsLoaded, Succeeded
<1>3. ASSUME NEW s \in Slots, CreateCost(s) \/ UpdateCost(s) PROVE PlainKept
  BY <1>3, PlainSubmit DEF CreateCost, UpdateCost, Saves, TabTypeOK
<1>4. ASSUME NEW s \in Slots, CostCreated(s) \/ CostUpdated(s) PROVE PlainKept
  <2>1. Answered(s, Saves)
    BY <1>4 DEF CostCreated, CostUpdated, Answered, Under, Saves
  <2>. QED BY <1>4, <2>1, PlainSaved DEF CostCreated, CostUpdated, ReloadCosts, TabTypeOK
<1>5. ASSUME NEW s \in Slots, NEW i \in Ids, DeleteCost(s, i) PROVE PlainKept
  BY <1>5, PlainDelete DEF DeleteCost
<1>6. ASSUME NEW s \in Slots, CostDeleted(s) PROVE PlainKept
  BY <1>6, PlainDeleted DEF CostDeleted, ReloadCosts, TabTypeOK
<1>7. ASSUME NEW s \in Slots, InsertEntry(s) \/ ChangeEntry(s) \/ EraseEntry(s)
      PROVE  PlainKept
  BY <1>7, PlainWrites DEF InsertEntry, ChangeEntry, EraseEntry
<1>. QED BY <1>1, <1>2, <1>3, <1>4, <1>5, <1>6, <1>7, PlainShared DEF CardNext

-----------------------------------------------------------------------------
(* Effects that cancel the requests before them, and the billing sidebar.  *)

\* A request whose kind an effect cancels.
Given(a, kinds) == [a EXCEPT !.fresh = a.fresh /\ a.kind \notin kinds]

\* A request given up is the same request, no longer the newest.
LEMMA GivenIs ==
    ASSUME NEW a \in Fetch, NEW kinds
    PROVE  /\ Given(a, kinds) \in Fetch /\ Given(a, kinds) # None
           /\ Given(a, kinds).kind = a.kind /\ Given(a, kinds).row = a.row
           /\ Given(a, kinds).mine = a.mine /\ Given(a, kinds).stage = a.stage
           /\ Given(a, kinds).data = a.data /\ Given(a, kinds).rev = a.rev
           /\ Given(a, kinds).job = a.job
           /\ Given(a, kinds).fresh <=> a.fresh /\ a.kind \notin kinds
<1>. DEFINE b == a.fresh /\ a.kind \notin kinds
<1>1. b \in BOOLEAN /\ Given(a, kinds) = [a EXCEPT !.fresh = b]
  BY DEF Given
<1>. HIDE DEF b
<1>2. /\ Given(a, kinds) \in Fetch
      /\ Given(a, kinds).kind = a.kind /\ Given(a, kinds).row = a.row
      /\ Given(a, kinds).mine = a.mine /\ Given(a, kinds).stage = a.stage
      /\ Given(a, kinds).data = a.data /\ Given(a, kinds).rev = a.rev
      /\ Given(a, kinds).job = a.job /\ Given(a, kinds).fresh = b
  BY <1>1 DEF Fetch
<1>. QED BY <1>2, TabAssumption DEF b

\* A request is sent, and those of some kinds lose their numbers.
SentOver(s, kinds, new) ==
    /\ Typed(calls') /\ calls'[s] = new
    /\ \A t \in Slots \ {s} :
          /\ Fades(t)
          /\ calls[t] # None => (calls'[t].fresh <=> calls[t].fresh /\ calls[t].kind \notin kinds)

\* Giving up the requests of some kinds and sending one more.
LEMMA GivesUp ==
    ASSUME TabTypeOK, NEW s \in Slots, NEW kinds, NEW new \in Fetch,
           calls' = [EachCall(LAMBDA c : Given(c, kinds)) EXCEPT ![s] = new]
    PROVE  SentOver(s, kinds, new)
<1>1. /\ DOMAIN calls' = Slots /\ calls'[s] = new /\ calls' = [t \in Slots |-> calls'[t]]
      /\ \A t \in Slots \ {s} :
            calls'[t] = IF calls[t] = None THEN None ELSE Given(calls[t], kinds)
  BY DEF EachCall
<1>2. \A t \in Slots : calls[t] # None => calls[t] \in Fetch
  BY CallIs
<1>3. ASSUME NEW t \in Slots \ {s}
      PROVE  /\ calls'[t] \in Fetch \cup {None} /\ Fades(t)
             /\ calls[t] # None =>
                   (calls'[t].fresh <=> calls[t].fresh /\ calls[t].kind \notin kinds)
  <2>1. CASE calls[t] = None
    BY <1>1, <2>1 DEF Fades
  <2>2. CASE calls[t] # None
    <3>. DEFINE g == Given(calls[t], kinds)
    <3>1. calls'[t] = g /\ calls[t] \in Fetch
      BY <1>1, <1>2, <2>2
    <3>2. /\ g \in Fetch /\ g # None
          /\ g.kind = calls[t].kind /\ g.row = calls[t].row
          /\ g.mine = calls[t].mine /\ g.stage = calls[t].stage
          /\ g.data = calls[t].data /\ g.rev = calls[t].rev /\ g.job = calls[t].job
          /\ g.fresh <=> calls[t].fresh /\ calls[t].kind \notin kinds
      BY <3>1, GivenIs
    <3>. HIDE DEF g
    <3>3. Fades(t)
      BY <2>2, <3>1, <3>2 DEF Fades
    <3>. QED BY <3>1, <3>2, <3>3
  <2>. QED BY <2>1, <2>2
<1>4. Typed(calls')
  BY <1>1, <1>3 DEF Typed
<1>. QED BY <1>1, <1>3, <1>4 DEF SentOver

\* The requests of the tab after one was put in the place of another.
LEMMA SentOverMine ==
    ASSUME NEW s \in Slots, NEW given, NEW new, SentOver(s, given, new), new # None, new.mine,
           NEW kinds
    PROVE  Mine(kinds)' = (Mine(kinds) \ {s}) \cup (IF new.kind \in kinds THEN {s} ELSE {})
<1>1. calls'[s] = new /\ \A t \in Slots \ {s} : Fades(t)
  BY DEF SentOver
<1>2. \A t \in Slots \ {s} : t \in Mine(kinds)' <=> t \in Mine(kinds)
  BY <1>1 DEF Fades, Mine, Under
<1>3. s \in Mine(kinds)' <=> new.kind \in kinds
  BY <1>1 DEF Mine, Under
<1>. QED BY <1>2, <1>3 DEF Mine

\* Billing documents: a load is asked for without a spinner.
LEMMA EntriesChangedSafe ==
    ASSUME TabTypeOK, PlainInv, NEW s \in Slots, EntriesChanged(s) PROVE PlainKept
<1>. DEFINE new == Request("load", None)
<1>1. /\ new \in Fetch /\ new # None /\ new.kind = "load" /\ new.fresh /\ new.mine
      /\ new.stage = "sent" /\ new.rev = 0
  BY RequestIs, LoadKinds
<1>2. SentOver(s, {"load"}, new)
  <2>1. calls' = [EachCall(LAMBDA c : Given(c, {"load"})) EXCEPT ![s] = new]
    BY DEF EntriesChanged, EachCall, Given
  <2>. QED BY <1>1, <2>1, GivesUp
<1>. HIDE DEF new
<1>3. /\ calls[s] = None /\ UNCHANGED <<store, rev, list, listRev, loading, form, busy, mounts>>
      /\ Typed(calls') /\ calls'[s] = new /\ \A t \in Slots \ {s} : Fades(t)
  BY <1>2 DEF EntriesChanged, Free, SentOver
<1>4. TabTypeOK' /\ listRev' >= listRev
  BY <1>3 DEF TabTypeOK, Typed
<1>5. /\ Mine(Saves)' = Mine(Saves) \ {s} /\ Mine(Loads)' = Mine(Loads) \cup {s}
      /\ Mine(Loads \ {"load"})' = Mine(Loads \ {"load"}) \ {s}
      /\ s \in Mine(Spins)' /\ s \notin Mine(Saves)
  <2>1. ASSUME NEW kinds
        PROVE  Mine(kinds)' = (Mine(kinds) \ {s}) \cup (IF "load" \in kinds THEN {s} ELSE {})
    BY <1>1, <1>2, SentOverMine
  <2>2. "load" \notin Saves /\ "load" \in Loads /\ "load" \in Spins
    BY LoadKinds
  <2>3. ASSUME NEW kinds PROVE s \notin Mine(kinds)
    BY <1>3, FreeNotMine DEF Free
  <2>. QED BY <2>1, <2>2, <2>3
<1>6. OneSave' /\ OnlyLoads'
  BY <1>3, <1>5 DEF PlainInv, OneSave, OnlyLoads
<1>7. SpinnerEnds'
  BY <1>1, <1>3, <1>5 DEF SpinnerEnds
<1>8. NewestLoad'
  <2>1. \A t \in Mine(Loads) : calls[t].kind = "load"
    BY DEF PlainInv, OnlyLoads, Mine, Under
  <2>2. \A t \in Mine(Loads)' : calls'[t].fresh => t = s
    BY <1>2, <1>5, <2>1 DEF SentOver, Mine, Under
  <2>. QED BY <1>1, <1>3, <2>2 DEF NewestLoad
<1>9. RevsPast'
  BY <1>1, <1>3 DEF PlainInv, RevsPast, Fades, TabTypeOK
<1>. QED BY <1>4, <1>6, <1>7, <1>8, <1>9 DEF PlainInv, PlainKept, StepsForth

\* Every step of the policies in the sidebar.
LEMMA SidebarSafe == ASSUME TabTypeOK, PlainInv, SidebarNext PROVE PlainKept
<1>1. CASE EntryWritten
  <2>1. PICK i \in Ids :
           store' = [store EXCEPT ![i] = IF store[i] = "live" THEN "gone" ELSE "live"]
    BY <1>1 DEF EntryWritten
  <2>2. store' \in [Ids -> {"new", "live", "gone"}]
    BY <2>1 DEF TabTypeOK
  <2>3. rev' = rev + 1 /\ rev' \in 0..MaxRev
        /\ UNCHANGED <<calls, list, listRev, loading, form, busy, mounts>>
    BY <1>1, TabAssumption DEF EntryWritten, TabTypeOK
  <2>4. TabTypeOK' /\ listRev' >= listRev
    BY <2>2, <2>3 DEF TabTypeOK
  <2>5. RevsPast'
    <3>1. /\ rev \in Nat /\ listRev \in Nat
          /\ \A t \in Slots : calls[t] # None => calls[t].rev \in Nat
      BY CallIs DEF TabTypeOK
    <3>. QED BY <2>3, <3>1 DEF PlainInv, RevsPast
  <2>6. \A kinds : Mine(kinds)' = Mine(kinds)
    BY <2>3 DEF Mine, Under
  <2>7. SpinnerEnds' /\ OneSave' /\ NewestLoad' /\ OnlyLoads'
    BY <2>3, <2>6 DEF PlainInv, SpinnerEnds, OneSave, NewestLoad, OnlyLoads
  <2>. QED BY <2>4, <2>5, <2>7 DEF PlainInv, PlainKept, StepsForth
<1>2. ASSUME NEW s \in Slots, BillingLoaded(s) PROVE PlainKept
  BY <1>2, PlainLoaded DEF BillingLoaded, Succeeded
<1>3. ASSUME NEW s \in Slots, SuggestionArrives(s) PROVE PlainKept
  <2>1. Answered(s, Saves)
    BY <1>3 DEF SuggestionArrives, Answered, Under, Saves
  <2>. QED BY <1>3, <2>1, PlainSaved DEF SuggestionArrives
<1>4. ASSUME NEW s \in Slots, Suggest(s) PROVE PlainKept
  <2>1. calls[s] # None /\ calls[s].kind \notin Loads
        /\ calls' = [calls EXCEPT ![s].stage = "ok"]
        /\ UNCHANGED <<store, rev, list, listRev, loading, form, busy, mounts>>
    BY <1>4 DEF Suggest, Under, Loads, Spins
  <2>2. rev \in Nat /\ rev <= rev /\ rev \in 0..MaxRev /\ store \in [Ids -> {"new", "live", "gone"}]
    BY DEF TabTypeOK
  <2>3. ApiMove(s)
    BY <2>1, <2>2, StageIs DEF ApiMove, Replied
  <2>. QED BY <2>3, PlainApi
<1>5. ASSUME NEW s \in Slots, NEW i \in Ids, RequestSuggestion(s, i) PROVE PlainKept
  BY <1>5, PlainSubmit DEF RequestSuggestion, Saves
<1>. QED BY <1>1, <1>2, <1>3, <1>4, <1>5, EntriesChangedSafe, PlainShared DEF SidebarNext

-----------------------------------------------------------------------------
(* The documents tab.                                                      *)

OneClassify == ClassifyingIsClassify /\ \A s, t \in Mine({"classify"}) : s = t

DocKept == DocTypeOK' /\ DocumentsInv' /\ StepsForth

\* What is shown is of the rows read, and what is ticked of what is shown.
LEMMA ShownTicked ==
    ASSUME DocTypeOK, NEW docs \in SUBSET Ids, ShowDocuments(docs)
    PROVE  list' \subseteq Ids /\ passing' \subseteq Ids /\ selected' \subseteq Ids
           /\ SelectedVisible'
BY DEF DocTypeOK, ShowDocuments, PruneSelection, SelectedVisible, Visible

\* The API answers.
LEMMA DocApi ==
    ASSUME DocTypeOK, DocumentsInv, NEW s \in Slots, ApiMove(s), UNCHANGED docVars
    PROVE  DocKept
<1>1. TabTypeOK' /\ StepsForth
  BY ApiTyped DEF DocTypeOK, ApiMove, StepsForth, TabTypeOK
<1>2. OneSave' /\ NewestLoad' /\ RevsPast'
  BY ApiSave, ApiLoads DEF DocTypeOK, DocumentsInv
<1>3. Mine({"classify"})' = Mine({"classify"})
  BY MineStays DEF ApiMove
<1>4. list' = list /\ UNCHANGED <<passing, selected, classifying>>
  BY DEF ApiMove, docVars
<1>. QED BY <1>1, <1>2, <1>3, <1>4
         DEF DocKept, DocumentsInv, DocTypeOK, ClassifyingIsClassify, SelectedVisible, Visible

\* A request is sent, and a lock is taken if its kind has one.
LEMMA DocSent ==
    ASSUME DocTypeOK, DocumentsInv, NEW s \in Slots, Free(s), NEW kind \in Kinds,
           NEW row \in Ids \cup {None},
           calls' = SentAnew(s, kind, row) \/ (kind \notin Loads /\ calls' = Sent(s, kind, row)),
           IF kind \in Saves THEN ~busy /\ busy' = TRUE ELSE busy' = busy,
           IF kind = "classify" THEN ~classifying /\ classifying' = TRUE
                                ELSE classifying' = classifying,
           UNCHANGED <<store, rev, list, listRev, loading, form, mounts, passing, selected>>
    PROVE  DocKept
<1>1. \A kinds : s \notin Mine(kinds)
  BY FreeNotMine
<1>2. busy' \in BOOLEAN /\ classifying' \in BOOLEAN
  BY DEF DocTypeOK, TabTypeOK
<1>3. TabTypeOK' /\ StepsForth
  BY <1>2, SentTyped DEF DocTypeOK, TabTypeOK, StepsForth
<1>4. NewestLoad' /\ RevsPast'
  BY SentLoads, AnewLoads DEF DocTypeOK, DocumentsInv
<1>5. Mine(Saves)' = (Mine(Saves) \ {s}) \cup (IF kind \in Saves THEN {s} ELSE {})
  BY SentMine DEF DocTypeOK
<1>6. OneSave'
  BY <1>1, <1>5 DEF DocumentsInv, OneSave
<1>7. Mine({"classify"})'
          = (Mine({"classify"}) \ {s}) \cup (IF kind \in {"classify"} THEN {s} ELSE {})
  BY SentMine DEF DocTypeOK
<1>8. OneClassify'
  BY <1>1, <1>7 DEF DocumentsInv, ClassifyingIsClassify, OneClassify
<1>9. SelectedVisible' /\ passing' \subseteq Ids /\ selected' \subseteq Ids
  BY DEF DocumentsInv, SelectedVisible, Visible, DocTypeOK
<1>. QED BY <1>2, <1>3, <1>4, <1>6, <1>8, <1>9 DEF DocKept, DocTypeOK, DocumentsInv, OneClassify

\* A request is done, its lock goes, and perhaps the list is read again.
LEMMA DocDone ==
    ASSUME DocTypeOK, DocumentsInv, NEW s \in Slots, NEW kind, kind \notin Loads,
           Answered(s, {kind}),
           \/ calls' = Freed(s) /\ UNCHANGED <<list, loading, passing, selected>>
           \/ calls' = SentAnew(s, "load", None) /\ ShowDocuments({}) /\ loading' = TRUE,
           busy' = IF kind \in Saves THEN FALSE ELSE busy,
           classifying' = IF kind = "classify" THEN FALSE ELSE classifying,
           form' \in {form, "closed"},
           UNCHANGED <<store, rev, listRev, mounts>>
    PROVE  DocKept
<1>1. /\ s \in Mine({kind}) /\ (kind \in Saves => s \in Mine(Saves))
      /\ kind \notin Saves => s \notin Mine(Saves)
      /\ kind # "classify" => s \notin Mine({"classify"})
  BY DEF Answered, Mine, Under
<1>2. busy' \in BOOLEAN /\ classifying' \in BOOLEAN
  BY DEF DocTypeOK, TabTypeOK
<1>3. /\ list' \subseteq Ids /\ passing' \subseteq Ids /\ selected' \subseteq Ids
      /\ SelectedVisible' /\ loading' \in BOOLEAN
  <2>1. CASE UNCHANGED <<list, loading, passing, selected>>
    BY <2>1 DEF DocTypeOK, TabTypeOK, DocumentsInv, SelectedVisible, Visible
  <2>2. CASE ShowDocuments({}) /\ loading' = TRUE
    BY <2>2, ShownTicked
  <2>. QED BY <2>1, <2>2
<1>4. calls' = Freed(s) \/ calls' = SentAnew(s, "load", None)
  OBVIOUS
<1>5. TabTypeOK' /\ StepsForth
  <2>1. form' \in {"closed", "new"} \cup Ids /\ TabTypeOK /\ listRev' \in 0..MaxRev
    BY DEF DocTypeOK, TabTypeOK
  <2>2. TabTypeOK'
    BY <1>2, <1>3, <1>4, <2>1, SentTyped, LoadKinds
  <2>3. listRev' >= listRev
    BY <2>1
  <2>. QED BY <2>2, <2>3 DEF StepsForth
<1>6. NewestLoad' /\ RevsPast'
  BY <1>4, FreedLoads, AnewLoads, LoadKinds DEF DocTypeOK, DocumentsInv
<1>7. Mine(Saves)' = Mine(Saves) \ {s} /\ Mine({"classify"})' = Mine({"classify"}) \ {s}
  BY <1>4, FreedMine, SentMine, LoadKinds DEF DocTypeOK
<1>8. OneSave'
  BY <1>1, <1>7 DEF DocumentsInv, OneSave
<1>9. OneClassify'
  BY <1>1, <1>7 DEF DocumentsInv, ClassifyingIsClassify, OneClassify
<1>. QED BY <1>2, <1>3, <1>5, <1>6, <1>8, <1>9 DEF DocKept, DocTypeOK, DocumentsInv, OneClassify

\* Rows arrive, with a spinner or without.
LEMMA DocArrive ==
    ASSUME DocTypeOK, DocumentsInv, NEW s \in Slots, NEW kind \in {"load", "quiet"},
           Answered(s, {kind}), calls' = Freed(s),
           \/ /\ Succeeded(s, {kind}) /\ calls[s].fresh
              /\ ShowDocuments(calls[s].data) /\ listRev' = calls[s].rev
           \/ UNCHANGED <<list, listRev, passing, selected>>,
           loading' \in BOOLEAN,
           UNCHANGED <<store, rev, form, busy, mounts, classifying>>
    PROVE  DocKept
<1>1. /\ s \in Mine(Loads) /\ s \notin Mine(Saves) /\ s \notin Mine({"classify"})
      /\ calls[s] # None /\ calls[s].data \subseteq Ids
  BY CallIs DEF Answered, Mine, Under, Loads, Spins, Saves, DocTypeOK
<1>2. NewestLoad' /\ RevsPast' /\ listRev' >= listRev /\ listRev' \in 0..MaxRev
  BY <1>1, LoadArrives DEF DocTypeOK, DocumentsInv, Succeeded
<1>3. /\ list' \subseteq Ids /\ passing' \subseteq Ids /\ selected' \subseteq Ids
      /\ SelectedVisible'
  <2>1. CASE UNCHANGED <<list, listRev, passing, selected>>
    BY <2>1 DEF DocTypeOK, TabTypeOK, DocumentsInv, SelectedVisible, Visible
  <2>2. CASE ShowDocuments(calls[s].data)
    BY <1>1, <2>2, ShownTicked
  <2>. QED BY <2>1, <2>2
<1>4. TabTypeOK'
  BY <1>2, <1>3, SentTyped, LoadKinds DEF DocTypeOK, TabTypeOK
<1>5. Mine(Saves)' = Mine(Saves) /\ Mine({"classify"})' = Mine({"classify"})
  BY <1>1, FreedMine DEF DocTypeOK
<1>. QED BY <1>2, <1>3, <1>4, <1>5
         DEF DocKept, DocTypeOK, DocumentsInv, OneSave, ClassifyingIsClassify, StepsForth

\* Requests that read nothing but what they are told.
LEMMA DocumentsWriteSafe ==
    ASSUME DocTypeOK, DocumentsInv, NEW s \in Slots,
           \/ StoreDocument(s) \/ RemoveDocument(s) \/ LinkDocument(s)
           \/ RetryTagging(s) \/ ClassifyDocuments(s)
           \/ (ServeList(s) \/ Refuse(s)) /\ UNCHANGED docVars
    PROVE  DocKept
<1>1. TabTypeOK /\ UNCHANGED docVars
  BY DEF DocTypeOK, StoreDocument, RemoveDocument, LinkDocument, RetryTagging, ClassifyDocuments
<1>2. {"create", "delete", "link", "retry", "classify"} \cap Loads = {}
  BY DEF Loads, Spins
<1>3. CASE StoreDocument(s) \/ RemoveDocument(s) \/ RetryTagging(s)
  BY <1>1, <1>2, <1>3, InsertMoves, EraseMoves, ChangeMoves, DocApi
     DEF StoreDocument, RemoveDocument, RetryTagging
<1>4. CASE LinkDocument(s)
  <2>1. PICK i \in Ids : Commit(s, [store EXCEPT ![i] = "live"])
    BY <1>4 DEF LinkDocument
  <2>2. [store EXCEPT ![i] = "live"] \in [Ids -> {"new", "live", "gone"}]
    BY <1>1 DEF TabTypeOK
  <2>3. calls[s] # None /\ calls[s].kind \notin Loads
    BY <1>2, <1>4 DEF LinkDocument, Under
  <2>. QED BY <1>1, <2>1, <2>2, <2>3, CommitMoves, DocApi
<1>5. CASE ClassifyDocuments(s)
  <2>1. calls[s] # None /\ calls[s].kind \notin Loads /\ Commit(s, store)
    BY <1>2, <1>5 DEF ClassifyDocuments, Under
  <2>2. store \in [Ids -> {"new", "live", "gone"}]
    BY <1>1 DEF TabTypeOK
  <2>. QED BY <1>1, <2>1, <2>2, CommitMoves, DocApi
<1>6. CASE ServeList(s) \/ Refuse(s)
  BY <1>1, <1>6, ServeListMoves, RefuseMoves, DocApi
<1>. QED BY <1>3, <1>4, <1>5, <1>6

\* Every step of the documents tab (documents-tab.tsx).
LEMMA DocumentsSafe == ASSUME DocTypeOK, DocumentsInv, DocumentsNext PROVE DocKept
<1>1. TabTypeOK
  BY DEF DocTypeOK
<1>2. /\ {"create", "delete", "link", "retry", "classify", "quiet"} \subseteq Kinds
      /\ {"create", "delete", "link", "retry", "classify"} \cap Loads = {}
      /\ "create" \in Saves /\ {"delete", "link", "retry", "classify", "quiet"} \cap Saves = {}
  BY DEF Kinds, Loads, Spins, Saves
<1>3. CASE OpenUpload \/ CancelUpload
  <2>1. form' \in {"closed", "new"} \cup Ids /\ UNCHANGED docVars
        /\ UNCHANGED <<store, rev, calls, list, listRev, loading, busy, mounts>>
    BY <1>3 DEF OpenUpload, CancelUpload, docVars
  <2>2. \A kinds : Mine(kinds)' = Mine(kinds)
    BY <1>1, <2>1, FormOnly
  <2>3. TabTypeOK' /\ StepsForth /\ OneSave' /\ NewestLoad' /\ RevsPast'
    BY <1>1, <2>1, FormOnly DEF DocumentsInv
  <2>. QED BY <2>1, <2>2, <2>3
           DEF DocKept, DocTypeOK, DocumentsInv, ClassifyingIsClassify, SelectedVisible, Visible, docVars
<1>4. CASE \/ \E shown \in SUBSET Ids : SetFilter(shown)
           \/ \E i \in Ids : ToggleSelected(i)
  <2>1. UNCHANGED tabVars /\ classifying' = classifying
    BY <1>4 DEF SetFilter, ToggleSelected
  <2>2. SelectedVisible' /\ passing' \subseteq Ids /\ selected' \subseteq Ids
    <3>1. ASSUME NEW shown \in SUBSET Ids, SetFilter(shown)
          PROVE  SelectedVisible' /\ passing' \subseteq Ids /\ selected' \subseteq Ids
      BY <2>1, <3>1
         DEF SetFilter, PruneSelection, SelectedVisible, Visible, DocTypeOK, DocumentsInv, tabVars
    <3>2. ASSUME NEW i \in Ids, ToggleSelected(i)
          PROVE  SelectedVisible' /\ passing' \subseteq Ids /\ selected' \subseteq Ids
      BY <2>1, <3>2 DEF ToggleSelected, SelectedVisible, Visible, DocTypeOK, DocumentsInv, tabVars
    <3>. QED BY <1>4, <3>1, <3>2
  <2>3. TabTypeOK' /\ StepsForth
    BY <1>1, <2>1 DEF tabVars, TabTypeOK, StepsForth
  <2>4. \A kinds : Mine(kinds)' = Mine(kinds)
    BY <2>1 DEF tabVars, Mine, Under
  <2>. QED BY <2>1, <2>2, <2>3, <2>4
           DEF DocKept, DocTypeOK, DocumentsInv, OneSave, NewestLoad, RevsPast,
               ClassifyingIsClassify, tabVars
<1>5. ASSUME NEW s \in Slots, DocumentsLoaded(s) \/ DocumentsRefreshed(s) PROVE DocKept
  <2>1. calls[s] # None /\ loading' \in BOOLEAN
    BY <1>1, <1>5, CallIs DEF DocumentsLoaded, DocumentsRefreshed, Answered, Under, TabTypeOK
  <2>2. CASE DocumentsLoaded(s)
    BY <2>1, <2>2, DocArrive DEF DocumentsLoaded
  <2>3. CASE DocumentsRefreshed(s)
    BY <2>1, <2>3, DocArrive DEF DocumentsRefreshed
  <2>. QED BY <1>5, <2>2, <2>3
<1>6. ASSUME NEW s \in Slots, RefreshDocumentsQuiet(s) PROVE DocKept
  BY <1>2, <1>6, DocSent DEF RefreshDocumentsQuiet, docVars
<1>7. ASSUME NEW s \in Slots, SubmitUpload(s) PROVE DocKept
  BY <1>2, <1>7, DocSent DEF SubmitUpload, docVars
<1>8. ASSUME NEW s \in Slots, UploadDone(s) PROVE DocKept
  BY <1>2, <1>8, DocDone DEF UploadDone, ReloadDocuments
<1>9. ASSUME NEW s \in Slots, NEW kind \in {"link", "retry", "delete"}, NEW row \in Ids \cup {None},
             Click(s, kind, row)
      PROVE  DocKept
  BY <1>2, <1>9, DocSent DEF Click, docVars
<1>10. ASSUME NEW s \in Slots, ClickDone(s) PROVE DocKept
  <2>1. PICK kind \in {"link", "retry", "delete"} : Answered(s, {kind})
    BY <1>10 DEF ClickDone, Answered, Under
  <2>. QED BY <1>2, <1>10, <2>1, DocDone DEF ClickDone, ReloadDocuments
<1>11. ASSUME NEW s \in Slots, HandleBulkClassify(s) PROVE DocKept
  BY <1>2, <1>11, DocSent DEF HandleBulkClassify
<1>12. ASSUME NEW s \in Slots, BulkClassified(s) PROVE DocKept
  BY <1>2, <1>12, DocDone DEF BulkClassified, ReloadDocuments
<1>13. ASSUME NEW s \in Slots, Ignore(s), UNCHANGED docVars PROVE DocKept
  <2>1. TabTypeOK' /\ StepsForth /\ Mine({"classify"})' = Mine({"classify"}) /\ list' = list
    BY <1>1, <1>2, <1>13, IgnoreKeeps DEF Ignore
  <2>2. OneSave' /\ NewestLoad' /\ RevsPast'
    BY <1>1, <1>13, IgnorePlain DEF DocumentsInv
  <2>. QED BY <1>13, <2>1, <2>2
           DEF DocKept, DocTypeOK, DocumentsInv, ClassifyingIsClassify, SelectedVisible, Visible, docVars
<1>14. ASSUME NEW s \in Slots, RemountDocuments(s) PROVE DocKept
  <2>1. Remount(s) /\ passing' = Ids /\ selected' = {} /\ classifying' = FALSE
    BY <1>14 DEF RemountDocuments
  <2>2. /\ TabTypeOK' /\ StepsForth /\ OneSave' /\ NewestLoad' /\ RevsPast'
        /\ Mine({"classify"})' \subseteq {s} /\ calls'[s].kind = "load"
    BY <1>1, <1>2, <2>1, RemountPlain DEF DocumentsInv
  <2>3. Mine({"classify"})' = {}
    BY <2>2 DEF Mine, Under
  <2>. QED BY <2>1, <2>2, <2>3
           DEF DocKept, DocTypeOK, DocumentsInv, ClassifyingIsClassify, SelectedVisible
<1>. QED
  BY <1>3, <1>4, <1>5, <1>6, <1>7, <1>8, <1>9, <1>10, <1>11, <1>12, <1>13, <1>14,
     DocumentsWriteSafe
     DEF DocumentsNext, HandleLinkPaperless, HandleRetryTagging, HandleDelete

-----------------------------------------------------------------------------
(* The searches.                                                           *)

SearchTypes == TabTypeOK /\ numbered \in BOOLEAN /\ waiting \in BOOLEAN
SearchKept == SearchTypes' /\ SearchInv' /\ listRev' = listRev

\* A term too short to be searched gives up the searches under way.
LEMMA TypeTooShortSafe ==
    ASSUME SearchTypes, SearchInv, TypeTooShort PROVE SearchKept
<1>1. /\ form' = "closed" /\ waiting' = FALSE /\ list' = {} /\ loading' \in BOOLEAN
      /\ numbered' = numbered /\ (numbered => ~loading')
      /\ calls' = IF numbered THEN Renumbered ELSE calls
      /\ UNCHANGED <<store, rev, listRev, busy, mounts>>
  BY DEF TypeTooShort, SearchTypes
<1>2. Typed(calls')
  BY <1>1, RenumberedIs DEF SearchTypes, TabTypeOK, Typed
<1>3. SearchTypes'
  BY <1>1, <1>2 DEF SearchTypes, TabTypeOK, Typed
<1>4. ASSUME NEW t \in Slots, calls'[t] # None
      PROVE  /\ calls[t] # None /\ calls'[t].kind = calls[t].kind /\ calls'[t].row = calls[t].row
             /\ numbered => ~calls'[t].fresh
  <2>1. CASE numbered
    <3>1. calls'[t] = Renumbered[t] /\ calls[t] # None /\ calls[t] \in Fetch
      BY <1>1, <1>4, <2>1, RenumberedIs, CallIs DEF SearchTypes
    <3>2. calls'[t] = Aged(calls[t])
      BY <3>1, RenumberedIs DEF SearchTypes
    <3>. QED BY <3>1, <3>2, AgedIs
  <2>2. CASE ~numbered
    BY <1>1, <1>4, <2>2
  <2>. QED BY <2>1, <2>2
<1>5. \A t \in Slots : calls'[t] # None /\ calls'[t].kind = "load" => calls'[t].row \in Ids
  BY <1>4 DEF SearchInv
<1>6. numbered' => \A t \in Mine({"load"})' : ~calls'[t].fresh
  BY <1>1, <1>4 DEF Mine, Under
<1>. QED BY <1>1, <1>3, <1>5, <1>6 DEF SearchKept, SearchInv

\* Every step of the search for documents in Paperless.
LEMMA SearchSafe == ASSUME SearchTypes, SearchInv, SearchNext PROVE SearchKept
<1>1. TabTypeOK /\ numbered \in BOOLEAN /\ waiting \in BOOLEAN
  BY DEF SearchTypes
<1>2. ASSUME NEW i \in Ids, TypeTerm(i) PROVE SearchKept
  BY <1>1, <1>2 DEF TypeTerm, SearchKept, SearchTypes, SearchInv, TabTypeOK
<1>3. ASSUME NEW s \in Slots, SendSearch(s) PROVE SearchKept
  <2>1. /\ form \in Ids /\ Free(s) /\ waiting' = FALSE /\ numbered' = numbered
        /\ calls' = IF numbered THEN SentAnew(s, "load", form) ELSE Sent(s, "load", form)
        /\ UNCHANGED <<store, rev, list, listRev, loading, form, busy, mounts>>
    BY <1>3 DEF SendSearch, SearchInv
  <2>2. /\ Typed(calls') /\ calls'[s] = Request("load", form)
        /\ \A t \in Slots \ {s} :
              /\ calls'[t] = calls[t] \/ Fades(t)
              /\ numbered /\ calls'[t] # None => ~calls'[t].fresh
    BY <1>1, <2>1, SentIs, SentAnewIs, LoadKinds
  <2>3. /\ calls'[s] # None /\ calls'[s].kind = "load" /\ calls'[s].row = form
        /\ calls'[s].fresh /\ calls'[s].mine
    BY <2>1, <2>2, RequestIs, LoadKinds
  <2>4. SearchTypes'
    BY <1>1, <2>1, <2>2 DEF SearchTypes, TabTypeOK, Typed
  <2>5. \A t \in Slots : calls'[t] # None /\ calls'[t].kind = "load" => calls'[t].row \in Ids
    BY <2>1, <2>2, <2>3 DEF SearchInv, Fades
  <2>6. s \in Mine({"load"})'
    BY <2>3 DEF Mine, Under
  <2>7. numbered => \A t \in Mine({"load"})' : calls'[t].fresh => calls'[t].row = form'
    BY <2>1, <2>2, <2>3 DEF Mine, Under
  <2>. QED BY <2>1, <2>3, <2>4, <2>5, <2>6, <2>7 DEF SearchKept, SearchInv
<1>4. ASSUME NEW s \in Slots, ServeSearch(s) PROVE SearchKept
  <2>1. PICK o \in {"ok", "failed"} : calls' = [calls EXCEPT ![s].stage = o]
    BY <1>4 DEF ServeSearch
  <2>2. /\ Typed(calls') /\ Replied(s) /\ \A t \in Slots \ {s} : calls'[t] = calls[t]
    BY <1>1, <1>4, <2>1, StageIs DEF ServeSearch, Under
  <2>3. UNCHANGED <<store, rev, list, listRev, loading, form, busy, mounts, numbered, waiting>>
    BY <1>4 DEF ServeSearch, searchVars
  <2>4. Mine({"load"})' = Mine({"load"})
    BY <2>2, MineStays
  <2>5. \A t \in Slots : /\ calls'[t] = None <=> calls[t] = None
                         /\ calls'[t].kind = calls[t].kind /\ calls'[t].row = calls[t].row
                         /\ calls'[t].fresh = calls[t].fresh
    BY <2>2 DEF Replied
  <2>6. SearchTypes'
    BY <1>1, <2>2, <2>3 DEF SearchTypes, TabTypeOK, Typed
  <2>. QED BY <2>3, <2>4, <2>5, <2>6 DEF SearchKept, SearchInv, Mine
<1>5. ASSUME NEW s \in Slots, SearchAnswered(s) PROVE SearchKept
  <2>1. /\ s \in Mine({"load"}) /\ calls[s] # None /\ calls[s].kind = "load"
        /\ calls[s].row \in Ids /\ calls[s].fresh \in BOOLEAN /\ calls' = Freed(s)
        /\ UNCHANGED <<store, rev, listRev, form, busy, mounts, numbered, waiting>>
    BY <1>1, <1>5, CallIs DEF SearchAnswered, Answered, Mine, Under, SearchInv, searchVars
  <2>2. /\ Typed(calls') /\ calls'[s] = None /\ \A t \in Slots \ {s} : calls'[t] = calls[t]
        /\ Mine({"load"})' = Mine({"load"}) \ {s}
    BY <1>1, <2>1, FreedIs, FreedMine
  <2>3. \/ calls[s].fresh /\ loading' = FALSE /\ list' \in {{calls[s].row}, {}}
        \/ ~calls[s].fresh /\ UNCHANGED <<list, loading>>
    BY <1>5 DEF SearchAnswered
  <2>4. SearchTypes'
    <3>1. list' \subseteq Ids /\ loading' \in BOOLEAN
      BY <1>1, <2>1, <2>3 DEF TabTypeOK
    <3>. QED BY <1>1, <2>1, <2>2, <3>1 DEF SearchTypes, TabTypeOK, Typed
  <2>5. \A t \in Slots : calls'[t] # None => calls'[t] = calls[t]
    BY <2>2
  <2>6. \A t \in Slots : calls'[t] # None /\ calls'[t].kind = "load" => calls'[t].row \in Ids
    BY <2>5 DEF SearchInv
  <2>7. ASSUME numbered, ~waiting
        PROVE  /\ \A t \in Mine({"load"})' : calls'[t].fresh => calls'[t].row = form
               /\ (\A t \in Mine({"load"})' : ~calls'[t].fresh) => ~loading' /\ list' \subseteq {form}
    <3>1. \A t \in Mine({"load"})' : calls'[t] = calls[t] /\ t \in Mine({"load"})
      BY <2>2 DEF Mine
    <3>2. \A t \in Mine({"load"}) : calls[t].fresh => calls[t].row = form
      BY <2>7 DEF SearchInv
    <3>3. CASE calls[s].fresh /\ loading' = FALSE /\ list' \in {{calls[s].row}, {}}
      BY <2>1, <3>1, <3>2, <3>3
    <3>4. CASE ~calls[s].fresh /\ UNCHANGED <<list, loading>>
      <4>1. (\A t \in Mine({"load"})' : ~calls'[t].fresh) => \A t \in Mine({"load"}) : ~calls[t].fresh
        BY <2>2, <3>1, <3>4 DEF Mine
      <4>. QED BY <2>7, <3>1, <3>2, <3>4, <4>1 DEF SearchInv
    <3>. QED BY <2>3, <3>3, <3>4
  <2>. QED BY <2>1, <2>4, <2>6, <2>7 DEF SearchKept, SearchInv
<1>. QED BY <1>2, <1>3, <1>4, <1>5, TypeTooShortSafe DEF SearchNext

-----------------------------------------------------------------------------
(* The header of the policy.                                               *)

PolicyTypes == TabTypeOK /\ url \in Ids \cup {None}
PolicyKept == PolicyTypes' /\ PolicyInv' /\ listRev' = listRev

\* A load of the page: its row and the rows it brings.
PolicyLoad(a, u) ==
    /\ a.mine /\ a.row \in Ids
    /\ a.fresh => a.row = u
    /\ a.stage = "ok" => a.data = {a.row}

\* Every load but that in slot s is what it was.
LEMMA PolicyLoads ==
    ASSUME PolicyInv, NEW s \in Slots, url' = url,
           \A t \in Slots \ {s} : calls'[t] = calls[t],
           calls'[s] # None /\ calls'[s].kind = "load" => PolicyLoad(calls'[s], url)
    PROVE  \A t \in Slots : calls'[t] # None /\ calls'[t].kind = "load" => PolicyLoad(calls'[t], url')
BY DEF PolicyInv, PolicyLoad

\* Opening a policy asks for it and outruns the requests for the one before.
LEMMA OpenPolicySafe ==
    ASSUME PolicyTypes, PolicyInv, NEW s \in Slots, NEW i \in Ids, OpenPolicy(s, i)
    PROVE  PolicyKept
<1>. DEFINE new == Request("load", i)
<1>1. TabTypeOK
  BY DEF PolicyTypes
<1>2. /\ new \in Fetch /\ new # None /\ new.kind = "load" /\ new.fresh /\ new.mine
      /\ new.stage = "sent" /\ new.row = i
  BY RequestIs, LoadKinds
<1>3. SentOver(s, {"load"}, new)
  <2>1. calls' = [EachCall(LAMBDA c : Given(c, {"load"})) EXCEPT ![s] = new]
    BY DEF OpenPolicy, EachCall, Given
  <2>. QED BY <1>1, <1>2, <2>1, GivesUp
<1>. HIDE DEF new
<1>4. /\ url' = i /\ list' = {} /\ loading' = TRUE
      /\ UNCHANGED <<store, rev, listRev, form, busy, mounts>>
  BY DEF OpenPolicy
<1>5. PolicyTypes'
  BY <1>1, <1>3, <1>4 DEF PolicyTypes, TabTypeOK, Typed, SentOver
<1>6. \A t \in Slots : calls'[t] # None /\ calls'[t].kind = "load" => PolicyLoad(calls'[t], url')
  <2>1. PolicyLoad(new, url')
    BY <1>2, <1>4 DEF PolicyLoad
  <2>2. ASSUME NEW t \in Slots \ {s}, calls'[t] # None, calls'[t].kind = "load"
        PROVE  PolicyLoad(calls'[t], url')
    <3>1. Fades(t) /\ calls[t] # None /\ calls[t].kind = "load" /\ ~calls'[t].fresh
      BY <1>3, <2>2 DEF SentOver, Fades
    <3>. QED BY <3>1 DEF PolicyInv, PolicyLoad, Fades
  <2>. QED BY <1>3, <2>1, <2>2 DEF SentOver
<1>7. s \in Mine({"load"})' /\ calls'[s].fresh /\ calls'[s].row = url'
  BY <1>2, <1>3, <1>4 DEF SentOver, Mine, Under
<1>8. PageIsUrl'
  BY <1>4, <1>7 DEF PageIsUrl
<1>. QED BY <1>4, <1>5, <1>6, <1>8 DEF PolicyKept, PolicyInv, PolicyLoad

\* An answer of the API leaves the page as it is.
LEMMA PolicyServed ==
    ASSUME PolicyTypes, PolicyInv, NEW s \in Slots, Typed(calls'), Replied(s),
           \A t \in Slots \ {s} : calls'[t] = calls[t],
           calls[s].kind = "load" /\ calls'[s].stage = "ok" => calls'[s].data = {calls[s].row},
           rev' \in 0..MaxRev, store' \in [Ids -> {"new", "live", "gone"}],
           UNCHANGED <<list, listRev, loading, form, busy, mounts, url>>
    PROVE  PolicyKept
<1>1. PolicyTypes'
  BY DEF PolicyTypes, TabTypeOK, Typed
<1>2. calls'[s] # None /\ calls'[s].kind = "load" => PolicyLoad(calls'[s], url)
  BY DEF PolicyInv, PolicyLoad, Replied
<1>3. \A t \in Slots : calls'[t] # None /\ calls'[t].kind = "load" => PolicyLoad(calls'[t], url')
  BY <1>2, PolicyLoads
<1>4. Mine({"load"})' = Mine({"load"})
  BY MineStays
<1>5. PageIsUrl'
  BY <1>4 DEF PolicyInv, PageIsUrl, Replied, Mine
<1>. QED BY <1>1, <1>3, <1>5 DEF PolicyKept, PolicyInv, PolicyLoad

\* Every step of the page of a policy.
LEMMA PolicySafe == ASSUME PolicyTypes, PolicyInv, PageNext PROVE PolicyKept
<1>1. TabTypeOK /\ url \in Ids \cup {None}
  BY DEF PolicyTypes
<1>2. ASSUME NEW s \in Slots, ServePolicy(s) PROVE PolicyKept
  <2>. DEFINE d == {calls[s].row}
              a == [calls[s] EXCEPT !.stage = "ok", !.data = d, !.rev = rev]
  <2>1. /\ calls[s] \in Fetch /\ calls[s] # None /\ calls[s].row \in Ids /\ rev \in 0..MaxRev
        /\ calls' = [calls EXCEPT ![s] = a]
        /\ UNCHANGED <<store, rev, list, listRev, loading, form, busy, mounts, url>>
    BY <1>1, <1>2, CallIs DEF ServePolicy, Under, PolicyInv, TabTypeOK
  <2>2. /\ a \in Fetch /\ a # None /\ a.kind = calls[s].kind /\ a.row = calls[s].row
        /\ a.mine = calls[s].mine /\ a.fresh = calls[s].fresh /\ a.data = {calls[s].row}
    <3>1. d \in SUBSET Ids /\ d = {calls[s].row}
      BY <2>1
    <3>. HIDE DEF d
    <3>. QED BY <2>1, <3>1, TabAssumption DEF Fetch
  <2>. HIDE DEF a
  <2>3. Typed(calls') /\ Replied(s) /\ \A t \in Slots \ {s} : calls'[t] = calls[t]
    BY <1>1, <2>1, <2>2 DEF TabTypeOK, Typed, Replied
  <2>4. calls'[s].data = {calls[s].row}
    BY <1>1, <2>1, <2>2 DEF TabTypeOK
  <2>5. rev' \in 0..MaxRev /\ store' \in [Ids -> {"new", "live", "gone"}]
    BY <1>1, <2>1 DEF TabTypeOK
  <2>. QED BY <2>1, <2>3, <2>4, <2>5, PolicyServed
<1>3. ASSUME NEW s \in Slots, PolicyLoaded(s) PROVE PolicyKept
  <2>1. /\ calls[s] # None /\ calls[s].kind = "load" /\ calls[s].fresh \in BOOLEAN
        /\ calls[s].data \subseteq Ids /\ calls' = Freed(s)
        /\ UNCHANGED <<store, rev, listRev, form, busy, mounts, url>>
    BY <1>1, <1>3, CallIs DEF PolicyLoaded, Answered, Under
  <2>2. /\ Typed(calls') /\ calls'[s] = None /\ \A t \in Slots \ {s} : calls'[t] = calls[t]
        /\ Mine({"load"})' = Mine({"load"}) \ {s}
    BY <1>1, <2>1, FreedIs, FreedMine
  <2>3. \/ calls[s].fresh /\ loading' = FALSE /\ list' \in {{url}, {}} /\ list' \subseteq Ids
        \/ ~calls[s].fresh /\ UNCHANGED <<list, loading>>
    BY <1>3, <2>1 DEF PolicyLoaded, Succeeded, PolicyInv
  <2>4. PolicyTypes'
    <3>1. list' \subseteq Ids /\ loading' \in BOOLEAN
      BY <1>1, <2>3 DEF TabTypeOK
    <3>. QED BY <1>1, <2>1, <2>2, <3>1 DEF PolicyTypes, TabTypeOK, Typed
  <2>5. \A t \in Slots : calls'[t] # None /\ calls'[t].kind = "load" => PolicyLoad(calls'[t], url')
    BY <2>1, <2>2, PolicyLoads
  <2>6. PageIsUrl'
    <3>1. CASE calls[s].fresh /\ loading' = FALSE /\ list' \in {{url}, {}}
      BY <2>1, <3>1 DEF PageIsUrl
    <3>2. CASE ~calls[s].fresh /\ UNCHANGED <<list, loading>>
      BY <2>1, <2>2, <3>2 DEF PageIsUrl, PolicyInv, Mine
    <3>. QED BY <2>3, <3>1, <3>2
  <2>. QED BY <2>1, <2>4, <2>5, <2>6 DEF PolicyKept, PolicyInv, PolicyLoad
<1>4. ASSUME NEW s \in Slots, DeletePolicy(s) PROVE PolicyKept
  <2>1. /\ Free(s) /\ calls' = Sent(s, "delete", url) /\ busy' = TRUE
        /\ UNCHANGED <<store, rev, list, listRev, loading, form, mounts, url>>
        /\ "delete" \in Kinds /\ "delete" # "load"
    BY <1>4 DEF DeletePolicy, Kinds
  <2>2. /\ Typed(calls') /\ calls'[s] = Request("delete", url)
        /\ \A t \in Slots \ {s} : calls'[t] = calls[t]
    BY <1>1, <2>1, SentIs
  <2>3. calls'[s].kind = "delete"
    BY <1>1, <2>1, <2>2, RequestIs
  <2>4. PolicyTypes'
    BY <1>1, <2>1, <2>2 DEF PolicyTypes, TabTypeOK, Typed
  <2>5. \A t \in Slots : calls'[t] # None /\ calls'[t].kind = "load" => PolicyLoad(calls'[t], url')
    BY <2>1, <2>2, <2>3, PolicyLoads
  <2>6. PageIsUrl'
    BY <2>1, <2>2 DEF PageIsUrl, PolicyInv, Mine, Under, Free
  <2>. QED BY <2>1, <2>4, <2>5, <2>6 DEF PolicyKept, PolicyInv, PolicyLoad
<1>5. ASSUME NEW s \in Slots, ArchivePolicy(s) PROVE PolicyKept
  <2>1. ApiMove(s) /\ calls[s].kind = "delete" /\ UNCHANGED url
    BY <1>1, <1>5, EraseMoves DEF ArchivePolicy, Erase, Under, Loads, Spins
  <2>. QED BY <2>1, PolicyServed DEF ApiMove
<1>6. ASSUME NEW s \in Slots, PolicyDeleted(s) PROVE PolicyKept
  <2>1. /\ calls[s] # None /\ calls[s].kind = "delete"
        /\ UNCHANGED <<store, rev, list, listRev, loading, form, mounts>>
    BY <1>6 DEF PolicyDeleted, Answered, Under
  <2>2. CASE url' = None /\ calls' = [t \in Slots |-> None] /\ UNCHANGED busy
    <3>1. PolicyTypes'
      BY <1>1, <2>1, <2>2 DEF PolicyTypes, TabTypeOK
    <3>. QED BY <2>1, <2>2, <3>1 DEF PolicyKept, PolicyInv, PageIsUrl
  <2>3. CASE calls' = Freed(s) /\ busy' = FALSE /\ UNCHANGED url
    <3>1. /\ Typed(calls') /\ calls'[s] = None /\ \A t \in Slots \ {s} : calls'[t] = calls[t]
          /\ Mine({"load"})' = Mine({"load"}) \ {s}
      BY <1>1, <2>3, FreedIs, FreedMine
    <3>2. PolicyTypes'
      BY <1>1, <2>1, <2>3, <3>1 DEF PolicyTypes, TabTypeOK, Typed
    <3>3. \A t \in Slots : calls'[t] # None /\ calls'[t].kind = "load" => PolicyLoad(calls'[t], url')
      BY <2>3, <3>1, PolicyLoads
    <3>4. PageIsUrl'
      BY <2>1, <2>3, <3>1 DEF PageIsUrl, PolicyInv, Mine, Under
    <3>. QED BY <2>1, <3>2, <3>3, <3>4 DEF PolicyKept, PolicyInv, PolicyLoad
  <2>. QED BY <1>6, <2>2, <2>3 DEF PolicyDeleted
<1>7. ASSUME NEW s \in Slots, Refuse(s), UNCHANGED url PROVE PolicyKept
  <2>1. /\ calls[s] # None /\ calls' = [calls EXCEPT ![s].stage = "failed"]
        /\ UNCHANGED <<store, rev, list, listRev, loading, form, busy, mounts>>
    BY <1>7 DEF Refuse
  <2>2. Typed(calls') /\ Replied(s) /\ calls'[s].stage = "failed"
        /\ \A t \in Slots \ {s} : calls'[t] = calls[t]
    BY <1>1, <2>1, StageIs
  <2>3. rev' \in 0..MaxRev /\ store' \in [Ids -> {"new", "live", "gone"}]
    BY <1>1, <2>1 DEF TabTypeOK
  <2>. QED BY <1>7, <2>1, <2>2, <2>3, PolicyServed
<1>. QED BY <1>2, <1>3, <1>4, <1>5, <1>6, <1>7, OpenPolicySafe DEF PageNext

-----------------------------------------------------------------------------
(* The coverage section.                                                   *)

CoverageTypes ==
    TabTypeOK /\ view \in Views /\ ticked \in BOOLEAN /\ central \in BOOLEAN /\ chosen \subseteq Ids
CoverageKept == CoverageTypes' /\ ViewIsAwaited' /\ listRev' = listRev

\* The rest of the tab is not used here.
CoverageRest == UNCHANGED <<store, list, listRev, loading, form, busy>>

\* A step that keeps the rest of the section keeps its types.
LEMMA CoverageTyped ==
    ASSUME CoverageTypes, Typed(calls'), CoverageRest, rev' \in 0..MaxRev, mounts' \in 1..MaxMounts,
           view' \in Views, ticked' \in BOOLEAN, central' = central, chosen' \subseteq Ids
    PROVE  CoverageTypes' /\ listRev' = listRev
BY DEF CoverageTypes, TabTypeOK, Typed, CoverageRest

\* An answer of the API ends no wait.
LEMMA CoverageServed ==
    ASSUME CoverageTypes, ViewIsAwaited, NEW s \in Slots, Typed(calls'), Replied(s),
           \A t \in Slots \ {s} : calls'[t] = calls[t],
           rev' \in 0..MaxRev, mounts' = mounts, CoverageRest, UNCHANGED coverageVars
    PROVE  CoverageKept
<1>1. \A kinds : Mine(kinds)' = Mine(kinds)
  BY MineStays
<1>2. UNCHANGED <<view, ticked, central, chosen>>
  BY DEF coverageVars
<1>3. CoverageTypes' /\ listRev' = listRev
  BY <1>2, CoverageTyped DEF CoverageTypes, TabTypeOK
<1>. QED BY <1>1, <1>2, <1>3 DEF CoverageKept, ViewIsAwaited

\* A step of the API leaves somebody waiting for the view.
LEMMA CoverageApi ==
    ASSUME CoverageTypes, ViewIsAwaited, NEW s \in Slots, ApiMove(s), store' = store,
           UNCHANGED coverageVars
    PROVE  CoverageKept
BY CoverageServed DEF ApiMove, CoverageRest

\* A request is sent or done: who waits has another one, or is told.
LEMMA CoverageMoves ==
    ASSUME CoverageTypes, Typed(calls'), CoverageRest, rev' = rev, mounts' = mounts,
           central' = central, view' \in Views, ticked' \in BOOLEAN, chosen' = chosen,
           view' = "loading" => Mine({"status", "load"})' # {},
           view' = "generating" => Mine({"create"})' # {}
    PROVE  CoverageKept
<1>1. rev' \in 0..MaxRev /\ mounts' \in 1..MaxMounts /\ chosen' \subseteq Ids
  BY DEF CoverageTypes, TabTypeOK
<1>2. CoverageTypes' /\ listRev' = listRev
  BY <1>1, CoverageTyped
<1>. QED BY <1>2 DEF CoverageKept, ViewIsAwaited

\* The user asks for a summary and waits for it.
LEMMA RunSummarizeSafe ==
    ASSUME CoverageTypes, ViewIsAwaited, NEW s \in Slots, RunSummarize(s) PROVE CoverageKept
<1>. DEFINE b == Request("create", None)
            a == [b EXCEPT !.data = chosen]
<1>1. b \in Fetch /\ b.kind = "create" /\ b.mine
  BY RequestIs DEF Kinds, Saves
<1>2. /\ calls' = [calls EXCEPT ![s] = a] /\ view' = "generating" /\ CoverageRest
      /\ UNCHANGED <<rev, mounts, ticked, central, chosen>> /\ chosen \subseteq Ids
  BY DEF RunSummarize, CoverageRest, CoverageTypes
<1>3. a \in Fetch /\ a # None /\ a.kind = "create" /\ a.mine
  <2>. HIDE DEF b
  <2>. QED BY <1>1, <1>2, TabAssumption DEF Fetch
<1>. HIDE DEF a
<1>4. Typed(calls') /\ calls'[s] = a
  BY <1>2, <1>3 DEF CoverageTypes, TabTypeOK, Typed
<1>5. s \in Mine({"create"})'
  BY <1>3, <1>4 DEF Mine, Under
<1>. QED BY <1>2, <1>4, <1>5, CoverageMoves DEF Views, CoverageTypes

\* The provider is usable or not.
LEMMA CheckProviderSafe ==
    ASSUME CoverageTypes, ViewIsAwaited, NEW s \in Slots, CheckProvider(s) PROVE CoverageKept
<1>1. PICK found \in {"none", "active"} :
         calls' = [calls EXCEPT ![s].stage = "ok", ![s].job = found]
  BY DEF CheckProvider
<1>. DEFINE a == [calls[s] EXCEPT !.stage = "ok", !.job = found]
<1>2. /\ calls[s] \in Fetch /\ calls[s] # None /\ calls' = [calls EXCEPT ![s] = a]
      /\ UNCHANGED <<store, rev, list, listRev, loading, form, busy, mounts, coverageVars>>
  BY <1>1, CallIs DEF CheckProvider, Under, CoverageTypes, TabTypeOK
<1>3. /\ a \in Fetch /\ a # None /\ a.kind = calls[s].kind /\ a.row = calls[s].row
      /\ a.mine = calls[s].mine /\ a.fresh = calls[s].fresh
  <2>1. calls[s] \in Fetch /\ found \in {"none", "active", "ended"}
    BY <1>2
  <2>2. a \in Fetch
    BY <2>1 DEF Fetch
  <2>3. /\ a.kind = calls[s].kind /\ a.row = calls[s].row
        /\ a.mine = calls[s].mine /\ a.fresh = calls[s].fresh
    BY <2>1 DEF Fetch
  <2>. QED BY <2>2, <2>3, TabAssumption
<1>. HIDE DEF a
<1>4. /\ Typed(calls') /\ Replied(s) /\ \A t \in Slots \ {s} : calls'[t] = calls[t]
      /\ rev' \in 0..MaxRev
  BY <1>2, <1>3 DEF CoverageTypes, TabTypeOK, Typed, Replied
<1>. QED BY <1>2, <1>4, CoverageServed DEF CoverageRest

\* The section is opened again and asks for the status and the stored summary.
LEMMA RemountCoverageSafe ==
    ASSUME CoverageTypes, NEW s \in Slots, NEW t \in Slots, RemountCoverage(s, t)
    PROVE  CoverageKept
<1>. DEFINE left(a) == [a EXCEPT !.fresh = FALSE, !.mine = FALSE]
            p == Request("status", None)
            q == Request("quiet", None)
<1>1. p \in Fetch /\ p # None /\ p.kind = "status" /\ p.mine /\ q \in Fetch
  BY RequestIs DEF Kinds, Statuses, Loads
<1>2. ASSUME NEW a \in Fetch PROVE left(a) \in Fetch
  BY DEF Fetch
<1>3. \A u \in Slots : calls[u] # None => calls[u] \in Fetch
  BY CallIs DEF CoverageTypes
<1>4. /\ s # t /\ calls'[s] = p
      /\ calls' = [u \in Slots |-> IF u = t THEN q ELSE IF u = s THEN p ELSE
                                   IF calls[u] = None THEN None ELSE left(calls[u])]
  BY DEF RemountCoverage, EachCall
<1>. HIDE DEF left, p, q
<1>5. Typed(calls')
  BY <1>1, <1>2, <1>3, <1>4 DEF Typed
<1>6. /\ mounts' \in 1..MaxMounts /\ rev' \in 0..MaxRev /\ view' = "loading" /\ ticked' = FALSE
      /\ chosen' = {} /\ central' = central /\ CoverageRest
  BY TabAssumption DEF RemountCoverage, CoverageRest, CoverageTypes, TabTypeOK
<1>7. CoverageTypes' /\ listRev' = listRev
  BY <1>5, <1>6, CoverageTyped DEF Views
<1>8. s \in Mine({"status", "load"})'
  BY <1>1, <1>4 DEF Mine, Under
<1>. QED BY <1>6, <1>7, <1>8 DEF CoverageKept, ViewIsAwaited

\* Every step of the section of coverage summaries.
LEMMA CoverageSafe == ASSUME CoverageTypes, ViewIsAwaited, CoverageNext PROVE CoverageKept
<1>1. TabTypeOK /\ view \in Views /\ ticked \in BOOLEAN
  BY DEF CoverageTypes
<1>2. CASE TickConsent \/ \E i \in Ids : ToggleDocument(i)
  <2>1. UNCHANGED tabVars /\ UNCHANGED <<view, central>> /\ ticked' \in BOOLEAN /\ chosen' \subseteq Ids
    BY <1>1, <1>2 DEF TickConsent, ToggleDocument, CoverageTypes
  <2>2. Typed(calls') /\ CoverageRest /\ rev' \in 0..MaxRev /\ mounts' \in 1..MaxMounts
    BY <1>1, <2>1 DEF tabVars, TabTypeOK, Typed, CoverageRest
  <2>3. CoverageTypes' /\ listRev' = listRev
    BY <1>1, <2>1, <2>2, CoverageTyped
  <2>. QED BY <2>1, <2>3 DEF CoverageKept, ViewIsAwaited, tabVars, Mine, Under
<1>3. ASSUME NEW s \in Slots, calls' = Freed(s), CoverageRest, rev' = rev, mounts' = mounts,
             central' = central, chosen' = chosen, ticked' \in BOOLEAN, view' \in Views,
             view' \notin {"loading", "generating"}
      PROVE  CoverageKept
  BY <1>1, <1>3, FreedIs, CoverageMoves
<1>4. ASSUME NEW s \in Slots, calls' = Sent(s, "load", None), CoverageRest, rev' = rev,
             mounts' = mounts, central' = central, chosen' = chosen, ticked' = ticked,
             view' \in Views,
             view' = "generating" => view = "generating" /\ s \notin Mine({"create"})
      PROVE  CoverageKept
  <2>1. Typed(calls')
    BY <1>1, <1>4, SentIs, LoadKinds
  <2>2. /\ Mine({"status", "load"})' = (Mine({"status", "load"}) \ {s}) \cup {s}
        /\ Mine({"create"})' = Mine({"create"}) \ {s}
    BY <1>1, <1>4, SentMine, LoadKinds
  <2>. QED BY <1>1, <1>4, <2>1, <2>2, CoverageMoves DEF ViewIsAwaited
<1>5. ASSUME NEW s \in Slots, AiStatusAnswered(s) PROVE CoverageKept
  <2>1. /\ CoverageRest /\ UNCHANGED <<rev, mounts, ticked, central, chosen>>
        /\ s \notin Mine({"create"}) /\ {"checkError", "unavailable"} \subseteq Views
    BY <1>5 DEF AiStatusAnswered, CoverageRest, Answered, Mine, Under, Views
  <2>. QED BY <1>1, <1>3, <1>4, <1>5, <2>1 DEF AiStatusAnswered
<1>6. ASSUME NEW s \in Slots, SummaryAnswered(s) PROVE CoverageKept
  <2>1. /\ CoverageRest /\ UNCHANGED <<rev, mounts, ticked, central, chosen>>
        /\ view' \in {"loadError", "idle", "loaded"} /\ calls' = Freed(s)
    BY <1>6 DEF SummaryAnswered, CoverageRest
  <2>. QED BY <1>1, <1>3, <2>1 DEF Views
<1>7. ASSUME NEW s \in Slots, RetryLoad(s) PROVE CoverageKept
  <2>1. /\ CoverageRest /\ UNCHANGED <<rev, mounts, ticked, central, chosen>>
        /\ view' = "loading" /\ calls' = Sent(s, "load", None)
    BY <1>7 DEF RetryLoad, CoverageRest
  <2>. QED BY <1>4, <2>1 DEF Views
<1>8. ASSUME NEW s \in Slots, ConsentArrives(s) PROVE CoverageKept
  <2>1. /\ CoverageRest /\ UNCHANGED <<rev, mounts, view, central, chosen>>
        /\ calls' = Freed(s) /\ ticked' \in BOOLEAN
        /\ s \notin Mine({"status", "load"}) /\ s \notin Mine({"create"})
    BY <1>8 DEF ConsentArrives, CoverageRest, Answered, Mine, Under
  <2>2. /\ Mine({"status", "load"})' = Mine({"status", "load"})
        /\ Mine({"create"})' = Mine({"create"})
    BY <1>1, <2>1, FreedMine
  <2>. QED BY <1>1, <2>1, <2>2, FreedIs, CoverageMoves DEF ViewIsAwaited
<1>9. ASSUME NEW s \in Slots, Summarized(s) PROVE CoverageKept
  <2>1. CoverageRest /\ UNCHANGED <<rev, mounts, ticked, central, chosen>>
    BY <1>9 DEF Summarized, CoverageRest
  <2>2. \/ view' = "loaded" /\ calls' = Sent(s, "load", None)
        \/ view' \in {"idle", "generateError"} /\ calls' = Freed(s)
    BY <1>9 DEF Summarized
  <2>. QED BY <1>1, <1>3, <1>4, <2>1, <2>2 DEF Views
<1>10. ASSUME NEW s \in Slots, StoreSummary(s) PROVE CoverageKept
  <2>1. calls[s] # None /\ calls[s].kind \notin Loads /\ Commit(s, store) /\ UNCHANGED coverageVars
    BY <1>10 DEF StoreSummary, Under, Loads, Spins
  <2>2. store \in [Ids -> {"new", "live", "gone"}] /\ store' = store
    BY <1>1, <2>1 DEF TabTypeOK, Commit
  <2>. QED BY <1>1, <2>1, <2>2, CommitMoves, CoverageApi
<1>11. ASSUME NEW s \in Slots, ServeList(s) \/ Refuse(s), UNCHANGED coverageVars PROVE CoverageKept
  <2>1. store' = store
    BY <1>11 DEF ServeList, Refuse
  <2>. QED BY <1>1, <1>11, <2>1, ServeListMoves, RefuseMoves, CoverageApi
<1>12. ASSUME NEW s \in Slots, Ignore(s), UNCHANGED coverageVars PROVE CoverageKept
  <2>1. /\ CoverageRest /\ UNCHANGED <<rev, mounts, view, ticked, central, chosen>>
        /\ calls' = Freed(s)
    BY <1>12 DEF Ignore, CoverageRest, coverageVars
  <2>2. /\ Mine({"status", "load"})' = Mine({"status", "load"})
        /\ Mine({"create"})' = Mine({"create"})
    BY <1>1, <1>12, IgnoreKeeps DEF Kinds, Statuses, Loads, Spins, Saves
  <2>. QED BY <1>1, <2>1, <2>2, FreedIs, CoverageMoves DEF ViewIsAwaited
<1>. QED
  BY <1>2, <1>5, <1>6, <1>7, <1>8, <1>9, <1>10, <1>11, <1>12,
     RunSummarizeSafe, CheckProviderSafe, RemountCoverageSafe DEF CoverageNext

-----------------------------------------------------------------------------
(* The tag of the policy.                                                  *)

SectionKept == SectionTypeOK' /\ SectionInv' /\ StepsForth

\* At most one tag.
OneTag == \A i, j \in Live : i = j

PollTypes ==
    /\ syncJob \in {"none", "active", "ended"} /\ progress \in {"none", "active", "ended"}
    /\ polling \in BOOLEAN /\ timer \in BOOLEAN /\ strays \in 0..MaxStrays

\* The requests that change the tag: never two, and the buttons are locked.
OneTagSave == (Mine(TagSaves) # {} => busy) /\ \A s, t \in Mine(TagSaves) : s = t

\* The types and the invariant of the tag section, part by part.
LEMMA SectionWhole ==
    /\ SectionTypeOK <=> TabTypeOK /\ PollTypes
    /\ SectionInv <=> /\ SpinnerEnds /\ NewestLoad /\ RevsPast /\ PollingAlive
                      /\ OneTagSave /\ OneTag
BY DEF SectionTypeOK, SectionInv, PollTypes, OneTagSave, OneTag

\* The API or the worker answers.
LEMMA SectionApi ==
    ASSUME SectionTypeOK, SectionInv, NEW s \in Slots, ApiMove(s),
           syncJob' \in {"none", "active", "ended"}, UNCHANGED pollVars, OneTag'
    PROVE  SectionKept
<1>1. TabTypeOK' /\ StepsForth /\ SpinnerEnds' /\ NewestLoad' /\ RevsPast'
  BY ApiTyped, ApiSpinner, ApiLoads DEF SectionTypeOK, SectionInv, ApiMove, StepsForth, TabTypeOK
<1>2. \A kinds : Mine(kinds)' = Mine(kinds)
  BY MineStays DEF ApiMove
<1>3. UNCHANGED <<progress, polling, timer, strays>> /\ busy' = busy
  BY DEF pollVars, ApiMove
<1>4. PollTypes' /\ PollingAlive' /\ OneTagSave'
  BY <1>2, <1>3, SectionWhole DEF PollTypes, PollingAlive, OneTagSave
<1>. QED BY <1>1, <1>4, SectionWhole DEF SectionKept, SectionTypeOK, SectionInv,
                                        PollTypes, OneTagSave, OneTag

\* A request is sent that reads no configuration.
LEMMA SectionSent ==
    ASSUME SectionTypeOK, SectionInv, NEW s \in Slots, s \notin Mine(Spins), s \notin Mine(Loads),
           NEW kind \in Kinds \ Loads, NEW row \in Ids \cup {None}, calls' = Sent(s, kind, row),
           busy' \in {busy, TRUE},
           kind \in TagSaves => busy' /\ (~busy \/ s \in Mine(TagSaves)),
           PollTypes',
           polling' => \/ kind = "tick"
                       \/ /\ polling /\ s \notin Mine({"tick"})
                          /\ UNCHANGED <<timer, strays>>,
           UNCHANGED <<store, rev, list, listRev, loading, form, mounts>>
    PROVE  SectionKept
<1>1. TabTypeOK /\ busy' \in BOOLEAN
  BY DEF SectionTypeOK, TabTypeOK
<1>2. TabTypeOK' /\ StepsForth
  BY <1>1, SentTyped DEF TabTypeOK, StepsForth
<1>3. NewestLoad' /\ RevsPast'
  BY <1>1, SentLoads DEF SectionInv
<1>4. /\ Mine(Spins)' = Mine(Spins)
      /\ Mine(TagSaves)' = (Mine(TagSaves) \ {s}) \cup (IF kind \in TagSaves THEN {s} ELSE {})
      /\ Mine({"tick"})' = (Mine({"tick"}) \ {s}) \cup (IF kind \in {"tick"} THEN {s} ELSE {})
  <2>1. kind \in Kinds /\ kind \notin Spins
    BY DEF Loads
  <2>2. ASSUME NEW kinds
        PROVE  Mine(kinds)' = (Mine(kinds) \ {s}) \cup (IF kind \in kinds THEN {s} ELSE {})
    BY <1>1, <2>1, SentMine
  <2>. QED BY <2>1, <2>2
<1>5. SpinnerEnds'
  <2>1. \A t \in Mine(Spins) : calls'[t] = calls[t]
    BY <1>1, SentIs DEF Mine
  <2>. QED BY <1>4, <2>1 DEF SectionInv, SpinnerEnds
<1>6. OneTagSave'
  BY <1>1, <1>4, SectionWhole DEF OneTagSave
<1>7. PollingAlive'
  BY <1>4 DEF SectionInv, PollingAlive
<1>8. OneTag'
  BY SectionWhole DEF OneTag, Live
<1>. QED BY <1>2, <1>3, <1>5, <1>6, <1>7, <1>8 DEF SectionKept, SectionTypeOK, SectionInv,
                                        PollTypes, OneTagSave, OneTag

\* A request that read no configuration is done.
LEMMA SectionFreed ==
    ASSUME SectionTypeOK, SectionInv, NEW s \in Slots, s \notin Mine(Spins), calls' = Freed(s),
           busy' = busy \/ (busy' = FALSE /\ s \in Mine(TagSaves)),
           PollTypes',
           polling' => \/ timer'
                       \/ /\ polling /\ s \notin Mine({"tick"})
                          /\ UNCHANGED <<timer, strays>>,
           UNCHANGED <<store, rev, list, listRev, loading, form, mounts>>
    PROVE  SectionKept
<1>1. TabTypeOK /\ busy' \in BOOLEAN
  BY DEF SectionTypeOK, TabTypeOK
<1>2. TabTypeOK' /\ StepsForth
  BY <1>1, FreedIs DEF TabTypeOK, StepsForth, Typed
<1>3. NewestLoad' /\ RevsPast' /\ SpinnerEnds'
  BY <1>1, FreedLoads DEF SectionInv, TabTypeOK
<1>4. \A kinds : Mine(kinds)' = Mine(kinds) \ {s}
  BY <1>1, FreedMine
<1>5. OneTagSave'
  BY <1>1, <1>4, SectionWhole DEF OneTagSave
<1>6. PollingAlive'
  BY <1>4 DEF SectionInv, PollingAlive
<1>7. OneTag'
  BY SectionWhole DEF OneTag, Live
<1>. QED BY <1>2, <1>3, <1>5, <1>6, <1>7 DEF SectionKept, SectionTypeOK, SectionInv,
                                        PollTypes, OneTagSave, OneTag

\* The configuration is read, and perhaps a poll starts in a slot that was free.
ReadsConfig(s, new) ==
    /\ Typed(calls') /\ calls'[s] = new
    /\ \A t \in Slots \ {s} :
          \/ Fades(t) /\ (calls[t] # None /\ calls'[t].fresh => calls[t].kind \in Statuses)
          \/ calls[t] = None /\ calls'[t] = Request("tick", None)

\* The requests once the configuration is asked for.
LEMMA LoadConfigIs ==
    ASSUME TabTypeOK, NEW s \in Slots, NEW kind \in Kinds
    PROVE  /\ Typed(LoadConfig(s, kind)) /\ LoadConfig(s, kind)[s] = Request(kind, None)
           /\ \A t \in Slots \ {s} :
                 LoadConfig(s, kind)[t]
                     = IF calls[t] = None THEN None ELSE Given(calls[t], Kinds \ Statuses)
<1>. DEFINE new == Request(kind, None)
            aged(c) == [c EXCEPT !.fresh = c.fresh /\ c.kind \in Statuses]
            cs == LoadConfig(s, kind)
<1>1. new \in Fetch
  BY RequestIs
<1>2. ASSUME NEW t \in Slots, calls[t] # None
      PROVE  /\ aged(calls[t]) = Given(calls[t], Kinds \ Statuses)
             /\ aged(calls[t]) \in Fetch
  <2>1. calls[t] \in Fetch /\ calls[t].kind \in Kinds
    BY <1>2, CallIs
  <2>2. (calls[t].fresh /\ calls[t].kind \in Statuses)
           = (calls[t].fresh /\ calls[t].kind \notin Kinds \ Statuses)
    BY <2>1
  <2>3. aged(calls[t]) = Given(calls[t], Kinds \ Statuses)
    BY <2>2 DEF Given
  <2>4. Given(calls[t], Kinds \ Statuses) \in Fetch
    BY <2>1, GivenIs
  <2>. QED BY <2>3, <2>4
<1>3. cs = [[t \in Slots |-> IF calls[t] = None THEN None ELSE aged(calls[t])] EXCEPT ![s] = new]
  BY DEF LoadConfig, EachCall
<1>. HIDE DEF aged, new, cs
<1>4. /\ cs = [t \in Slots |-> cs[t]] /\ cs[s] = new
      /\ \A t \in Slots \ {s} : cs[t] = IF calls[t] = None THEN None ELSE aged(calls[t])
  BY <1>3
<1>5. Typed(cs)
  BY <1>1, <1>2, <1>4 DEF Typed
<1>. QED BY <1>2, <1>4, <1>5 DEF cs, new

\* A read of the configuration together with the timer of the polling.
LEMMA ReadsIs ==
    ASSUME TabTypeOK, NEW s \in Slots, NEW kind \in Kinds, Typed(calls'),
           calls'[s] = Request(kind, None),
           \A t \in Slots \ {s} : \/ calls'[t] = LoadConfig(s, kind)[t]
                                  \/ calls[t] = None /\ calls'[t] = Request("tick", None)
    PROVE  ReadsConfig(s, Request(kind, None))
<1>1. ASSUME NEW t \in Slots \ {s}, calls'[t] = LoadConfig(s, kind)[t]
      PROVE  Fades(t) /\ (calls[t] # None /\ calls'[t].fresh => calls[t].kind \in Statuses)
  <2>1. calls'[t] = IF calls[t] = None THEN None ELSE Given(calls[t], Kinds \ Statuses)
    BY <1>1, LoadConfigIs
  <2>2. CASE calls[t] = None
    BY <2>1, <2>2 DEF Fades
  <2>3. CASE calls[t] # None
    <3>. DEFINE g == Given(calls[t], Kinds \ Statuses)
    <3>1. calls'[t] = g /\ calls[t] \in Fetch /\ calls[t].kind \in Kinds
      BY <2>1, <2>3, CallIs
    <3>2. /\ g \in Fetch /\ g # None
          /\ g.kind = calls[t].kind /\ g.row = calls[t].row
          /\ g.mine = calls[t].mine /\ g.stage = calls[t].stage
          /\ g.data = calls[t].data /\ g.rev = calls[t].rev /\ g.job = calls[t].job
          /\ g.fresh <=> calls[t].fresh /\ calls[t].kind \notin Kinds \ Statuses
      BY <3>1, GivenIs
    <3>. HIDE DEF g
    <3>3. Fades(t)
      BY <2>3, <3>1, <3>2 DEF Fades
    <3>. QED BY <3>1, <3>2, <3>3
  <2>. QED BY <2>2, <2>3
<1>. QED BY <1>1 DEF ReadsConfig

\* A read of the configuration keeps the invariant of the section.
LEMMA SectionReads ==
    ASSUME SectionTypeOK, SectionInv, NEW s \in Slots, calls[s] # None,
           NEW kind \in {"reload", "report"}, ReadsConfig(s, Request(kind, None)),
           kind = "reload" => s \in Mine(TagSaves),
           form' \in {"closed", "new"} \cup Ids, loading' = TRUE, PollTypes',
           polling' => \/ Mine({"tick"})' # {}
                       \/ polling /\ s \notin Mine({"tick"}) /\ UNCHANGED <<timer, strays>>,
           UNCHANGED <<store, rev, list, listRev, busy, mounts>>
    PROVE  SectionKept
<1>. DEFINE new == Request(kind, None)
<1>1. kind \in Kinds /\ kind \in Spins /\ "tick" \in Kinds /\ "tick" \notin Loads
      /\ "tick" \notin TagSaves /\ Statuses \cap Loads = {} /\ Spins \subseteq Loads
  BY DEF Kinds, Loads, Spins, TagSaves, Statuses
<1>2. /\ new # None /\ new.kind = kind /\ new.fresh /\ new.mine /\ new.stage = "sent" /\ new.rev = 0
  BY <1>1, RequestIs
<1>3. /\ Request("tick", None) # None /\ Request("tick", None).kind = "tick"
      /\ Request("tick", None).mine /\ Request("tick", None).rev = 0
  BY <1>1, RequestIs
<1>. HIDE DEF new
<1>4. Typed(calls') /\ calls'[s] = new
  BY DEF ReadsConfig, new
<1>5. TabTypeOK' /\ StepsForth
  BY <1>4 DEF SectionTypeOK, TabTypeOK, Typed, StepsForth
<1>6. s \in Mine(Spins)' /\ calls'[s].fresh
  BY <1>1, <1>2, <1>4 DEF Mine, Under
<1>7. SpinnerEnds'
  BY <1>6 DEF SpinnerEnds
<1>8. ASSUME NEW t \in Slots \ {s}, NEW kinds, "tick" \notin kinds
      PROVE  t \in Mine(kinds)' <=> t \in Mine(kinds)
  BY <1>3, <1>8 DEF ReadsConfig, Fades, Mine, Under
<1>9. ASSUME NEW t \in Mine(Loads)', calls'[t].fresh PROVE t = s
  <2>. SUFFICES ASSUME t \in Slots \ {s} PROVE FALSE
    BY DEF Mine
  <2>1. t \in Mine(Loads)
    BY <1>1, <1>8
  <2>2. calls[t] # None /\ calls[t].kind \in Loads
    BY <2>1 DEF Mine, Under
  <2>. QED BY <1>1, <1>9, <2>2 DEF ReadsConfig
<1>10. NewestLoad'
  BY <1>2, <1>4, <1>9 DEF NewestLoad
<1>11. RevsPast'
  <2>1. /\ \A t \in Slots : calls[t] # None => calls[t].rev <= rev
        /\ rev \in Nat /\ listRev <= rev
    BY DEF SectionInv, RevsPast, SectionTypeOK, TabTypeOK
  <2>2. ASSUME NEW t \in Slots, calls'[t] # None PROVE calls'[t].rev <= rev
    BY <1>2, <1>3, <1>4, <2>1, <2>2 DEF ReadsConfig, Fades
  <2>. QED BY <2>1, <2>2 DEF RevsPast
<1>12. OneTagSave'
  <2>1. \A t \in Slots \ {s} : t \in Mine(TagSaves)' <=> t \in Mine(TagSaves)
    BY <1>1, <1>8
  <2>2. s \in Mine(TagSaves)' <=> kind = "reload"
    BY <1>2, <1>4 DEF Mine, Under, TagSaves
  <2>3. Mine(TagSaves) \subseteq Slots /\ Mine(TagSaves)' \subseteq Slots
    BY DEF Mine
  <2>. QED BY <2>1, <2>2, <2>3, SectionWhole DEF OneTagSave
<1>13. PollingAlive'
  <2>1. ASSUME NEW t \in Mine({"tick"}), t # s PROVE t \in Mine({"tick"})'
    BY <2>1, <1>3 DEF ReadsConfig, Fades, Mine, Under
  <2>. QED BY <2>1 DEF SectionInv, PollingAlive
<1>14. OneTag'
  BY SectionWhole DEF OneTag, Live
<1>. QED BY <1>5, <1>7, <1>10, <1>11, <1>12, <1>13, <1>14
         DEF SectionKept, SectionTypeOK, SectionInv, PollTypes, OneTagSave, OneTag

\* The kinds of request the section tells apart.
LEMMA SectionKinds ==
    /\ {"status", "tick", "assign", "create", "remove", "sync", "load", "reload", "report"}
          \subseteq Kinds
    /\ {"status", "tick", "assign", "create", "remove", "sync"} \cap Loads = {}
    /\ {"assign", "create", "remove", "sync", "reload"} = TagSaves
    /\ Spins \subseteq Loads /\ Spins \cap {"assign", "create", "remove", "sync"} = {}
    /\ "tick" \notin TagSaves /\ "tick" \notin Spins
BY DEF Kinds, Loads, Spins, Saves, Statuses, TagSaves

\* What a request that is answered is not.
LEMMA SectionOther ==
    ASSUME NEW s \in Slots, NEW kinds, Answered(s, kinds)
    PROVE  /\ calls[s] # None
           /\ kinds \cap Spins = {} => s \notin Mine(Spins)
           /\ kinds \cap Loads = {} => s \notin Mine(Loads)
           /\ kinds \subseteq TagSaves => s \in Mine(TagSaves)
           /\ "tick" \notin kinds => s \notin Mine({"tick"})
BY DEF Answered, Mine, Under

\* The configuration arrives.
LEMMA ConfigLoadedSafe ==
    ASSUME SectionTypeOK, SectionInv, NEW s \in Slots, ConfigLoaded(s) PROVE SectionKept
<1>1. /\ TabTypeOK /\ s \in Mine(Spins) /\ s \in Mine(Loads) /\ s \notin Mine({"tick"})
      /\ calls[s] # None /\ calls[s].data \subseteq Ids /\ calls[s].fresh \in BOOLEAN
      /\ calls[s].kind \in Spins
  BY CallIs, SectionKinds DEF ConfigLoaded, Answered, Mine, Under, SectionTypeOK
<1>2. /\ calls' = Freed(s) /\ UNCHANGED <<store, rev, form, mounts>>
      /\ UNCHANGED <<syncJob, progress, polling, timer, strays>>
      /\ busy' = (busy /\ calls[s].kind # "reload") /\ loading' = (loading /\ ~calls[s].fresh)
  BY DEF ConfigLoaded, sectionVars
<1>3. /\ \/ listRev' = listRev
         \/ calls[s].fresh /\ calls[s].stage = "ok" /\ listRev' = calls[s].rev
      /\ list' \in {list, calls[s].data}
  BY DEF ConfigLoaded, Succeeded
<1>4. busy \in BOOLEAN /\ busy' \in BOOLEAN /\ loading' \in BOOLEAN /\ list' \subseteq Ids
      /\ form' \in {"closed", "new"} \cup Ids
  BY <1>1, <1>2, <1>3 DEF TabTypeOK
<1>5. NewestLoad' /\ RevsPast' /\ listRev' >= listRev /\ listRev' \in 0..MaxRev
  BY <1>1, <1>2, <1>3, LoadArrives DEF SectionInv
<1>6. \A t \in Slots \ {s} : calls'[t] = calls[t]
  BY <1>1, <1>2, FreedIs
<1>7. TabTypeOK'
  BY <1>1, <1>2, <1>4, <1>5, SentTyped, LoadKinds
<1>8. \A kinds : Mine(kinds)' = Mine(kinds) \ {s}
  BY <1>1, <1>2, FreedMine
<1>9. SpinnerEnds'
  <2>. SUFFICES ASSUME loading' PROVE \E t \in Mine(Spins)' : calls'[t].fresh
    BY DEF SpinnerEnds
  <2>1. PICK t \in Mine(Spins) : calls[t].fresh
    BY <1>2 DEF SectionInv, SpinnerEnds
  <2>2. t # s
    BY <1>2, <2>1
  <2>. QED BY <1>6, <1>8, <2>1, <2>2 DEF Mine
<1>10. OneTagSave'
  <2>1. CASE calls[s].kind = "reload"
    <3>1. s \in Mine(TagSaves)
      BY <1>1, <2>1, SectionKinds DEF Mine, Under
    <3>. QED BY <1>2, <1>8, <3>1, SectionWhole DEF OneTagSave
  <2>2. CASE calls[s].kind # "reload"
    BY <1>2, <1>4, <1>8, <2>2, SectionWhole DEF OneTagSave
  <2>. QED BY <2>1, <2>2
<1>11. Mine({"tick"})' = Mine({"tick"})
  BY <1>1, <1>8
<1>12. PollTypes' /\ PollingAlive' /\ OneTag'
  BY <1>2, <1>11, SectionWhole DEF PollTypes, PollingAlive, OneTag, Live
<1>. QED BY <1>5, <1>7, <1>9, <1>10, <1>12
         DEF SectionKept, SectionTypeOK, SectionInv, PollTypes, OneTagSave, OneTag, StepsForth

\* Polling.
LEMMA PollsSafe ==
    ASSUME SectionTypeOK, SectionInv, NEW s \in Slots,
           \/ StatusArrives(s) \/ TickDropped(s) \/ TickFailed(s) \/ TickArrives(s)
           \/ TimerFires(s) \/ StrayFires(s)
    PROVE  SectionKept
<1>1. TabTypeOK /\ PollTypes
  BY SectionWhole
<1>2. CASE StatusArrives(s)
  <2>1. /\ s \notin Mine(Spins) /\ s \notin Mine(Loads) /\ s \notin Mine({"tick"})
        /\ calls[s] # None
        /\ UNCHANGED <<store, rev, list, listRev, loading, form, busy, mounts,
                       syncJob, timer, strays>>
    BY <1>2, SectionOther, SectionKinds DEF StatusArrives
  <2>2. progress' \in {"none", "active", "ended"}
    BY <1>1, <1>2, <2>1, CallIs DEF StatusArrives, PollTypes
  <2>3. \/ polling' = TRUE /\ ~polling /\ calls' = Sent(s, "tick", None)
        \/ polling' = polling /\ calls' = Freed(s)
    BY <1>1, <1>2 DEF StatusArrives, StartPolling, Sent, PollTypes
  <2>4. PollTypes'
    BY <1>1, <2>1, <2>2, <2>3 DEF PollTypes
  <2>5. CASE polling' = TRUE /\ ~polling /\ calls' = Sent(s, "tick", None)
    BY <2>1, <2>4, <2>5, SectionKinds, SectionSent
  <2>6. CASE polling' = polling /\ calls' = Freed(s)
    BY <2>1, <2>4, <2>6, SectionFreed
  <2>. QED BY <2>3, <2>5, <2>6
<1>3. CASE TickDropped(s)
  <2>1. s \notin Mine(Spins) /\ ~polling /\ calls' = Freed(s)
        /\ UNCHANGED <<store, rev, list, listRev, loading, form, busy, mounts,
                       syncJob, progress, polling, timer, strays>>
    BY <1>3, SectionOther, SectionKinds DEF TickDropped, sectionVars
  <2>. QED BY <1>1, <2>1, SectionFreed DEF PollTypes
<1>4. ASSUME SetTimer PROVE timer' /\ polling' = polling /\ timer' \in BOOLEAN /\ strays' \in 0..MaxStrays
  BY <1>1, <1>4, StraysAssumption DEF SetTimer, PollTypes
<1>5. ASSUME StopPolling PROVE ~polling' /\ polling' \in BOOLEAN /\ timer' \in BOOLEAN /\ strays' = strays
  BY <1>5 DEF StopPolling
<1>6. CASE TickFailed(s)
  <2>1. s \notin Mine(Spins) /\ calls' = Freed(s)
        /\ UNCHANGED <<store, rev, list, listRev, loading, form, busy, mounts, syncJob, progress>>
    BY <1>6, SectionOther, SectionKinds DEF TickFailed
  <2>2. (polling' => timer') /\ PollTypes'
    BY <1>1, <1>4, <1>5, <1>6, <2>1 DEF TickFailed, PollTypes
  <2>. QED BY <2>1, <2>2, SectionFreed
<1>7. CASE TickArrives(s)
  <2>1. /\ s \notin Mine(Spins) /\ calls[s] # None
        /\ UNCHANGED <<store, rev, list, listRev, form, busy, mounts, syncJob>>
    BY <1>7, SectionOther, SectionKinds DEF TickArrives, Succeeded
  <2>2. progress' \in {"none", "active", "ended"}
    BY <1>1, <1>7, <2>1, CallIs DEF TickArrives, PollTypes
  <2>3. \/ (SetTimer \/ StopPolling) /\ calls' = Freed(s) /\ UNCHANGED loading
        \/ StopPolling /\ calls' = LoadConfig(s, "report") /\ loading' = TRUE
    BY <1>7 DEF TickArrives
  <2>4. (polling' => timer') /\ PollTypes'
    BY <1>1, <1>4, <1>5, <2>1, <2>2, <2>3 DEF PollTypes
  <2>5. CASE calls' = Freed(s) /\ UNCHANGED loading
    BY <2>1, <2>4, <2>5, SectionFreed
  <2>6. CASE StopPolling /\ calls' = LoadConfig(s, "report") /\ loading' = TRUE
    <3>1. ReadsConfig(s, Request("report", None)) /\ ~polling'
      BY <1>1, <1>5, <2>6, LoadConfigIs, ReadsIs, SectionKinds
    <3>2. form' \in {"closed", "new"} \cup Ids
      BY <1>1, <2>1 DEF TabTypeOK
    <3>. QED BY <2>1, <2>4, <2>6, <3>1, <3>2, SectionReads
  <2>. QED BY <2>3, <2>5, <2>6
<1>8. CASE TimerFires(s) \/ (StrayFires(s) /\ polling)
  <2>1. /\ s \notin Mine(Spins) /\ s \notin Mine(Loads) /\ calls' = Sent(s, "tick", None)
        /\ UNCHANGED <<store, rev, list, listRev, loading, form, busy, mounts,
                       syncJob, progress, polling>>
    BY <1>8, FreeNotMine DEF TimerFires, StrayFires
  <2>2. PollTypes'
    <3>1. timer' \in BOOLEAN /\ strays' \in 0..MaxStrays
      <4>1. CASE TimerFires(s)
        BY <1>1, <4>1 DEF PollTypes, TimerFires
      <4>2. CASE StrayFires(s)
        BY <1>1, <4>2, StraysAssumption DEF PollTypes, StrayFires
      <4>. QED BY <1>8, <4>1, <4>2
    <3>. QED BY <1>1, <2>1, <3>1 DEF PollTypes
  <2>. QED BY <2>1, <2>2, SectionKinds, SectionSent
<1>9. CASE StrayFires(s) /\ ~polling
  <2>1. /\ calls' = calls /\ ~polling' /\ UNCHANGED <<syncJob, progress, polling, timer>>
        /\ UNCHANGED <<store, rev, list, listRev, loading, form, busy, mounts>>
        /\ strays' \in 0..MaxStrays
    BY <1>1, <1>9, StraysAssumption DEF StrayFires, PollTypes
  <2>2. TabTypeOK' /\ PollTypes' /\ StepsForth
    BY <1>1, <2>1 DEF TabTypeOK, PollTypes, StepsForth
  <2>. QED BY <2>1, <2>2
           DEF SectionKept, SectionTypeOK, SectionInv, PollTypes, SpinnerEnds, NewestLoad, RevsPast,
               PollingAlive, Mine, Under, Live
<1>. QED BY <1>2, <1>3, <1>6, <1>7, <1>8, <1>9

\* The effect that reads the status again stops the polling.
LEMMA ParentRendersSafe ==
    ASSUME SectionTypeOK, SectionInv, NEW s \in Slots, ParentRenders(s) PROVE SectionKept
<1>. DEFINE new == Request("status", None)
<1>1. TabTypeOK /\ PollTypes
  BY SectionWhole
<1>2. /\ new \in Fetch /\ new # None /\ new.kind = "status" /\ new.mine /\ new.rev = 0
  BY RequestIs, SectionKinds
<1>3. SentOver(s, {"status"}, new)
  <2>1. calls' = [EachCall(LAMBDA c : Given(c, {"status"})) EXCEPT ![s] = new]
    BY DEF ParentRenders, EachCall, Given
  <2>. QED BY <1>1, <1>2, <2>1, GivesUp
<1>. HIDE DEF new
<1>4. /\ Free(s) /\ ~polling' /\ PollTypes'
      /\ UNCHANGED <<store, rev, list, listRev, loading, form, busy, mounts>>
  BY <1>1 DEF ParentRenders, StopPolling, PollTypes
<1>5. TabTypeOK' /\ StepsForth
  BY <1>1, <1>3, <1>4 DEF TabTypeOK, SentOver, Typed, StepsForth
<1>6. ASSUME NEW kinds, "status" \notin kinds PROVE Mine(kinds)' = Mine(kinds)
  <2>1. Mine(kinds)' = (Mine(kinds) \ {s}) \cup (IF "status" \in kinds THEN {s} ELSE {})
    BY <1>2, <1>3, SentOverMine
  <2>. QED BY <1>4, <1>6, <2>1, FreeNotMine
<1>7. "status" \notin Loads /\ "status" \notin Spins /\ "status" \notin TagSaves
  BY SectionKinds
<1>8. ASSUME NEW t \in Slots, calls[t] # None, calls[t].kind # "status"
      PROVE  /\ calls'[t] # None /\ (calls'[t].fresh <=> calls[t].fresh)
             /\ calls'[t].stage = calls[t].stage /\ calls'[t].rev = calls[t].rev
  BY <1>3, <1>4, <1>8 DEF SentOver, Fades, Free
<1>9. SpinnerEnds'
  <2>1. Mine(Spins)' = Mine(Spins) /\ \A t \in Mine(Spins) : t \in Slots /\ calls[t] # None
                                                            /\ calls[t].kind # "status"
    BY <1>6, <1>7 DEF Mine, Under
  <2>. QED BY <1>4, <1>8, <2>1 DEF SectionInv, SpinnerEnds
<1>10. NewestLoad'
  <2>1. Mine(Loads)' = Mine(Loads) /\ \A t \in Mine(Loads) : t \in Slots /\ calls[t] # None
                                                            /\ calls[t].kind # "status"
    BY <1>6, <1>7 DEF Mine, Under
  <2>. QED BY <1>4, <1>8, <2>1 DEF SectionInv, NewestLoad
<1>11. RevsPast'
  <2>1. /\ \A t \in Slots : calls[t] # None => calls[t].rev <= rev
        /\ rev \in Nat /\ listRev <= rev
    BY DEF SectionInv, RevsPast, SectionTypeOK, TabTypeOK
  <2>2. ASSUME NEW t \in Slots, calls'[t] # None PROVE calls'[t].rev <= rev
    BY <1>2, <1>3, <2>1, <2>2 DEF SentOver, Fades
  <2>. QED BY <1>4, <2>1, <2>2 DEF RevsPast
<1>12. OneTagSave' /\ PollingAlive' /\ OneTag'
  BY <1>4, <1>6, <1>7, SectionWhole DEF OneTagSave, PollingAlive, OneTag, Live
<1>. QED BY <1>4, <1>5, <1>9, <1>10, <1>11, <1>12
         DEF SectionKept, SectionTypeOK, SectionInv, PollTypes, OneTagSave, OneTag

\* The buttons.
LEMMA ButtonsSafe ==
    ASSUME SectionTypeOK, SectionInv, NEW s \in Slots,
           \/ \E tag \in Ids : AssignTag(s, tag)
           \/ CreateAndAssign(s) \/ RemoveTag(s) \/ RefreshNow(s)
           \/ TagSaved(s) \/ TagCreated(s) \/ RefreshNotStarted(s)
           \/ \E t \in Slots : RefreshStarted(s, t)
    PROVE  SectionKept
<1>1. TabTypeOK /\ PollTypes /\ polling \in BOOLEAN
  BY SectionWhole DEF PollTypes
<1>2. ASSUME NEW kind \in {"assign", "create", "remove", "sync"}, NEW row \in Ids \cup {None},
             Press(s, kind, row)
      PROVE  SectionKept
  <2>1. /\ ~busy /\ busy' = TRUE /\ calls' = Sent(s, kind, row) /\ Free(s)
        /\ UNCHANGED <<store, rev, list, listRev, loading, form, mounts>>
        /\ UNCHANGED <<syncJob, progress, polling, timer, strays>>
    BY <1>2 DEF Press, sectionVars
  <2>2. s \notin Mine(Spins) /\ s \notin Mine(Loads) /\ s \notin Mine({"tick"}) /\ PollTypes'
        /\ kind \in Kinds \ Loads
    BY <1>1, <2>1, FreeNotMine, SectionKinds DEF PollTypes
  <2>. QED BY <2>1, <2>2, SectionSent
<1>3. ASSUME NEW kinds \in SUBSET {"assign", "create", "remove", "sync"}, Answered(s, kinds),
             calls' = Freed(s), busy' \in {busy, FALSE},
             UNCHANGED <<store, rev, list, listRev, loading, form, mounts>>,
             UNCHANGED <<syncJob, progress, polling, timer, strays>>
      PROVE  SectionKept
  <2>1. s \notin Mine(Spins) /\ s \in Mine(TagSaves) /\ s \notin Mine({"tick"})
    BY <1>3, SectionOther, SectionKinds
  <2>2. PollTypes'
    BY <1>1, <1>3 DEF PollTypes
  <2>. QED BY <1>3, <2>1, <2>2, SectionFreed
<1>4. CASE TagSaved(s)
  <2>1. /\ Answered(s, {"assign", "remove"})
        /\ UNCHANGED <<store, rev, list, listRev, mounts>>
        /\ UNCHANGED <<syncJob, progress, polling, timer, strays>>
    BY <1>4 DEF TagSaved, sectionVars
  <2>2. CASE calls' = Freed(s) /\ busy' = FALSE /\ UNCHANGED <<loading, form>>
    BY <1>3, <2>1, <2>2
  <2>3. CASE /\ calls' = LoadConfig(s, "reload") /\ loading' = TRUE
             /\ form' \in {form, "closed"} /\ UNCHANGED busy
    <3>1. ReadsConfig(s, Request("reload", None))
      BY <1>1, <2>3, LoadConfigIs, ReadsIs, SectionKinds
    <3>2. s \in Mine(TagSaves) /\ s \notin Mine({"tick"}) /\ calls[s] # None
      BY <2>1, SectionOther, SectionKinds
    <3>3. PollTypes' /\ form' \in {"closed", "new"} \cup Ids
      BY <1>1, <2>1, <2>3 DEF PollTypes, TabTypeOK
    <3>. QED BY <2>1, <2>3, <3>1, <3>2, <3>3, SectionReads
  <2>. QED BY <1>4, <2>2, <2>3 DEF TagSaved
<1>5. CASE TagCreated(s)
  <2>1. /\ Answered(s, {"create"})
        /\ UNCHANGED <<store, rev, list, listRev, loading, form, mounts>>
        /\ UNCHANGED <<syncJob, progress, polling, timer, strays>>
    BY <1>5 DEF TagCreated, sectionVars
  <2>2. CASE calls' = Freed(s) /\ busy' \in {busy, FALSE}
    BY <1>3, <2>1, <2>2
  <2>3. ASSUME NEW tag \in Ids, calls' = Sent(s, "assign", tag), UNCHANGED busy PROVE SectionKept
    <3>1. /\ s \notin Mine(Spins) /\ s \notin Mine(Loads) /\ s \in Mine(TagSaves)
          /\ s \notin Mine({"tick"}) /\ "assign" \in Kinds \ Loads
      BY <2>1, SectionOther, SectionKinds
    <3>2. busy /\ PollTypes'
      BY <1>1, <2>1, <3>1, SectionWhole DEF OneTagSave, PollTypes
    <3>. QED BY <2>1, <2>3, <3>1, <3>2, SectionSent
  <2>. QED BY <1>5, <2>2, <2>3 DEF TagCreated
<1>6. CASE RefreshNotStarted(s)
  BY <1>3, <1>6 DEF RefreshNotStarted, sectionVars
<1>7. ASSUME NEW t \in Slots, RefreshStarted(s, t) PROVE SectionKept
  <2>1. /\ Answered(s, {"sync"}) /\ Free(t) /\ progress' = "active" /\ polling' = TRUE
        /\ loading' = TRUE
        /\ UNCHANGED <<store, rev, list, listRev, form, busy, mounts, syncJob, timer, strays>>
    BY <1>7 DEF RefreshStarted, Succeeded
  <2>2. s \in Mine(TagSaves) /\ s \notin Mine({"tick"}) /\ calls[s] # None /\ s # t
    BY <2>1, SectionOther, SectionKinds DEF Free
  <2>3. PollTypes' /\ form' \in {"closed", "new"} \cup Ids
    BY <1>1, <2>1 DEF PollTypes, TabTypeOK
  <2>4. CASE polling /\ calls' = LoadConfig(s, "reload")
    <3>1. ReadsConfig(s, Request("reload", None))
      BY <1>1, <2>4, LoadConfigIs, ReadsIs, SectionKinds
    <3>. QED BY <2>1, <2>2, <2>3, <2>4, <3>1, SectionReads
  <2>5. CASE calls' = [LoadConfig(s, "reload") EXCEPT ![t] = Request("tick", None)]
    <3>. DEFINE new == Request("tick", None)
    <3>1. new \in Fetch /\ new # None /\ new.kind = "tick" /\ new.mine
      BY RequestIs, SectionKinds
    <3>2. /\ Typed(LoadConfig(s, "reload"))
          /\ LoadConfig(s, "reload")[s] = Request("reload", None)
      BY <1>1, SectionKinds, LoadConfigIs
    <3>3. calls'[t] = new /\ calls'[s] = Request("reload", None) /\ Typed(calls')
          /\ \A u \in Slots \ {s, t} : calls'[u] = LoadConfig(s, "reload")[u]
      <4>. HIDE DEF new
      <4>1. calls' = [LoadConfig(s, "reload") EXCEPT ![t] = new]
        BY <2>5 DEF new
      <4>. QED BY <2>2, <4>1, <3>1, <3>2 DEF Typed
    <3>4. ReadsConfig(s, Request("reload", None))
      BY <1>1, <2>1, <3>3, ReadsIs, SectionKinds DEF Free
    <3>5. t \in Mine({"tick"})'
      BY <3>1, <3>3 DEF Mine, Under
    <3>. QED BY <2>1, <2>2, <2>3, <3>4, <3>5, SectionReads
  <2>. QED BY <1>7, <2>4, <2>5 DEF RefreshStarted
<1>. QED BY <1>2, <1>4, <1>5, <1>6, <1>7 DEF AssignTag, CreateAndAssign, RemoveTag, RefreshNow

\* What the API and the worker do.
LEMMA SectionServedSafe ==
    ASSUME SectionTypeOK, SectionInv, NEW s \in Slots,
           \/ SetTag(s) \/ UnsetTag(s) \/ ServeCreate(s) \/ RequestSync(s) \/ GetStatus(s)
           \/ (ServeList(s) \/ Refuse(s)) /\ UNCHANGED sectionVars
    PROVE  SectionKept
<1>1. TabTypeOK /\ PollTypes /\ OneTag
  BY SectionWhole
<1>2. rev \in 0..MaxRev /\ rev \in Nat /\ rev <= rev
      /\ store \in [Ids -> {"new", "live", "gone"}]
  BY <1>1 DEF TabTypeOK
<1>3. ASSUME ApiMove(s), store' = store, syncJob' \in {"none", "active", "ended"}, UNCHANGED pollVars
      PROVE  SectionKept
  BY <1>1, <1>3, SectionApi DEF OneTag, Live
<1>4. CASE SetTag(s)
  <2>. DEFINE written == [i \in Ids |-> IF i = calls[s].row THEN "live" ELSE "new"]
  <2>1. calls[s] # None /\ calls[s].kind \notin Loads
    BY <1>4, SectionKinds DEF SetTag, Under
  <2>2. Commit(s, written) /\ syncJob' = "active" /\ UNCHANGED pollVars /\ store' = written
    BY <1>4 DEF SetTag, Commit
  <2>3. written \in [Ids -> {"new", "live", "gone"}]
    OBVIOUS
  <2>4. OneTag'
    BY <2>2 DEF OneTag, Live
  <2>. HIDE DEF written
  <2>5. ApiMove(s)
    BY <1>1, <2>1, <2>2, <2>3, CommitMoves
  <2>. QED BY <2>2, <2>4, <2>5, SectionApi
<1>5. CASE UnsetTag(s)
  <2>. DEFINE written == [i \in Ids |-> "new"]
  <2>1. calls[s] # None /\ calls[s].kind \notin Loads
    BY <1>5, SectionKinds DEF UnsetTag, Under
  <2>2. Commit(s, written) /\ syncJob' = syncJob /\ UNCHANGED pollVars /\ store' = written
    BY <1>5 DEF UnsetTag, Commit, sectionVars, pollVars
  <2>3. written \in [Ids -> {"new", "live", "gone"}]
    OBVIOUS
  <2>4. OneTag'
    BY <2>2 DEF OneTag, Live
  <2>. HIDE DEF written
  <2>5. ApiMove(s)
    BY <1>1, <2>1, <2>2, <2>3, CommitMoves
  <2>. QED BY <1>1, <2>2, <2>4, <2>5, SectionApi DEF PollTypes
<1>6. ASSUME NEW o \in {"ok", "failed"}, calls[s] # None, calls[s].kind \notin Loads,
             calls' = [calls EXCEPT ![s].stage = o],
             UNCHANGED <<store, rev, list, listRev, loading, form, busy, mounts>>
      PROVE  ApiMove(s)
  BY <1>1, <1>2, <1>6, StageIs DEF ApiMove, Replied
<1>7. CASE ServeCreate(s)
  <2>1. /\ calls[s] # None /\ calls[s].kind \notin Loads /\ calls' = [calls EXCEPT ![s].stage = "ok"]
        /\ UNCHANGED <<store, rev, list, listRev, loading, form, busy, mounts>>
        /\ UNCHANGED pollVars /\ syncJob' = syncJob
    BY <1>7, SectionKinds DEF ServeCreate, Under, sectionVars, pollVars
  <2>. QED BY <1>1, <1>3, <1>6, <2>1 DEF PollTypes
<1>8. CASE RequestSync(s)
  <2>1. PICK o \in {"ok", "failed"} : calls' = [calls EXCEPT ![s].stage = o]
    BY <1>8 DEF RequestSync
  <2>2. /\ calls[s] # None /\ calls[s].kind \notin Loads /\ syncJob' = "active"
        /\ UNCHANGED <<store, rev, list, listRev, loading, form, busy, mounts>>
        /\ UNCHANGED pollVars
    BY <1>8, SectionKinds DEF RequestSync, Under
  <2>. QED BY <1>3, <1>6, <2>1, <2>2
<1>9. CASE GetStatus(s)
  <2>. DEFINE a == [calls[s] EXCEPT !.stage = "ok", !.job = syncJob]
  <2>1. /\ calls[s] \in Fetch /\ calls[s] # None /\ calls[s].kind \notin Loads
        /\ calls' = [calls EXCEPT ![s] = a] /\ syncJob \in {"none", "active", "ended"}
        /\ UNCHANGED <<store, rev, list, listRev, loading, form, busy, mounts>>
        /\ UNCHANGED pollVars /\ syncJob' = syncJob
    BY <1>1, <1>9, CallIs, SectionKinds
       DEF GetStatus, Under, Statuses, TabTypeOK, PollTypes, sectionVars, pollVars
  <2>2. a \in Fetch
    BY <2>1 DEF Fetch
  <2>3. /\ a.kind = calls[s].kind /\ a.row = calls[s].row /\ a.mine = calls[s].mine
        /\ a.fresh = calls[s].fresh /\ a.rev = calls[s].rev
    BY <2>1 DEF Fetch
  <2>4. a # None
    BY <2>2, TabAssumption
  <2>. HIDE DEF a
  <2>5. /\ Typed(calls') /\ Replied(s) /\ calls'[s].rev = calls[s].rev
        /\ \A t \in Slots \ {s} : calls'[t] = calls[t]
    BY <1>1, <2>1, <2>2, <2>3, <2>4 DEF TabTypeOK, Typed, Replied
  <2>6. ApiMove(s)
    BY <1>2, <2>1, <2>5 DEF ApiMove, Replied
  <2>. QED BY <1>3, <2>1, <2>6
<1>10. CASE (ServeList(s) \/ Refuse(s)) /\ UNCHANGED sectionVars
  <2>1. ApiMove(s) /\ store' = store /\ UNCHANGED pollVars /\ syncJob' = syncJob
    BY <1>1, <1>10, ServeListMoves, RefuseMoves DEF ServeList, Refuse, sectionVars, pollVars
  <2>. QED BY <1>1, <1>3, <2>1 DEF PollTypes
<1>. QED BY <1>4, <1>5, <1>7, <1>8, <1>9, <1>10

\* The section is opened again.
LEMMA RemountSectionSafe ==
    ASSUME SectionTypeOK, SectionInv, NEW s \in Slots, NEW t \in Slots, RemountSection(s, t)
    PROVE  SectionKept
<1>. DEFINE left(a) == [a EXCEPT !.fresh = FALSE, !.mine = FALSE]
            p == Request("load", None)
            q == Request("status", None)
<1>1. TabTypeOK /\ PollTypes
  BY SectionWhole
<1>2. /\ p \in Fetch /\ p # None /\ p.kind = "load" /\ p.mine /\ p.fresh /\ p.stage = "sent"
      /\ p.rev = 0
      /\ q \in Fetch /\ q # None /\ q.kind = "status" /\ q.rev = 0
  BY RequestIs, SectionKinds
<1>3. ASSUME NEW a \in Fetch
      PROVE  left(a) \in Fetch /\ left(a) # None /\ ~left(a).mine /\ left(a).rev = a.rev
  BY TabAssumption DEF Fetch
<1>4. \A u \in Slots : calls[u] # None => calls[u] \in Fetch
  BY <1>1, CallIs
<1>5. /\ s # t
      /\ calls' = [u \in Slots |-> IF u = t THEN q ELSE IF u = s THEN p ELSE
                                   IF calls[u] = None THEN None ELSE left(calls[u])]
  BY DEF RemountSection, EachCall
<1>. HIDE DEF left, p, q
<1>6. Typed(calls')
  BY <1>2, <1>3, <1>4, <1>5 DEF Typed
<1>7. /\ mounts' \in 1..MaxMounts /\ mounts' # mounts /\ 0 \in 0..MaxRev /\ 0 \in 0..MaxStrays
      /\ UNCHANGED <<store, rev, syncJob>> /\ list' = {} /\ listRev' = 0 /\ loading' = TRUE
      /\ form' = "closed" /\ busy' = FALSE
      /\ progress' = "none" /\ polling' = FALSE /\ timer' = FALSE /\ strays' = 0
  BY <1>1, TabAssumption, StraysAssumption DEF RemountSection, TabTypeOK
<1>8. TabTypeOK' /\ PollTypes' /\ StepsForth
  BY <1>1, <1>6, <1>7 DEF TabTypeOK, PollTypes, Typed, StepsForth
<1>9. \A u \in Slots \ {s, t} : calls'[u] # None => ~calls'[u].mine
  BY <1>3, <1>4, <1>5
<1>10. calls'[s] = p /\ calls'[t] = q
  BY <1>5
<1>11. /\ s \in Mine(Spins)' /\ Mine(Loads)' \subseteq {s} /\ Mine(TagSaves)' = {}
  BY <1>2, <1>9, <1>10, SectionKinds, LoadKinds DEF Mine, Under
<1>12. SpinnerEnds' /\ NewestLoad'
  BY <1>2, <1>7, <1>10, <1>11 DEF SpinnerEnds, NewestLoad
<1>13. RevsPast'
  <2>1. /\ \A u \in Slots : calls[u] # None => calls[u].rev <= rev
        /\ rev \in Nat
    BY DEF SectionInv, RevsPast, SectionTypeOK, TabTypeOK
  <2>2. ASSUME NEW u \in Slots, calls'[u] # None PROVE calls'[u].rev <= rev
    BY <1>2, <1>3, <1>4, <1>5, <2>1, <2>2
  <2>. QED BY <1>7, <2>1, <2>2 DEF RevsPast
<1>14. PollingAlive' /\ OneTagSave' /\ OneTag'
  BY <1>7, <1>11, SectionWhole DEF PollingAlive, OneTagSave, OneTag, Live
<1>. QED BY <1>8, <1>12, <1>13, <1>14
         DEF SectionKept, SectionTypeOK, SectionInv, PollTypes, OneTagSave, OneTag

\* Every step of the section of Paperless tags (paperless-tag-section.tsx).
LEMMA SectionSafe == ASSUME SectionTypeOK, SectionInv, SectionNext PROVE SectionKept
<1>1. TabTypeOK /\ PollTypes
  BY SectionWhole
<1>2. CASE OpenPanel \/ ClosePanel
  <2>1. /\ form' \in {"closed", "new"} \cup Ids /\ UNCHANGED <<syncJob, progress, polling, timer, strays>>
        /\ UNCHANGED <<store, rev, calls, list, listRev, loading, busy, mounts>>
    BY <1>2 DEF OpenPanel, ClosePanel, sectionVars
  <2>2. /\ TabTypeOK' /\ StepsForth /\ SpinnerEnds' /\ NewestLoad' /\ RevsPast'
    BY <1>1, <2>1, FormOnly DEF SectionInv
  <2>3. \A kinds : Mine(kinds)' = Mine(kinds)
    BY <1>1, <2>1, FormOnly
  <2>4. PollTypes' /\ PollingAlive' /\ OneTagSave' /\ OneTag'
    BY <1>1, <2>1, <2>3, SectionWhole DEF PollTypes, PollingAlive, OneTagSave, OneTag, Live
  <2>. QED BY <2>2, <2>4 DEF SectionKept, SectionTypeOK, SectionInv, PollTypes, OneTagSave, OneTag
<1>3. CASE RunEnds
  <2>1. /\ syncJob' = "ended" /\ rev' = rev + 1 /\ rev' \in 0..MaxRev
        /\ UNCHANGED <<progress, polling, timer, strays>>
        /\ UNCHANGED <<store, calls, list, listRev, loading, form, busy, mounts>>
    BY <1>1, <1>3, TabAssumption DEF RunEnds, TabTypeOK, pollVars
  <2>2. TabTypeOK' /\ StepsForth /\ PollTypes'
    BY <1>1, <2>1 DEF TabTypeOK, StepsForth, PollTypes
  <2>3. \A kinds : Mine(kinds)' = Mine(kinds)
    BY <2>1 DEF Mine, Under
  <2>4. RevsPast'
    <3>1. /\ rev \in Nat /\ listRev \in Nat
          /\ \A t \in Slots : calls[t] # None => calls[t].rev \in Nat
      BY <1>1, CallIs DEF TabTypeOK
    <3>. QED BY <2>1, <3>1 DEF SectionInv, RevsPast
  <2>5. SpinnerEnds' /\ NewestLoad' /\ PollingAlive' /\ OneTagSave' /\ OneTag'
    BY <2>1, <2>3, SectionWhole
       DEF SectionInv, SpinnerEnds, NewestLoad, PollingAlive, OneTagSave, OneTag, Live
  <2>. QED BY <2>2, <2>4, <2>5 DEF SectionKept, SectionTypeOK, SectionInv, PollTypes, OneTagSave, OneTag
<1>4. ASSUME NEW s \in Slots, Ignore(s), UNCHANGED sectionVars PROVE SectionKept
  <2>1. UNCHANGED <<syncJob, progress, polling, timer, strays>> /\ UNCHANGED <<store, busy>>
    BY <1>4 DEF Ignore, sectionVars
  <2>2. TabTypeOK' /\ StepsForth /\ SpinnerEnds' /\ NewestLoad' /\ RevsPast'
    BY <1>1, <1>4, IgnoreKeeps, IgnorePlain DEF SectionInv
  <2>3. Mine(TagSaves)' = Mine(TagSaves) /\ Mine({"tick"})' = Mine({"tick"})
    <3>1. \A kinds \in SUBSET Kinds : Mine(kinds)' = Mine(kinds)
      BY <1>1, <1>4, IgnoreKeeps
    <3>2. TagSaves \subseteq Kinds /\ {"tick"} \subseteq Kinds
      BY SectionKinds
    <3>. QED BY <3>1, <3>2
  <2>4. PollTypes' /\ PollingAlive' /\ OneTagSave' /\ OneTag'
    BY <1>1, <2>1, <2>3, SectionWhole DEF PollTypes, PollingAlive, OneTagSave, OneTag, Live
  <2>. QED BY <2>2, <2>4 DEF SectionKept, SectionTypeOK, SectionInv, PollTypes, OneTagSave, OneTag
<1>. QED BY <1>2, <1>3, <1>4, ConfigLoadedSafe, PollsSafe, ParentRendersSafe, ButtonsSafe,
            SectionServedSafe, RemountSectionSafe DEF SectionNext

-----------------------------------------------------------------------------
(* Requests of a page.                                                     *)

PostKinds == RowWrites \cup FormWrites \cup Reads \cup {"unset", "test"}

\* The value of a request to which nothing is written.
LEMMA NewPostIs ==
    ASSUME NEW kind \in PostKinds, NEW i \in Ids \cup {None}, NEW f \in Filters, NEW v \in Values
    PROVE  /\ NewPost(kind, i, f, v) \in Post /\ NewPost(kind, i, f, v) # None
           /\ NewPost(kind, i, f, v).kind = kind /\ NewPost(kind, i, f, v).row = i
           /\ NewPost(kind, i, f, v).filter = f /\ NewPost(kind, i, f, v).value = v
           /\ NewPost(kind, i, f, v).stage = "sent"
<1>1. [j \in Ids |-> "none"] \in [Ids -> Values]
  BY DEF Values
<1>2. NewPost(kind, i, f, v) \in Post
  BY <1>1 DEF NewPost, Post, PostKinds
<1>. QED BY <1>2, PostAssumption DEF NewPost

\* A request under way has the fields of one.
LEMMA PostIs ==
    ASSUME PageTypeOK, NEW s \in Slots, posts[s] # None
    PROVE  /\ posts[s] \in Post
           /\ posts[s].kind \in PostKinds /\ posts[s].row \in Ids \cup {None}
           /\ posts[s].filter \in Filters /\ posts[s].value \in Values
           /\ posts[s].stage \in {"sent", "ok", "failed"} /\ posts[s].rows \in [Ids -> Values]
BY DEF PageTypeOK, Post, PostKinds

TypedPosts(ps) == ps \in [Slots -> Post \cup {None}]

\* Of all slots only s is touched.
OnlySlot(s) == TypedPosts(posts') /\ \A t \in Slots \ {s} : posts'[t] = posts[t]

\* A new request stands in slot s.
Stands(s, kind, i, f) ==
    /\ OnlySlot(s)
    /\ posts'[s] # None /\ posts'[s].kind = kind /\ posts'[s].row = i /\ posts'[s].filter = f
    /\ posts'[s].stage = "sent"

\* A request of an admin page just posted.
LEMMA PostedIs ==
    ASSUME PageTypeOK, NEW s \in Slots, NEW kind \in PostKinds, NEW i \in Ids \cup {None},
           NEW f \in Filters, NEW v \in Values, posts' = Posted(s, kind, i, f, v)
    PROVE  Stands(s, kind, i, f)
<1>. DEFINE p == NewPost(kind, i, f, v)
<1>1. /\ p \in Post /\ p # None /\ p.kind = kind /\ p.row = i /\ p.filter = f /\ p.stage = "sent"
  BY NewPostIs
<1>2. posts' = [posts EXCEPT ![s] = p]
  BY DEF Posted
<1>. HIDE DEF p
<1>. QED BY <1>1, <1>2 DEF PageTypeOK, Stands, OnlySlot, TypedPosts

\* A request of an admin page taken out of its slot.
LEMMA UnpostedIs ==
    ASSUME PageTypeOK, NEW s \in Slots, posts' = Unposted(s)
    PROVE  OnlySlot(s) /\ posts'[s] = None
BY DEF PageTypeOK, Unposted, OnlySlot, TypedPosts

\* The API answers: the request keeps its slot and what it is about.
PostAnswered(s) ==
    /\ OnlySlot(s)
    /\ posts[s] # None /\ posts'[s] # None
    /\ posts'[s].kind = posts[s].kind /\ posts'[s].row = posts[s].row
    /\ posts'[s].filter = posts[s].filter

\* The outcome of a write changes the stage of one request only.
LEMMA OutcomeIs ==
    ASSUME PageTypeOK, NEW s \in Slots, posts[s] # None, NEW o \in {"ok", "failed"},
           posts' = [posts EXCEPT ![s].stage = o]
    PROVE  /\ PostAnswered(s) /\ posts'[s].stage = o /\ posts'[s].rows = posts[s].rows
<1>. DEFINE p == [posts[s] EXCEPT !.stage = o]
<1>1. posts[s] \in Post
  BY PostIs
<1>2. posts' = [posts EXCEPT ![s] = p]
  BY DEF PageTypeOK
<1>3. p \in Post
  BY <1>1 DEF Post
<1>4. /\ p.kind = posts[s].kind /\ p.row = posts[s].row /\ p.filter = posts[s].filter
      /\ p.stage = o /\ p.rows = posts[s].rows
  BY <1>1 DEF Post
<1>5. p # None
  BY <1>3, PostAssumption
<1>. HIDE DEF p
<1>. QED BY <1>2, <1>3, <1>4, <1>5 DEF PageTypeOK, PostAnswered, OnlySlot, TypedPosts

\* The rows as the API answers them are rows; without a filter they are the table.
LEMMA RowsOfIs ==
    ASSUME PageTypeOK, NEW f \in Filters
    PROVE  /\ RowsOf(f) \in [Ids -> Values]
           /\ RowsOf("all") = table
BY DEF RowsOf, PageTypeOK, Values

\* The API answers with the rows of the table that pass the filter.
LEMMA AnswerRowsIs ==
    ASSUME PageTypeOK, NEW s \in Slots, AnswerRows(s)
    PROVE  /\ PostAnswered(s) /\ posts'[s].stage = "ok"
           /\ posts'[s].rows = RowsOf(posts[s].filter)
<1>. DEFINE rows == RowsOf(posts[s].filter)
            p == [posts[s] EXCEPT !.stage = "ok", !.rows = rows]
<1>1. posts[s] # None /\ posts[s] \in Post
  BY PostIs DEF AnswerRows, Underway
<1>2. posts' = [posts EXCEPT ![s] = p]
  BY DEF PageTypeOK, AnswerRows
<1>3. rows \in [Ids -> Values]
  BY <1>1, PostIs, RowsOfIs
<1>. HIDE DEF rows
<1>4. p \in Post
  BY <1>1, <1>3 DEF Post
<1>5. /\ p.kind = posts[s].kind /\ p.row = posts[s].row /\ p.filter = posts[s].filter
      /\ p.stage = "ok" /\ p.rows = rows
  BY <1>1 DEF Post
<1>6. p # None
  BY <1>4, PostAssumption
<1>. HIDE DEF p
<1>7. /\ PostAnswered(s) /\ posts'[s].stage = "ok" /\ posts'[s].rows = rows
  BY <1>1, <1>2, <1>4, <1>5, <1>6 DEF PageTypeOK, PostAnswered, OnlySlot, TypedPosts
<1>. QED BY <1>7 DEF rows

\* A write is committed, or the row is not in the table.
LEMMA AnswerWriteIs ==
    ASSUME PageTypeOK, NEW s \in Slots, NEW kinds, NEW i, NEW v,
           i \in Ids => v \in Values, AnswerWrite(s, kinds, i, v)
    PROVE  /\ PostAnswered(s) /\ posts'[s].rows = posts[s].rows
           /\ posts'[s].stage # "sent"
           /\ table' \in [Ids -> Values]
           /\ \A j \in Ids : IF j = i THEN table'[j] = v ELSE table'[j] = table[j]
           /\ UNCHANGED <<onPage, pageFilter, awaiting, busyId, formLocked, clicks, crossed>>
<1>1. PICK o \in {"ok", "failed"} : posts' = [posts EXCEPT ![s].stage = o]
  BY DEF AnswerWrite
<1>2. posts[s] # None /\ table' = [table EXCEPT ![i] = v]
  BY DEF AnswerWrite, Underway
<1>3. PostAnswered(s) /\ posts'[s].stage = o /\ posts'[s].rows = posts[s].rows
  BY <1>1, <1>2, OutcomeIs
<1>4. /\ table' \in [Ids -> Values]
      /\ \A j \in Ids : IF j = i THEN table'[j] = v ELSE table'[j] = table[j]
  BY <1>2 DEF PageTypeOK
<1>. QED BY <1>3, <1>4 DEF AnswerWrite

\* What is written is what is there: nothing changes.
LEMMA SameTable ==
    ASSUME PageTypeOK, NEW i, table' \in [Ids -> Values],
           \A j \in Ids : IF j = i THEN table'[j] = table[i] ELSE table'[j] = table[j]
    PROVE  table' = table
BY DEF PageTypeOK

\* What is under way, after each of these.
LEMMA UnderwayStays ==
    ASSUME NEW s \in Slots, PostAnswered(s), NEW kinds PROVE Underway(kinds)' = Underway(kinds)
BY DEF PostAnswered, OnlySlot, Underway

\* A step on one slot leaves the requests in the others under way.
LEMMA UnderwayElse ==
    ASSUME NEW s \in Slots, OnlySlot(s), NEW kinds
    PROVE  Underway(kinds)' \ {s} = Underway(kinds) \ {s}
BY DEF OnlySlot, Underway

\* The requests under way once one more was posted.
LEMMA UnderwayStands ==
    ASSUME NEW s \in Slots, NEW kind, NEW i, NEW f, Stands(s, kind, i, f), NEW kinds
    PROVE  /\ kind \in kinds => Underway(kinds)' = Underway(kinds) \cup {s}
           /\ kind \notin kinds => Underway(kinds)' = Underway(kinds) \ {s}
BY DEF Stands, OnlySlot, Underway

\* The requests under way once one was answered.
LEMMA UnderwayGone ==
    ASSUME NEW s \in Slots, OnlySlot(s), posts'[s] = None, NEW kinds
    PROVE  Underway(kinds)' = Underway(kinds) \ {s}
BY DEF OnlySlot, Underway

\* What the kinds are and are not.
LEMMA PostKindsAre ==
    /\ "rows" \in PostKinds /\ "rows" \in Reads /\ "documents" \in PostKinds
    /\ "rows" \notin RowWrites /\ "rows" \notin FormWrites
    /\ RowWrites \subseteq PostKinds /\ FormWrites \subseteq PostKinds
    /\ \A k \in RowWrites : k \notin FormWrites /\ k # "rows" /\ k # "createShare"
    /\ \A k \in FormWrites : k \notin RowWrites /\ k # "rows"
    /\ "documents" \notin RowWrites /\ "documents" \notin FormWrites
    /\ "resetPassword" \in FormWrites /\ "createShare" \in FormWrites
    /\ "saveSetting" \in FormWrites /\ "refreshSaved" \in FormWrites
    /\ {"approve", "reject", "disable", "enable", "role", "permission", "revoke"} = RowWrites
    /\ {"none", "READ", "WRITE", "ACTIVE", "DISABLED", "first", "second"} \subseteq Values
    /\ "all" \in Filters
BY DEF PostKinds, RowWrites, FormWrites, Reads, Values, Filters

-----------------------------------------------------------------------------
(* What the pages do alike.                                                *)

\* The locks, when the API answers.
LEMMA AnsweredLocks ==
    ASSUME NEW s \in Slots, PostAnswered(s), UNCHANGED <<awaiting, busyId, formLocked>>, LocksHeld
    PROVE  LocksHeld'
<1>1. /\ RowReads' = RowReads /\ Underway(RowWrites)' = Underway(RowWrites)
      /\ Underway(FormWrites)' = Underway(FormWrites)
  BY UnderwayStays DEF RowReads
<1>2. \A t \in Slots : posts[t] # None => posts'[t].row = posts[t].row
  BY DEF PostAnswered, OnlySlot
<1>3. \A t \in Underway(RowWrites) : posts'[t].row = posts[t].row
  BY <1>2 DEF Underway
<1>. QED BY <1>1, <1>3 DEF LocksHeld

\* The rows, when the API answers: a read reads now, a write has made rows old before.
LEMMA AnsweredRows ==
    ASSUME NEW s \in Slots, PostAnswered(s), UNCHANGED <<onPage, pageFilter, crossed>>,
           RowsFollow, table' = table \/ s \in Dirty,
           posts[s].kind = "rows" /\ posts'[s].stage = "ok" =>
               posts'[s].rows = RowsOf(posts[s].filter)
    PROVE  RowsFollow'
<1>1. RowReads' = RowReads /\ Dirty' = Dirty
  BY UnderwayStays DEF RowReads, Dirty
<1>2. SUFFICES ASSUME ~crossed PROVE RowsFollow'
  BY DEF RowsFollow
<1>3. \A t \in RowReads : posts'[t].filter = posts[t].filter
  BY DEF PostAnswered, OnlySlot, RowReads, Underway
<1>4. /\ \A t, u \in RowReads : t = u
      /\ \A t \in RowReads : posts'[t].filter = pageFilter
  BY <1>2, <1>3 DEF RowsFollow
<1>5. ASSUME Dirty = {}
      PROVE  /\ \A t \in RowReads : posts'[t].stage = "ok" => posts'[t].rows = RowsOf(pageFilter)'
             /\ RowReads = {} => onPage = [filter |-> pageFilter, rows |-> RowsOf(pageFilter)']
  <2>1. table' = table /\ RowsOf(pageFilter)' = RowsOf(pageFilter)
    BY <1>5 DEF RowsOf
  <2>2. ASSUME NEW t \in RowReads, posts'[t].stage = "ok" PROVE posts'[t].rows = RowsOf(pageFilter)
    <3>1. CASE t = s
      <4>1. posts[s].kind = "rows" /\ posts[s].filter = pageFilter
        BY <1>2, <2>2, <3>1 DEF RowsFollow, RowReads, Underway
      <4>. QED BY <2>2, <3>1, <4>1
    <3>2. CASE t # s
      <4>1. posts'[t] = posts[t]
        BY <2>2, <3>2 DEF PostAnswered, OnlySlot, RowReads, Underway
      <4>. QED BY <1>2, <1>5, <2>2, <4>1 DEF RowsFollow
    <3>. QED BY <3>1, <3>2
  <2>3. RowReads = {} => onPage = [filter |-> pageFilter, rows |-> RowsOf(pageFilter)]
    BY <1>2, <1>5 DEF RowsFollow
  <2>. QED BY <2>1, <2>2, <2>3
<1>. QED BY <1>1, <1>4, <1>5 DEF RowsFollow

\* A read that has just begun is the only one, or requests crossed.
LEMMA AskedRows ==
    ASSUME NEW s \in Slots, NEW f \in Filters, Stands(s, "rows", None, f),
           crossed' = (Underway({"rows"}) # {} \/ f # pageFilter')
    PROVE  RowsFollow'
<1>1. SUFFICES ASSUME Underway({"rows"}) = {}, f = pageFilter' PROVE RowsFollow'
  BY DEF RowsFollow
<1>2. RowReads' = {s}
  BY <1>1, UnderwayStands DEF RowReads
<1>3. posts'[s].filter = pageFilter' /\ posts'[s].stage # "ok"
  BY <1>1 DEF Stands
<1>. QED BY <1>2, <1>3 DEF RowsFollow

\* Rows that arrive are shown and free what waited for them.
LEMMA RowsArriveKeeps ==
    ASSUME PageTypeOK, NEW s \in Slots, RowsArrive(s)
    PROVE  /\ PageTypeOK'
           /\ LocksHeld => LocksHeld'
           /\ RowsFollow => RowsFollow'
<1>1. OnlySlot(s) /\ posts'[s] = None
  BY UnpostedIs DEF RowsArrive
<1>2. posts[s] # None /\ posts[s].kind = "rows" /\ s \in RowReads
  BY DEF RowsArrive, CameBack, Underway, RowReads
<1>3. posts[s].filter \in Filters /\ posts[s].rows \in [Ids -> Values]
  BY <1>2, PostIs
<1>4. onPage' \in [filter : Filters, rows : [Ids -> Values]]
  BY <1>3 DEF RowsArrive, PageTypeOK
<1>5. PageTypeOK'
  BY <1>1, <1>4 DEF RowsArrive, PageTypeOK, OnlySlot, TypedPosts
<1>6. /\ RowReads' = RowReads \ {s} /\ Dirty' = Dirty
      /\ Underway(RowWrites)' = Underway(RowWrites)
      /\ Underway(FormWrites)' = Underway(FormWrites)
  <2>1. /\ s \notin Underway(RowWrites) /\ s \notin Underway(FormWrites) /\ s \notin Dirty
    BY <1>2, PostKindsAre DEF Underway, Dirty
  <2>. QED BY <1>1, <2>1, UnderwayGone DEF RowReads, Dirty
<1>7. \A t \in Underway(RowWrites) : posts'[t] = posts[t]
  BY <1>1, <1>2, PostKindsAre DEF OnlySlot, Underway
<1>8. LocksHeld => LocksHeld'
  BY <1>6, <1>7 DEF LocksHeld, RowsArrive
<1>9. RowsFollow => RowsFollow'
  <2>1. SUFFICES ASSUME RowsFollow, ~crossed, WentWell(s) PROVE RowsFollow'
    BY DEF RowsArrive, RowsFollow
  <2>2. RowReads' = {} /\ posts[s].filter = pageFilter /\ pageFilter' = pageFilter
    BY <1>2, <1>6, <2>1 DEF RowsFollow, RowsArrive
  <2>3. onPage' = [filter |-> pageFilter, rows |-> posts[s].rows]
    BY <2>1, <2>2 DEF RowsArrive
  <2>4. Dirty = {} => posts[s].rows = RowsOf(pageFilter)
    BY <1>2, <2>1 DEF RowsFollow, WentWell
  <2>5. RowsOf(pageFilter)' = RowsOf(pageFilter)
    BY DEF RowsArrive, RowsOf
  <2>. QED BY <1>6, <2>2, <2>3, <2>4, <2>5 DEF RowsFollow
<1>. QED BY <1>5, <1>8, <1>9

\* A row action begins: from now on rows may be old.
LEMMA StartRowKeeps ==
    ASSUME PageTypeOK, NEW s \in Slots, NEW kind \in RowWrites, NEW i \in Ids, NEW v \in Values,
           StartRowAction(s, kind, i, v)
    PROVE  /\ PageTypeOK' /\ OnlySlot(s) /\ posts[s] = None /\ posts'[s].kind = kind
           /\ LocksHeld => LocksHeld'
           /\ RowsFollow => RowsFollow'
<1>1. /\ Stands(s, kind, i, pageFilter) /\ posts[s] = None
  BY PostedIs, PostKindsAre DEF StartRowAction, PageTypeOK, NextClick, Vacant
<1>2. OnlySlot(s) /\ posts'[s] # None /\ posts'[s].kind = kind /\ posts'[s].row = i
  BY <1>1 DEF Stands
<1>3. PageTypeOK'
  BY <1>2 DEF StartRowAction, PageTypeOK, OnlySlot, TypedPosts
<1>4. s \notin RowReads /\ s \notin Underway(FormWrites)
  BY <1>1 DEF RowReads, Underway
<1>5. /\ RowReads' = RowReads /\ s \in Dirty'
      /\ s \in Underway(RowWrites)' /\ Underway(FormWrites)' = Underway(FormWrites)
  <2>1. kind \notin {"rows"} /\ kind \notin FormWrites /\ kind \in RowWrites \cup {"createShare"}
    BY PostKindsAre
  <2>2. Underway({"rows"})' = Underway({"rows"}) \ {s}
    BY <1>1, <2>1, UnderwayStands
  <2>3. Underway(FormWrites)' = Underway(FormWrites) \ {s}
    BY <1>1, <2>1, UnderwayStands
  <2>. QED BY <1>2, <1>4, <2>1, <2>2, <2>3 DEF RowReads, Dirty, Underway
<1>6. LocksHeld => LocksHeld'
  BY <1>2, <1>5 DEF LocksHeld, StartRowAction
<1>7. RowsFollow => RowsFollow'
  <2>1. \A t \in RowReads : posts'[t] = posts[t]
    BY <1>2, <1>4 DEF OnlySlot, RowReads, Underway
  <2>. QED BY <1>5, <2>1 DEF RowsFollow, StartRowAction
<1>. QED BY <1>1, <1>2, <1>3, <1>6, <1>7

\* A form is sent.
LEMMA StartFormKeeps ==
    ASSUME PageTypeOK, NEW s \in Slots, NEW kind \in FormWrites, NEW i \in Ids \cup {None},
           NEW v \in Values, StartForm(s, kind, i, v)
    PROVE  /\ PageTypeOK' /\ posts[s] = None /\ Stands(s, kind, i, pageFilter)
           /\ LocksHeld => LocksHeld'
           /\ RowsFollow => RowsFollow'
<1>1. /\ Stands(s, kind, i, pageFilter) /\ posts[s] = None
  BY PostedIs, PostKindsAre DEF StartForm, PageTypeOK, NextClick, Vacant
<1>2. OnlySlot(s) /\ posts'[s] # None /\ posts'[s].kind = kind
  BY <1>1 DEF Stands
<1>3. PageTypeOK'
  BY <1>2 DEF StartForm, PageTypeOK, OnlySlot, TypedPosts
<1>4. s \notin RowReads /\ s \notin Underway(RowWrites) /\ s \notin Dirty
  BY <1>1 DEF RowReads, Underway, Dirty
<1>5. /\ RowReads' = RowReads /\ Dirty \subseteq Dirty'
      /\ Underway(RowWrites)' = Underway(RowWrites)
      /\ Underway(FormWrites)' = Underway(FormWrites) \cup {s}
  <2>1. kind \notin {"rows"} /\ kind \notin RowWrites
    BY PostKindsAre
  <2>2. Underway({"rows"})' = Underway({"rows"}) \ {s}
    BY <1>1, <2>1, UnderwayStands
  <2>3. Underway(RowWrites)' = Underway(RowWrites) \ {s}
    BY <1>1, <2>1, UnderwayStands
  <2>4. Underway(FormWrites)' = Underway(FormWrites) \cup {s}
    BY <1>1, UnderwayStands
  <2>5. Dirty' \ {s} = Dirty \ {s}
    BY <1>2, UnderwayElse DEF Dirty
  <2>. QED BY <1>4, <2>2, <2>3, <2>4, <2>5 DEF RowReads
<1>6. \A t \in RowReads \cup Underway(RowWrites) : posts'[t] = posts[t]
  BY <1>2, <1>4 DEF OnlySlot, RowReads, Underway
<1>7. LocksHeld => LocksHeld'
  <2>1. SUFFICES ASSUME LocksHeld PROVE LocksHeld'
    OBVIOUS
  <2>2. Underway(FormWrites) = {} /\ Underway(FormWrites)' = {s} /\ formLocked' = TRUE
    BY <1>5, <2>1 DEF LocksHeld, StartForm
  <2>. QED BY <1>5, <1>6, <2>1, <2>2 DEF LocksHeld, StartForm
<1>8. RowsFollow => RowsFollow'
  <2>1. RowsOf(pageFilter)' = RowsOf(pageFilter)
    BY DEF StartForm, RowsOf
  <2>2. Dirty' = {} => Dirty = {}
    BY <1>5
  <2>. QED BY <1>5, <1>6, <2>1, <2>2 DEF RowsFollow, StartForm
<1>. QED BY <1>1, <1>3, <1>7, <1>8

\* The locks, when an action or a form is done.
LEMMA DoneLocks ==
    ASSUME NEW s \in Slots, OnlySlot(s), LocksHeld,
           posts'[s] = None \/ posts'[s].kind = "rows",
           awaiting' => (posts'[s] # None \/ awaiting),
           \/ s \in Underway(RowWrites) /\ busyId' = None /\ formLocked' = formLocked
           \/ s \in Underway(FormWrites) /\ busyId' = busyId /\ formLocked' = FALSE
    PROVE  LocksHeld'
<1>1. s \notin RowReads
  BY PostKindsAre DEF RowReads, Underway
<1>2. s \notin Underway(RowWrites)' /\ s \notin Underway(FormWrites)'
  BY PostKindsAre DEF Underway
<1>3. /\ RowReads' \ {s} = RowReads
      /\ Underway(RowWrites)' = Underway(RowWrites) \ {s}
      /\ Underway(FormWrites)' = Underway(FormWrites) \ {s}
  BY <1>1, <1>2, UnderwayElse DEF RowReads
<1>4. awaiting' => RowReads' # {}
  <2>1. CASE posts'[s] # None
    BY <2>1 DEF RowReads, Underway
  <2>2. CASE awaiting
    BY <1>3, <2>2 DEF LocksHeld
  <2>. QED BY <2>1, <2>2
<1>5. CASE s \in Underway(RowWrites) /\ busyId' = None /\ formLocked' = formLocked
  <2>1. s \notin Underway(FormWrites)
    BY <1>5, PostKindsAre DEF Underway
  <2>. QED BY <1>3, <1>4, <1>5, <2>1 DEF LocksHeld
<1>6. CASE s \in Underway(FormWrites) /\ busyId' = busyId /\ formLocked' = FALSE
  <2>1. s \notin Underway(RowWrites)
    BY <1>6, PostKindsAre DEF Underway
  <2>2. Underway(FormWrites)' = {}
    BY <1>3, <1>6 DEF LocksHeld
  <2>3. \A t \in Underway(RowWrites) : posts'[t] = posts[t]
    BY <2>1 DEF OnlySlot, Underway
  <2>. QED BY <1>3, <1>4, <1>6, <2>1, <2>2, <2>3 DEF LocksHeld
<1>. QED BY <1>5, <1>6

-----------------------------------------------------------------------------
(* The administration of users.                                            *)

UsersTypes == PageTypeOK /\ resetTarget \in Ids \cup {None}
UsersKept == UsersTypes' /\ UsersInv'

\* The actions on the status of a user are writes of rows.
LEMMA StatusActionsAre ==
    /\ StatusActions \cup {"role"} \subseteq RowWrites
    /\ \A action \in StatusActions : After(action) \in Values
BY PostKindsAre DEF StatusActions, After

\* Buttons of the page.
LEMMA UsersButtonsSafe ==
    ASSUME UsersTypes, UsersInv, NEW s \in Slots,
           \/ \E f \in {"all", "PENDING_APPROVAL"} : SetStatusFilter(s, f)
           \/ \E i \in Ids : ApplyRole(s, i) \/ \E action \in StatusActions : RunAction(s, action, i)
           \/ SubmitReset(s)
    PROVE  UsersKept
<1>0. PageTypeOK
  BY DEF UsersTypes
<1>1. ASSUME NEW f \in {"all", "PENDING_APPROVAL"}, SetStatusFilter(s, f) PROVE UsersKept
  <2>1. f \in Filters /\ posts[s] = None
    BY <1>1 DEF Filters, SetStatusFilter, NextClick, Vacant
  <2>2. Stands(s, "rows", None, f)
    BY <1>0, <1>1, <2>1, PostedIs, PostKindsAre DEF SetStatusFilter, AskRows
  <2>3. UsersTypes'
    BY <1>0, <1>1, <2>1, <2>2
       DEF SetStatusFilter, AskRows, UsersTypes, PageTypeOK, Stands, OnlySlot, TypedPosts
  <2>4. RowsFollow'
    BY <1>1, <2>1, <2>2, AskedRows DEF SetStatusFilter, AskRows
  <2>5. /\ RowReads' # {} /\ Underway(RowWrites)' = Underway(RowWrites)
        /\ Underway(FormWrites)' = Underway(FormWrites)
    <3>1. Underway({"rows"})' = Underway({"rows"}) \cup {s}
      BY <2>2, UnderwayStands
    <3>2. Underway(RowWrites)' = Underway(RowWrites) \ {s}
      BY <2>2, UnderwayStands, PostKindsAre
    <3>3. Underway(FormWrites)' = Underway(FormWrites) \ {s}
      BY <2>2, UnderwayStands, PostKindsAre
    <3>. QED BY <2>1, <3>1, <3>2, <3>3 DEF RowReads, Underway
  <2>6. \A t \in Underway(RowWrites) : posts'[t] = posts[t]
    BY <2>1, <2>2 DEF Stands, OnlySlot, Underway
  <2>7. LocksHeld'
    BY <1>1, <2>5, <2>6 DEF UsersInv, LocksHeld, SetStatusFilter
  <2>. QED BY <2>3, <2>4, <2>7 DEF UsersKept, UsersInv
<1>2. ASSUME NEW i \in Ids, ApplyRole(s, i) PROVE UsersKept
  <2>1. StartRowAction(s, "role", i, "none") /\ resetTarget' = resetTarget
    BY <1>2 DEF ApplyRole
  <2>2. "role" \in RowWrites /\ "none" \in Values
    BY PostKindsAre
  <2>. QED BY <2>1, <2>2, StartRowKeeps DEF UsersTypes, UsersInv, UsersKept
<1>3. ASSUME NEW i \in Ids, NEW action \in StatusActions, RunAction(s, action, i) PROVE UsersKept
  <2>1. StartRowAction(s, action, i, After(action)) /\ resetTarget' = resetTarget
    BY <1>3 DEF RunAction
  <2>2. action \in RowWrites /\ After(action) \in Values
    BY StatusActionsAre
  <2>. QED BY <2>1, <2>2, StartRowKeeps DEF UsersTypes, UsersInv, UsersKept
<1>4. CASE SubmitReset(s)
  <2>1. StartForm(s, "resetPassword", resetTarget, "none") /\ resetTarget' = resetTarget
    BY <1>4 DEF SubmitReset
  <2>2. "resetPassword" \in FormWrites /\ "none" \in Values
    BY PostKindsAre
  <2>. QED BY <2>1, <2>2, StartFormKeeps DEF UsersTypes, UsersInv, UsersKept
<1>. QED BY <1>1, <1>2, <1>3, <1>4

\* Answers to the page.
LEMMA UsersAnswersSafe ==
    ASSUME UsersTypes, UsersInv, NEW s \in Slots, ActionDone(s) \/ ResetDone(s)
    PROVE  UsersKept
<1>1. PageTypeOK /\ LocksHeld /\ RowsFollow
  BY DEF UsersTypes, UsersInv
<1>2. /\ posts[s] # None /\ pageFilter' = pageFilter
      /\ UNCHANGED <<table, onPage>>
      /\ \/ s \in Underway(RowWrites) /\ busyId' = None /\ formLocked' = formLocked
         \/ s \in Underway(FormWrites) /\ busyId' = busyId /\ formLocked' = FALSE
  BY StatusActionsAre, PostKindsAre DEF ActionDone, ResetDone, CameBack, Underway
<1>3. CASE WentWell(s)
  <2>. DEFINE f == posts[s].filter
  <2>1. f \in Filters
    BY <1>1, <1>2, PostIs
  <2>2. AskRows(s, f) /\ awaiting' = TRUE /\ resetTarget' \in Ids \cup {None}
    BY <1>3 DEF ActionDone, ResetDone, UsersTypes
  <2>. HIDE DEF f
  <2>3. Stands(s, "rows", None, f)
    BY <1>1, <2>1, <2>2, PostedIs, PostKindsAre DEF AskRows
  <2>4. RowsFollow'
    BY <2>1, <2>2, <2>3, AskedRows DEF AskRows
  <2>5. LocksHeld'
    BY <1>1, <1>2, <2>3, DoneLocks DEF Stands
  <2>6. UsersTypes'
    BY <1>1, <1>2, <2>2, <2>3 DEF AskRows, UsersTypes, PageTypeOK, Stands, OnlySlot, TypedPosts
  <2>. QED BY <2>4, <2>5, <2>6 DEF UsersKept, UsersInv
<1>4. CASE ~WentWell(s)
  <2>1. posts' = Unposted(s) /\ awaiting' = awaiting /\ resetTarget' = resetTarget
    BY <1>4 DEF ActionDone, ResetDone
  <2>2. OnlySlot(s) /\ posts'[s] = None
    BY <1>1, <2>1, UnpostedIs
  <2>3. LocksHeld'
    BY <1>1, <1>2, <2>1, <2>2, DoneLocks
  <2>4. crossed' = TRUE \/ (ResetDone(s) /\ crossed' = crossed)
    <3>1. ActionDone(s) => crossed' = TRUE
      BY <1>4 DEF ActionDone
    <3>2. ResetDone(s) => crossed' = crossed
      BY <1>4 DEF ResetDone
    <3>. QED BY <3>1, <3>2
  <2>5. UsersTypes'
    BY <1>1, <1>2, <2>1, <2>2, <2>4 DEF UsersTypes, PageTypeOK, OnlySlot, TypedPosts
  <2>6. RowsFollow'
    <3>1. CASE crossed' = TRUE
      BY <3>1 DEF RowsFollow
    <3>2. CASE ResetDone(s) /\ crossed' = crossed
      <4>1. posts[s].kind = "resetPassword"
        BY <3>2 DEF ResetDone, CameBack, Underway
      <4>2. s \notin RowReads /\ s \notin Dirty
        BY <4>1 DEF RowReads, Dirty, Underway, RowWrites
      <4>3. RowReads' = RowReads /\ Dirty' = Dirty
        BY <2>2, <4>2, UnderwayGone DEF RowReads, Dirty
      <4>4. \A t \in RowReads : posts'[t] = posts[t]
        BY <2>2, <4>2 DEF OnlySlot, RowReads, Underway
      <4>5. RowsOf(pageFilter)' = RowsOf(pageFilter)
        BY <1>2 DEF RowsOf
      <4>. QED BY <1>1, <1>2, <3>2, <4>3, <4>4, <4>5 DEF RowsFollow
    <3>. QED BY <2>4, <3>1, <3>2
  <2>. QED BY <2>3, <2>5, <2>6 DEF UsersKept, UsersInv
<1>. QED BY <1>3, <1>4

\* The API: a write keeps the rows uncertain until its answer has arrived.
LEMMA UsersServedSafe ==
    ASSUME UsersTypes, UsersInv, NEW s \in Slots,
           \/ ChangeStatus(s) \/ ChangeOther(s)
           \/ (AnswerRows(s) \/ RefusePost(s)) /\ UNCHANGED resetTarget
    PROVE  UsersKept
<1>1. PageTypeOK /\ LocksHeld /\ RowsFollow
  BY DEF UsersTypes, UsersInv
<1>2. ASSUME PostAnswered(s), table' \in [Ids -> Values], table' = table \/ s \in Dirty,
             posts[s].kind = "rows" /\ posts'[s].stage = "ok" =>
                 posts'[s].rows = RowsOf(posts[s].filter),
             UNCHANGED <<onPage, pageFilter, awaiting, busyId, formLocked, crossed>>,
             resetTarget' = resetTarget
      PROVE  UsersKept
  <2>1. LocksHeld' /\ RowsFollow'
    BY <1>1, <1>2, AnsweredLocks, AnsweredRows
  <2>2. UsersTypes'
    BY <1>2 DEF UsersTypes, PageTypeOK, PostAnswered, OnlySlot, TypedPosts
  <2>. QED BY <2>1, <2>2 DEF UsersKept, UsersInv
<1>3. CASE ChangeStatus(s)
  <2>1. PICK action \in StatusActions :
            AnswerWrite(s, {action}, posts[s].row, After(action)) /\ resetTarget' = resetTarget
    BY <1>3 DEF ChangeStatus
  <2>2. s \in Dirty /\ posts[s].kind # "rows"
    BY <2>1, StatusActionsAre, PostKindsAre DEF AnswerWrite, Dirty, Underway
  <2>3. After(action) \in Values
    BY StatusActionsAre
  <2>. QED BY <1>1, <1>2, <2>1, <2>2, <2>3, AnswerWriteIs
<1>4. CASE ChangeOther(s)
  <2>. DEFINE i == posts[s].row
  <2>1. /\ AnswerWrite(s, {"role", "resetPassword"}, i, table[i]) /\ resetTarget' = resetTarget
        /\ posts[s].kind # "rows"
    BY <1>4 DEF ChangeOther, Underway
  <2>2. i \in Ids => table[i] \in Values
    BY <1>1 DEF PageTypeOK
  <2>. HIDE DEF i
  <2>3. /\ PostAnswered(s) /\ table' \in [Ids -> Values]
        /\ \A j \in Ids : IF j = i THEN table'[j] = table[i] ELSE table'[j] = table[j]
        /\ UNCHANGED <<onPage, pageFilter, awaiting, busyId, formLocked, crossed>>
    BY <1>1, <2>1, <2>2, AnswerWriteIs
  <2>4. table' = table
    BY <1>1, <2>3, SameTable
  <2>. QED BY <1>2, <2>1, <2>3, <2>4
<1>5. CASE AnswerRows(s) /\ UNCHANGED resetTarget
  BY <1>1, <1>2, <1>5, AnswerRowsIs DEF AnswerRows, PageTypeOK
<1>6. CASE RefusePost(s) /\ UNCHANGED resetTarget
  <2>1. posts[s] # None /\ posts' = [posts EXCEPT ![s].stage = "failed"]
    BY <1>6 DEF RefusePost, Vacant
  <2>2. PostAnswered(s) /\ posts'[s].stage = "failed"
    BY <1>1, <2>1, OutcomeIs
  <2>. QED BY <1>1, <1>2, <1>6, <2>2 DEF RefusePost, PageTypeOK
<1>. QED BY <1>3, <1>4, <1>5, <1>6

\* Every step of the page of users.
LEMMA UsersSafe == ASSUME UsersTypes, UsersInv, UsersNext PROVE UsersKept
<1>1. PageTypeOK /\ LocksHeld /\ RowsFollow
  BY DEF UsersTypes, UsersInv
<1>2. CASE CloseResetDialog \/ \E i \in Ids : OpenResetDialog(i)
  <2>1. UNCHANGED pageVars /\ resetTarget' \in Ids \cup {None}
    BY <1>2 DEF CloseResetDialog, OpenResetDialog
  <2>2. PageTypeOK'
    BY <1>1, <2>1 DEF PageTypeOK, pageVars
  <2>3. LocksHeld' /\ RowsFollow'
    BY <1>1, <2>1
       DEF pageVars, LocksHeld, RowsFollow, RowReads, Dirty, Underway, RowsOf
  <2>. QED BY <2>1, <2>2, <2>3 DEF UsersKept, UsersTypes, UsersInv
<1>3. ASSUME NEW s \in Slots, RowsArrive(s), UNCHANGED resetTarget PROVE UsersKept
  BY <1>1, <1>3, RowsArriveKeeps DEF UsersTypes, UsersInv, UsersKept
<1>. QED BY <1>2, <1>3, UsersButtonsSafe, UsersAnswersSafe, UsersServedSafe DEF UsersNext

-----------------------------------------------------------------------------
(* The shares of a member.                                                 *)

SharesTypes == PageTypeOK /\ policyId \in Ids \cup {None} /\ documents \in Ids \cup {None}
SharesKept == SharesTypes' /\ SharesInv'

\* A slot is touched, but no read of documents begins.
LEMMA DocumentsElse ==
    ASSUME NEW s \in Slots, OnlySlot(s), UNCHANGED <<policyId, documents, astray>>,
           DocumentsFollow,
           posts'[s] # None /\ posts'[s].kind = "documents" =>
               posts[s] # None /\ posts[s].kind = "documents" /\ posts'[s].row = posts[s].row
    PROVE  DocumentsFollow'
<1>1. \A t \in DocumentReads' : t \in DocumentReads /\ posts'[t].row = posts[t].row
  BY DEF OnlySlot, DocumentReads
<1>. QED BY <1>1 DEF DocumentsFollow

\* Buttons of the page that send something, and choices in the form.
LEMMA SharesButtonsSafe ==
    ASSUME SharesTypes, SharesInv, NEW s \in Slots,
           \/ \E i \in Ids : RevokeShare2(s, i) \/ \E v \in {"READ", "WRITE"} : ChangePermission2(s, i, v)
           \/ HandleCreate(s)
    PROVE  SharesKept
<1>1. PageTypeOK /\ LocksHeld /\ RowsFollow /\ DocumentsFollow
  BY DEF SharesTypes, SharesInv
<1>2. ASSUME NEW kind \in RowWrites, NEW i \in Ids, NEW v \in Values,
             StartRowAction(s, kind, i, v), UNCHANGED formVars
      PROVE  SharesKept
  <2>1. /\ PageTypeOK' /\ LocksHeld' /\ RowsFollow'
        /\ OnlySlot(s) /\ posts[s] = None /\ posts'[s].kind = kind
    BY <1>1, <1>2, StartRowKeeps
  <2>2. UNCHANGED <<policyId, documents, astray>> /\ kind # "documents"
    BY <1>2, PostKindsAre DEF formVars
  <2>3. DocumentsFollow'
    BY <1>1, <2>1, <2>2, DocumentsElse
  <2>. QED BY <2>1, <2>2, <2>3 DEF SharesKept, SharesTypes, SharesInv
<1>3. ASSUME NEW i \in Ids, RevokeShare2(s, i) PROVE SharesKept
  <2>1. "revoke" \in RowWrites /\ "none" \in Values
    BY PostKindsAre
  <2>. QED BY <1>2, <1>3, <2>1 DEF RevokeShare2
<1>4. ASSUME NEW i \in Ids, NEW v \in {"READ", "WRITE"}, ChangePermission2(s, i, v)
      PROVE  SharesKept
  <2>1. "permission" \in RowWrites /\ v \in Values
    BY PostKindsAre
  <2>. QED BY <1>2, <1>4, <2>1 DEF ChangePermission2
<1>5. CASE HandleCreate(s)
  <2>1. "createShare" \in FormWrites /\ "READ" \in Values
    BY PostKindsAre
  <2>2. StartForm(s, "createShare", None, "READ") /\ UNCHANGED <<policyId, documents, astray>>
    BY <1>5 DEF HandleCreate, formVars
  <2>3. /\ PageTypeOK' /\ LocksHeld' /\ RowsFollow'
        /\ Stands(s, "createShare", None, pageFilter)
    BY <1>1, <2>1, <2>2, StartFormKeeps
  <2>4. DocumentsFollow'
    BY <1>1, <2>2, <2>3, DocumentsElse DEF Stands
  <2>. QED BY <2>2, <2>3, <2>4 DEF SharesKept, SharesTypes, SharesInv
<1>. QED BY <1>3, <1>4, <1>5

\* The policy of the form.
LEMMA ChoicesSafe ==
    ASSUME SharesTypes, SharesInv,
           \/ ChooseScope
           \/ \E p \in Ids \cup {None} : ChooseInsurance(p)
           \/ \E s \in Slots, p \in Ids \cup {None} : ChooseDocumentPolicy(s, p)
    PROVE  SharesKept
<1>1. PageTypeOK /\ LocksHeld /\ RowsFollow /\ DocumentsFollow
  BY DEF SharesTypes, SharesInv
<1>2. ASSUME UNCHANGED pageVars PROVE PageTypeOK' /\ LocksHeld' /\ RowsFollow'
  <2>1. PageTypeOK'
    BY <1>1, <1>2 DEF PageTypeOK, pageVars
  <2>2. LocksHeld' /\ RowsFollow'
    BY <1>1, <1>2 DEF pageVars, LocksHeld, RowsFollow, RowReads, Dirty, Underway, RowsOf
  <2>. QED BY <2>1, <2>2
<1>3. CASE ChooseScope
  <2>1. UNCHANGED pageVars /\ UNCHANGED <<policyId, documents, astray>>
    BY <1>3 DEF ChooseScope
  <2>2. DocumentsFollow'
    BY <1>1, <2>1 DEF pageVars, DocumentsFollow, DocumentReads
  <2>. QED BY <1>2, <2>1, <2>2 DEF SharesKept, SharesTypes, SharesInv
<1>4. ASSUME NEW p \in Ids \cup {None}, ChooseInsurance(p) PROVE SharesKept
  <2>1. /\ UNCHANGED pageVars /\ documents' = documents /\ policyId' = p
        /\ astray' = (astray \/ documents # None \/ DocumentReads # {})
    BY <1>4 DEF ChooseInsurance
  <2>2. DocumentReads' = DocumentReads
    BY <2>1 DEF pageVars, DocumentReads
  <2>3. DocumentsFollow'
    BY <2>1, <2>2 DEF DocumentsFollow
  <2>. QED BY <1>2, <2>1, <2>3 DEF SharesKept, SharesTypes, SharesInv
<1>5. ASSUME NEW p \in Ids \cup {None}, NEW s \in Slots, ChooseDocumentPolicy(s, p), p = None
      PROVE  SharesKept
  <2>1. /\ UNCHANGED pageVars /\ policyId' = None /\ documents' = None
        /\ astray' = (DocumentReads # {})
    BY <1>5 DEF ChooseDocumentPolicy, LoadDocumentsForPolicy, ReadDocuments, pageVars
  <2>2. DocumentReads' = DocumentReads
    BY <2>1 DEF pageVars, DocumentReads
  <2>3. DocumentsFollow'
    BY <2>1, <2>2 DEF DocumentsFollow
  <2>. QED BY <1>2, <2>1, <2>3 DEF SharesKept, SharesTypes, SharesInv
<1>6. ASSUME NEW p \in Ids \cup {None}, NEW s \in Slots, ChooseDocumentPolicy(s, p), p # None
      PROVE  SharesKept
  <2>1. /\ posts[s] = None /\ posts' = Posted(s, "documents", p, "all", "none")
        /\ astray' = (DocumentReads # {}) /\ documents' = None /\ policyId' = p
        /\ UNCHANGED <<table, onPage, pageFilter, awaiting, busyId, formLocked, crossed>>
    BY <1>6 DEF ChooseDocumentPolicy, LoadDocumentsForPolicy, ReadDocuments, NextClick, Vacant
  <2>2. Stands(s, "documents", p, "all")
    BY <1>1, <2>1, PostedIs, PostKindsAre
  <2>3. PageTypeOK'
    BY <1>1, <2>1, <2>2 DEF PageTypeOK, Stands, OnlySlot, TypedPosts
  <2>4. ASSUME NEW kinds, "documents" \notin kinds
        PROVE  /\ Underway(kinds)' = Underway(kinds)
               /\ \A t \in Underway(kinds) : posts'[t] = posts[t]
    <3>1. Underway(kinds)' = Underway(kinds) \ {s}
      BY <2>2, <2>4, UnderwayStands
    <3>. QED BY <2>1, <2>2, <3>1 DEF Stands, OnlySlot, Underway
  <2>5. /\ RowReads' = RowReads /\ Dirty' = Dirty
        /\ Underway(RowWrites)' = Underway(RowWrites)
        /\ Underway(FormWrites)' = Underway(FormWrites)
        /\ \A t \in RowReads \cup Underway(RowWrites) : posts'[t] = posts[t]
    BY <2>4, PostKindsAre DEF RowReads, Dirty
  <2>6. LocksHeld'
    BY <1>1, <2>1, <2>5 DEF LocksHeld
  <2>7. RowsOf(pageFilter)' = RowsOf(pageFilter)
    BY <2>1 DEF RowsOf
  <2>8. RowsFollow'
    BY <1>1, <2>1, <2>5, <2>7 DEF RowsFollow
  <2>9. DocumentsFollow'
    <3>1. SUFFICES ASSUME DocumentReads = {} PROVE DocumentsFollow'
      BY <2>1 DEF DocumentsFollow
    <3>2. DocumentReads' = {s} /\ posts'[s].row = p
      BY <2>2, <3>1 DEF Stands, OnlySlot, DocumentReads
    <3>. QED BY <2>1, <3>2 DEF DocumentsFollow
  <2>. QED BY <2>1, <2>3, <2>6, <2>8, <2>9 DEF SharesKept, SharesTypes, SharesInv
<1>. QED BY <1>3, <1>4, <1>5, <1>6

\* The documents of a share arrive, wanted or not.
LEMMA DocumentsArriveSafe ==
    ASSUME SharesTypes, SharesInv, NEW s \in Slots, DocumentsArrive(s) PROVE SharesKept
<1>1. PageTypeOK /\ LocksHeld /\ RowsFollow /\ DocumentsFollow
  BY DEF SharesTypes, SharesInv
<1>2. /\ posts[s] # None /\ posts[s].kind = "documents" /\ s \in DocumentReads
      /\ posts' = Unposted(s)
      /\ documents' \in IF WentWell(s) THEN {posts[s].row} ELSE {documents, None}
      /\ UNCHANGED <<table, onPage, pageFilter, awaiting, busyId, formLocked, crossed, policyId, astray>>
  BY DEF DocumentsArrive, CameBack, Underway, DocumentReads
<1>3. OnlySlot(s) /\ posts'[s] = None
  BY <1>1, <1>2, UnpostedIs
<1>4. posts[s].row \in Ids \cup {None}
  BY <1>1, <1>2, PostIs
<1>5. SharesTypes'
  BY <1>2, <1>3, <1>4 DEF SharesTypes, PageTypeOK, OnlySlot, TypedPosts
<1>6. ASSUME NEW kinds, "documents" \notin kinds
      PROVE  /\ Underway(kinds)' = Underway(kinds)
             /\ \A t \in Underway(kinds) : posts'[t] = posts[t]
  <2>1. Underway(kinds)' = Underway(kinds) \ {s} /\ s \notin Underway(kinds)
    BY <1>2, <1>3, <1>6, UnderwayGone DEF Underway
  <2>. QED BY <1>3, <2>1 DEF OnlySlot, Underway
<1>7. /\ RowReads' = RowReads /\ Dirty' = Dirty
      /\ Underway(RowWrites)' = Underway(RowWrites)
      /\ Underway(FormWrites)' = Underway(FormWrites)
      /\ \A t \in RowReads \cup Underway(RowWrites) : posts'[t] = posts[t]
  BY <1>6, PostKindsAre DEF RowReads, Dirty
<1>8. LocksHeld'
  BY <1>1, <1>2, <1>7 DEF LocksHeld
<1>9. RowsOf(pageFilter)' = RowsOf(pageFilter)
  BY <1>2 DEF RowsOf
<1>10. RowsFollow'
  BY <1>1, <1>2, <1>7, <1>9 DEF RowsFollow
<1>11. DocumentsFollow'
  <2>1. /\ DocumentReads' \subseteq DocumentReads
        /\ \A t \in DocumentReads' : posts'[t] = posts[t]
    BY <1>3 DEF OnlySlot, DocumentReads
  <2>2. ~astray => documents' \in {None, policyId}
    BY <1>1, <1>2 DEF DocumentsFollow
  <2>. QED BY <1>1, <1>2, <2>1, <2>2 DEF DocumentsFollow
<1>. QED BY <1>5, <1>8, <1>10, <1>11 DEF SharesKept, SharesInv

\* Answers to the page.
LEMMA SharesAnswersSafe ==
    ASSUME SharesTypes, SharesInv, NEW s \in Slots, CreateDone(s) \/ ShareActionDone(s)
    PROVE  SharesKept
<1>1. PageTypeOK /\ LocksHeld /\ RowsFollow /\ DocumentsFollow
  BY DEF SharesTypes, SharesInv
<1>2. /\ posts[s] # None /\ posts[s].kind # "documents" /\ pageFilter' = pageFilter
      /\ UNCHANGED <<table, onPage, awaiting>>
      /\ \/ s \in Underway(RowWrites) /\ busyId' = None /\ formLocked' = formLocked
         \/ s \in Underway(FormWrites) /\ busyId' = busyId /\ formLocked' = FALSE
  BY PostKindsAre DEF CreateDone, ShareActionDone, CameBack, Underway
<1>3. CASE WentWell(s)
  <2>1. AskRows(s, "all") /\ "all" \in Filters
    BY <1>3, PostKindsAre DEF CreateDone, ShareActionDone
  <2>2. Stands(s, "rows", None, "all")
    BY <1>1, <2>1, PostedIs, PostKindsAre DEF AskRows
  <2>3. RowsFollow'
    BY <2>1, <2>2, AskedRows DEF AskRows
  <2>4. LocksHeld'
    BY <1>1, <1>2, <2>2, DoneLocks DEF Stands
  <2>5. PageTypeOK'
    BY <1>1, <1>2, <2>1, <2>2 DEF AskRows, PageTypeOK, Stands, OnlySlot, TypedPosts
  <2>6. CASE CreateDone(s)
    <3>1. policyId' = None /\ documents' = None /\ astray' = (DocumentReads # {})
      BY <1>3, <2>6 DEF CreateDone
    <3>2. DocumentReads' = DocumentReads
      BY <1>2, <2>2 DEF Stands, OnlySlot, DocumentReads
    <3>3. DocumentsFollow'
      BY <3>1, <3>2 DEF DocumentsFollow
    <3>. QED BY <2>3, <2>4, <2>5, <3>1, <3>3 DEF SharesKept, SharesTypes, SharesInv
  <2>7. CASE ShareActionDone(s)
    <3>1. UNCHANGED <<policyId, documents, astray>>
      BY <2>7 DEF ShareActionDone, formVars
    <3>2. DocumentsFollow'
      BY <1>1, <2>2, <3>1, DocumentsElse DEF Stands
    <3>. QED BY <2>3, <2>4, <2>5, <3>1, <3>2 DEF SharesKept, SharesTypes, SharesInv
  <2>. QED BY <2>6, <2>7
<1>4. CASE ~WentWell(s)
  <2>1. posts' = Unposted(s) /\ crossed' = TRUE /\ UNCHANGED <<policyId, documents, astray>>
    BY <1>4 DEF CreateDone, ShareActionDone, formVars
  <2>2. OnlySlot(s) /\ posts'[s] = None
    BY <1>1, <2>1, UnpostedIs
  <2>3. LocksHeld'
    BY <1>1, <1>2, <2>2, DoneLocks
  <2>4. DocumentsFollow'
    BY <1>1, <2>1, <2>2, DocumentsElse
  <2>5. SharesTypes'
    BY <1>1, <1>2, <2>1, <2>2 DEF SharesTypes, PageTypeOK, OnlySlot, TypedPosts
  <2>6. RowsFollow'
    BY <2>1 DEF RowsFollow
  <2>. QED BY <2>3, <2>4, <2>5, <2>6 DEF SharesKept, SharesInv
<1>. QED BY <1>3, <1>4

\* The API.
LEMMA SharesServedSafe ==
    ASSUME SharesTypes, SharesInv, NEW s \in Slots,
           \/ ServeShareWrite(s)
           \/ (AnswerRows(s) \/ RefusePost(s)) /\ UNCHANGED formVars
    PROVE  SharesKept
<1>1. PageTypeOK /\ LocksHeld /\ RowsFollow /\ DocumentsFollow
  BY DEF SharesTypes, SharesInv
<1>2. ASSUME PostAnswered(s), table' \in [Ids -> Values], table' = table \/ s \in Dirty,
             posts[s].kind = "rows" /\ posts'[s].stage = "ok" =>
                 posts'[s].rows = RowsOf(posts[s].filter),
             UNCHANGED <<onPage, pageFilter, awaiting, busyId, formLocked, crossed>>,
             UNCHANGED <<policyId, documents, astray>>
      PROVE  SharesKept
  <2>1. LocksHeld' /\ RowsFollow'
    BY <1>1, <1>2, AnsweredLocks, AnsweredRows
  <2>2. SharesTypes'
    BY <1>2 DEF SharesTypes, PageTypeOK, PostAnswered, OnlySlot, TypedPosts
  <2>3. DocumentsFollow'
    BY <1>1, <1>2, DocumentsElse DEF PostAnswered
  <2>. QED BY <2>1, <2>2, <2>3 DEF SharesKept, SharesInv
<1>3. CASE ServeShareWrite(s)
  <2>1. ASSUME NEW kinds, NEW i, NEW v \in Values, AnswerWrite(s, kinds, i, v),
               kinds \subseteq RowWrites \cup {"createShare"}
        PROVE  SharesKept
    <3>1. s \in Dirty /\ posts[s].kind # "rows"
      BY <2>1, PostKindsAre DEF AnswerWrite, Dirty, Underway
    <3>2. UNCHANGED <<policyId, documents, astray>>
      BY <1>3 DEF ServeShareWrite, formVars
    <3>3. /\ PostAnswered(s) /\ table' \in [Ids -> Values]
          /\ UNCHANGED <<onPage, pageFilter, awaiting, busyId, formLocked, crossed>>
      BY <1>1, <2>1, AnswerWriteIs
    <3>. QED BY <1>2, <3>1, <3>2, <3>3
  <2>2. ASSUME NEW i \in Ids, AnswerWrite(s, {"createShare"}, i, "READ") PROVE SharesKept
    <3>1. "READ" \in Values /\ {"createShare"} \subseteq RowWrites \cup {"createShare"}
      BY PostKindsAre
    <3>. QED BY <2>1, <2>2, <3>1
  <2>3. ASSUME s \in Underway({"permission", "revoke"}),
               AnswerWrite(s, {"permission", "revoke"}, posts[s].row, posts[s].value)
        PROVE  SharesKept
    <3>1. posts[s].value \in Values
      BY <1>1, <2>3, PostIs DEF Underway
    <3>2. {"permission", "revoke"} \subseteq RowWrites \cup {"createShare"}
      BY PostKindsAre
    <3>. QED BY <2>1, <2>3, <3>1, <3>2
  <2>. QED BY <1>3, <2>2, <2>3 DEF ServeShareWrite
<1>4. CASE AnswerRows(s) /\ UNCHANGED formVars
  BY <1>1, <1>2, <1>4, AnswerRowsIs DEF AnswerRows, PageTypeOK, formVars
<1>5. CASE RefusePost(s) /\ UNCHANGED formVars
  <2>1. posts[s] # None /\ posts' = [posts EXCEPT ![s].stage = "failed"]
    BY <1>5 DEF RefusePost, Vacant
  <2>2. PostAnswered(s) /\ posts'[s].stage = "failed"
    BY <1>1, <2>1, OutcomeIs
  <2>. QED BY <1>1, <1>2, <1>5, <2>2 DEF RefusePost, PageTypeOK, formVars
<1>. QED BY <1>3, <1>4, <1>5

\* Every step of the page of shares.
LEMMA SharesSafe == ASSUME SharesTypes, SharesInv, SharesPageNext PROVE SharesKept
<1>1. ASSUME NEW s \in Slots, RowsArrive(s), UNCHANGED formVars PROVE SharesKept
  <2>1. /\ PageTypeOK' /\ LocksHeld' /\ RowsFollow'
    BY <1>1, RowsArriveKeeps DEF SharesTypes, SharesInv
  <2>2. OnlySlot(s) /\ posts'[s] = None
    BY <1>1, UnpostedIs DEF RowsArrive, SharesTypes
  <2>3. UNCHANGED <<policyId, documents, astray>>
    BY <1>1 DEF formVars
  <2>4. DocumentsFollow'
    BY <2>2, <2>3, DocumentsElse DEF SharesInv
  <2>. QED BY <2>1, <2>3, <2>4 DEF SharesKept, SharesTypes, SharesInv
<1>. QED BY <1>1, SharesButtonsSafe, ChoicesSafe, DocumentsArriveSafe, SharesAnswersSafe,
            SharesServedSafe DEF SharesPageNext

-----------------------------------------------------------------------------
(* The settings of the system.                                             *)

SettingsTypes == PageTypeOK /\ editingKey \in Ids \cup {None} /\ testing \subseteq Ids
SettingsKept == SettingsTypes' /\ SettingsInv'

\* The kinds of request of the settings page.
LEMMA SettingKindsAre ==
    /\ {"entry", "refreshSaved", "unset", "test", "saveSetting"} \subseteq PostKinds
    /\ \A k \in {"entry", "refreshSaved", "unset", "test", "saveSetting"} :
          k \notin RowWrites /\ k # "rows"
    /\ \A k \in {"entry", "unset", "test"} : k \notin FormWrites
    /\ {"saveSetting", "refreshSaved"} \subseteq FormWrites
BY PostKindsAre DEF PostKinds, Reads, FormWrites, RowWrites

\* While the rows are awaited nothing but their read is under way.
LEMMA NotWaiting ==
    ASSUME EntriesFollow, NEW s \in Slots, posts[s] # None, posts[s].kind # "rows"
    PROVE  ~awaiting
BY DEF EntriesFollow, RowReads, Underway

\* The locks, when a request for an entry comes or goes.
LEMMA LocksElse ==
    ASSUME NEW s \in Slots, OnlySlot(s), LocksHeld,
           posts[s] # None => posts[s].kind # "rows" /\ posts[s].kind \notin RowWrites,
           posts'[s] # None => posts'[s].kind # "rows" /\ posts'[s].kind \notin RowWrites,
           awaiting' = awaiting, busyId' = busyId,
           formLocked' <=> Underway(FormWrites)' # {},
           \A t, u \in Underway(FormWrites)' : t = u
    PROVE  LocksHeld'
<1>1. RowReads' = RowReads /\ Underway(RowWrites)' = Underway(RowWrites)
  BY DEF OnlySlot, RowReads, Underway
<1>2. \A t \in Underway(RowWrites) : posts'[t] = posts[t]
  BY DEF OnlySlot, Underway
<1>. QED BY <1>1, <1>2 DEF LocksHeld

\* What is under way for another entry stays.
LEMMA EntryElse ==
    ASSUME NEW s \in Slots, OnlySlot(s), NEW i \in Ids, EntryTrue(i),
           s \notin ReadsOf(i), s \notin ReadsOf(i)',
           s \in EntryWrites(i) => s \in EntryWrites(i)',
           table'[i] = table[i], onPage'.rows[i] = onPage.rows[i]
    PROVE  EntryTrue(i)'
<1>1. ReadsOf(i)' = ReadsOf(i)
  BY DEF OnlySlot, ReadsOf, Underway
<1>2. EntryWrites(i) \subseteq EntryWrites(i)'
  BY DEF OnlySlot, EntryWrites, Underway
<1>3. \A t \in ReadsOf(i) : posts'[t] = posts[t]
  BY DEF OnlySlot, ReadsOf, Underway
<1>. QED BY <1>1, <1>2, <1>3 DEF EntryTrue

\* The entries, when a request for one of them comes or goes.
LEMMA EntriesElse ==
    ASSUME EntriesFollow, NEW s \in Slots, OnlySlot(s), ~awaiting,
           UNCHANGED <<awaiting, pageFilter>>,
           posts'[s] # None => posts'[s].filter = "all" /\ posts'[s].kind # "rows",
           ~crossed' => ~crossed /\ onPage'.filter = onPage.filter /\ \A i \in Ids : EntryTrue(i)'
    PROVE  EntriesFollow'
<1>1. /\ pageFilter' = "all" /\ \A t \in Slots : posts'[t] # None => posts'[t].filter = "all"
  BY DEF EntriesFollow, OnlySlot
<1>2. RowReads' = {}
  BY DEF EntriesFollow, OnlySlot, RowReads, Underway
<1>. QED BY <1>1, <1>2 DEF EntriesFollow

\* A step that ends no other test leaves every test under way backed.
LEMMA TestsElse ==
    ASSUME NEW s \in Slots, OnlySlot(s), TestsBacked, testing' \subseteq testing,
           posts[s] # None /\ posts[s].kind = "test" => posts[s].row \notin testing'
    PROVE  TestsBacked'
<1>1. ASSUME NEW i \in testing' PROVE \E t \in Underway({"test"})' : posts'[t].row = i
  <2>1. PICK t \in Underway({"test"}) : posts[t].row = i
    BY <1>1 DEF TestsBacked
  <2>2. t # s /\ t \in Slots
    BY <1>1, <2>1 DEF Underway
  <2>. QED BY <2>1, <2>2 DEF OnlySlot, Underway
<1>. QED BY <1>1 DEF TestsBacked

\* Something is asked of the API.
LEMMA SettingsButtonsSafe ==
    ASSUME SettingsTypes, SettingsInv, NEW s \in Slots,
           \/ \E v \in {"first", "second"} : SaveEdit(s, v)
           \/ \E i \in Ids : StartReset(s, i) \/ StartTest(s, i)
    PROVE  SettingsKept
<1>1. PageTypeOK /\ LocksHeld /\ EntriesFollow /\ TestsBacked
  BY DEF SettingsTypes, SettingsInv
<1>2. ASSUME NEW kind \in {"saveSetting", "unset", "test"}, NEW i, Stands(s, kind, i, "all"),
             posts[s] = None, ~awaiting, LocksHeld', PageTypeOK', TestsBacked',
             UNCHANGED <<table, onPage, pageFilter, awaiting, crossed>>,
             editingKey' \in Ids \cup {None}, testing' \subseteq Ids
      PROVE  SettingsKept
  <2>1. OnlySlot(s) /\ posts'[s] # None /\ posts'[s].kind = kind /\ posts'[s].filter = "all"
    BY <1>2 DEF Stands
  <2>2. ASSUME ~crossed', NEW j \in Ids PROVE EntryTrue(j)'
    <3>1. EntryTrue(j)
      BY <1>1, <1>2, <2>2 DEF EntriesFollow
    <3>2. s \notin ReadsOf(j) /\ s \notin ReadsOf(j)' /\ s \notin EntryWrites(j)
      BY <1>2, <2>1 DEF ReadsOf, EntryWrites, Underway
    <3>. QED BY <1>2, <2>1, <3>1, <3>2, EntryElse
  <2>3. EntriesFollow'
    BY <1>1, <1>2, <2>1, <2>2, SettingKindsAre, EntriesElse
  <2>. QED BY <1>2, <2>3 DEF SettingsKept, SettingsTypes, SettingsInv
<1>3. ASSUME NEW v \in {"first", "second"}, SaveEdit(s, v) PROVE SettingsKept
  <2>1. /\ StartForm(s, "saveSetting", editingKey, v) /\ UNCHANGED <<editingKey, testing>>
        /\ v \in Values /\ "saveSetting" \in FormWrites /\ editingKey \in Ids \cup {None}
    BY <1>3, PostKindsAre, SettingKindsAre DEF SaveEdit, editVars, SettingsTypes
  <2>2. /\ PageTypeOK' /\ posts[s] = None /\ Stands(s, "saveSetting", editingKey, pageFilter)
        /\ LocksHeld'
    BY <1>1, <2>1, StartFormKeeps
  <2>3. pageFilter = "all" /\ ~awaiting /\ UNCHANGED <<table, onPage, pageFilter, awaiting, crossed>>
    BY <1>1, <2>1 DEF EntriesFollow, StartForm
  <2>4. TestsBacked'
    BY <1>1, <2>1, <2>2, TestsElse DEF Stands
  <2>. QED BY <1>2, <2>1, <2>2, <2>3, <2>4 DEF SettingsTypes
<1>4. ASSUME NEW i \in Ids, NEW kind \in {"unset", "test"}, NEW v \in {"first", "none"},
             ~awaiting, NextClick(s), posts' = Posted(s, kind, i, "all", v),
             UNCHANGED <<table, onPage, pageFilter, awaiting, busyId, formLocked, crossed>>
      PROVE  /\ Stands(s, kind, i, "all") /\ posts[s] = None /\ LocksHeld' /\ PageTypeOK'
  <2>1. kind \in PostKinds /\ v \in Values /\ "all" \in Filters /\ i \in Ids \cup {None}
    BY SettingKindsAre, PostKindsAre
  <2>2. Stands(s, kind, i, "all") /\ posts[s] = None
    BY <1>1, <1>4, <2>1, PostedIs DEF NextClick, Vacant
  <2>3. PageTypeOK'
    BY <1>1, <1>4, <2>2 DEF PageTypeOK, Stands, OnlySlot, TypedPosts
  <2>4. Underway(FormWrites)' = Underway(FormWrites)
    <3>1. Underway(FormWrites)' = Underway(FormWrites) \ {s}
      BY <2>2, UnderwayStands, SettingKindsAre
    <3>. QED BY <2>2, <3>1 DEF Underway
  <2>5. LocksHeld'
    <3>1. OnlySlot(s) /\ posts'[s].kind = kind
      BY <2>2 DEF Stands
    <3>2. formLocked' <=> Underway(FormWrites)' # {}
      BY <1>1, <1>4, <2>4 DEF LocksHeld
    <3>3. \A t, u \in Underway(FormWrites)' : t = u
      BY <1>1, <2>4 DEF LocksHeld
    <3>. QED BY <1>1, <1>4, <2>2, <3>1, <3>2, <3>3, SettingKindsAre, LocksElse
  <2>. QED BY <2>2, <2>3, <2>5
<1>5. ASSUME NEW i \in Ids, StartReset(s, i) PROVE SettingsKept
  <2>1. /\ ~awaiting /\ NextClick(s) /\ posts' = Posted(s, "unset", i, "all", "first")
        /\ UNCHANGED <<table, onPage, pageFilter, awaiting, busyId, formLocked, crossed>>
        /\ UNCHANGED <<editingKey, testing>>
    BY <1>5 DEF StartReset, editVars
  <2>2. /\ Stands(s, "unset", i, "all") /\ posts[s] = None /\ LocksHeld' /\ PageTypeOK'
    BY <1>4, <2>1
  <2>3. TestsBacked'
    BY <1>1, <2>1, <2>2, TestsElse DEF Stands
  <2>. QED BY <1>2, <2>1, <2>2, <2>3 DEF SettingsTypes
<1>6. ASSUME NEW i \in Ids, StartTest(s, i) PROVE SettingsKept
  <2>1. /\ ~awaiting /\ NextClick(s) /\ posts' = Posted(s, "test", i, "all", "none")
        /\ UNCHANGED <<table, onPage, pageFilter, awaiting, busyId, formLocked, crossed>>
        /\ testing' = testing \cup {i} /\ editingKey' = editingKey
    BY <1>6 DEF StartTest
  <2>2. /\ Stands(s, "test", i, "all") /\ posts[s] = None /\ LocksHeld' /\ PageTypeOK'
    BY <1>4, <2>1
  <2>3. TestsBacked'
    <3>1. s \in Underway({"test"})' /\ posts'[s].row = i
      BY <2>2 DEF Stands, Underway
    <3>2. ASSUME NEW j \in testing PROVE \E t \in Underway({"test"})' : posts'[t].row = j
      <4>1. PICK t \in Underway({"test"}) : posts[t].row = j
        BY <1>1, <3>2 DEF TestsBacked
      <4>2. t # s /\ t \in Slots
        BY <2>2, <4>1 DEF Underway
      <4>. QED BY <2>2, <4>1, <4>2 DEF Stands, OnlySlot, Underway
    <3>. QED BY <2>1, <3>1, <3>2 DEF TestsBacked
  <2>. QED BY <1>2, <2>1, <2>2, <2>3 DEF SettingsTypes
<1>. QED BY <1>3, <1>5, <1>6

\* What was asked for an entry is done: the entry is read again, or requests crossed.
LEMMA RefreshSafe ==
    ASSUME SettingsTypes, SettingsInv, NEW s \in Slots, SaveDone(s) \/ ResetEntryDone(s)
    PROVE  SettingsKept
<1>1. PageTypeOK /\ LocksHeld /\ EntriesFollow /\ TestsBacked
  BY DEF SettingsTypes, SettingsInv
<1>2. /\ posts[s] # None /\ posts[s].kind \in {"saveSetting", "unset"}
      /\ posts[s].kind # "rows" /\ posts[s].kind \notin RowWrites /\ posts[s].kind # "test"
      /\ UNCHANGED <<table, onPage, pageFilter, awaiting, busyId, testing>>
  BY PostKindsAre DEF SaveDone, ResetEntryDone, CameBack, Underway, RowWrites, editVars
<1>3. ~awaiting
  BY <1>1, <1>2, NotWaiting
<1>4. CASE WentWell(s)
  <2>. DEFINE i == posts[s].row
  <2>1. PICK kind \in {"entry", "refreshSaved"} :
            /\ RefreshEntry(s, kind, i)
            /\ \/ SaveDone(s) /\ kind = "refreshSaved"
               \/ ResetEntryDone(s) /\ kind = "entry"
    BY <1>4 DEF SaveDone, ResetEntryDone
  <2>2. /\ posts' = Posted(s, kind, i, "all", "none") /\ crossed' = (crossed \/ ReadsOf(i) # {})
        /\ formLocked' = formLocked /\ editingKey' \in Ids \cup {None}
    BY <1>4, <2>1 DEF SaveDone, ResetEntryDone, RefreshEntry, SettingsTypes, editVars
  <2>3. i \in Ids \cup {None} /\ kind \in PostKinds /\ "none" \in Values /\ "all" \in Filters
    BY <1>1, <1>2, PostIs, SettingKindsAre, PostKindsAre
  <2>4. posts[s].kind = "saveSetting" <=> kind = "refreshSaved"
    BY <2>1 DEF SaveDone, ResetEntryDone, CameBack, Underway
  <2>5. \A j \in Ids : s \in EntryWrites(j) => j = i
    BY DEF EntryWrites
  <2>. HIDE DEF i
  <2>6. Stands(s, kind, i, "all")
    BY <1>1, <2>2, <2>3, PostedIs
  <2>7. /\ OnlySlot(s) /\ posts'[s] # None /\ posts'[s].kind = kind /\ posts'[s].row = i
        /\ posts'[s].filter = "all" /\ posts'[s].stage = "sent"
    BY <2>6 DEF Stands
  <2>8. SettingsTypes'
    BY <1>1, <1>2, <2>2, <2>7 DEF SettingsTypes, PageTypeOK, OnlySlot, TypedPosts
  <2>9. Underway(FormWrites)' = Underway(FormWrites)
    BY <1>2, <2>4, <2>7, SettingKindsAre DEF OnlySlot, Underway
  <2>10. LocksHeld'
    <3>1. (formLocked' <=> Underway(FormWrites)' # {}) /\ \A t, u \in Underway(FormWrites)' : t = u
      BY <1>1, <2>2, <2>9 DEF LocksHeld
    <3>2. kind # "rows" /\ kind \notin RowWrites
      BY SettingKindsAre
    <3>. QED BY <1>1, <1>2, <2>7, <3>1, <3>2, LocksElse
  <2>11. TestsBacked'
    BY <1>1, <1>2, <2>7, TestsElse
  <2>12. ASSUME ~crossed', NEW j \in Ids PROVE EntryTrue(j)'
    <3>1. EntryTrue(j) /\ ReadsOf(i) = {}
      BY <1>1, <1>3, <2>2, <2>12 DEF EntriesFollow
    <3>2. CASE j = i
      <4>1. ReadsOf(j)' \subseteq {s}
        BY <2>7, <3>1, <3>2 DEF OnlySlot, ReadsOf, Underway
      <4>2. s \in ReadsOf(j)'
        BY <2>7, <3>2 DEF ReadsOf, Underway
      <4>. QED BY <2>7, <4>1, <4>2 DEF EntryTrue
    <3>3. CASE j # i
      <4>1. s \notin ReadsOf(j) /\ s \notin ReadsOf(j)' /\ s \notin EntryWrites(j)
        BY <1>2, <2>5, <2>7, <3>3 DEF ReadsOf, Underway
      <4>. QED BY <1>2, <2>7, <3>1, <4>1, EntryElse
    <3>. QED BY <3>2, <3>3
  <2>13. EntriesFollow'
    <3>1. ~crossed' => ~crossed
      BY <2>2
    <3>2. kind # "rows"
      BY SettingKindsAre
    <3>. QED BY <1>1, <1>2, <1>3, <2>7, <2>12, <3>1, <3>2, EntriesElse
  <2>. QED BY <2>8, <2>10, <2>11, <2>13 DEF SettingsKept, SettingsInv
<1>5. CASE ~WentWell(s)
  <2>1. /\ posts' = Unposted(s) /\ crossed' = TRUE /\ editingKey' = editingKey
        /\ \/ SaveDone(s) /\ formLocked' = FALSE
           \/ ResetEntryDone(s) /\ formLocked' = formLocked
    BY <1>5 DEF SaveDone, ResetEntryDone, editVars
  <2>2. OnlySlot(s) /\ posts'[s] = None
    BY <1>1, <2>1, UnpostedIs
  <2>3. Underway(FormWrites)' = Underway(FormWrites) \ {s}
    BY <2>2, UnderwayGone
  <2>4. \/ s \in Underway(FormWrites) /\ formLocked' = FALSE
        \/ s \notin Underway(FormWrites) /\ formLocked' = formLocked
    BY <2>1, SettingKindsAre DEF SaveDone, ResetEntryDone, CameBack, Underway
  <2>5. (formLocked' <=> Underway(FormWrites)' # {}) /\ \A t, u \in Underway(FormWrites)' : t = u
    BY <1>1, <2>3, <2>4 DEF LocksHeld
  <2>6. LocksHeld'
    BY <1>1, <1>2, <2>2, <2>5, LocksElse
  <2>7. TestsBacked'
    BY <1>1, <1>2, <2>2, TestsElse
  <2>8. EntriesFollow'
    BY <1>1, <1>2, <1>3, <2>1, <2>2, EntriesElse
  <2>9. formLocked' \in BOOLEAN
    BY <1>1, <2>4 DEF PageTypeOK
  <2>10. SettingsTypes'
    BY <1>1, <1>2, <2>1, <2>2, <2>9 DEF SettingsTypes, PageTypeOK, OnlySlot, TypedPosts
  <2>. QED BY <2>6, <2>7, <2>8, <2>10 DEF SettingsKept, SettingsInv
<1>. QED BY <1>4, <1>5

\* An entry arrives on the page.
LEMMA EntryArrivesSafe ==
    ASSUME SettingsTypes, SettingsInv, NEW s \in Slots, EntryArrives(s) PROVE SettingsKept
<1>. DEFINE i == posts[s].row
<1>1. PageTypeOK /\ LocksHeld /\ EntriesFollow /\ TestsBacked
  BY DEF SettingsTypes, SettingsInv
<1>2. /\ posts[s] # None /\ posts[s].kind \in {"entry", "refreshSaved"}
      /\ formLocked' = (formLocked /\ posts[s].kind = "entry")
      /\ posts' = Unposted(s)
      /\ UNCHANGED <<table, pageFilter, awaiting, busyId, editingKey>>
  BY DEF EntryArrives, CameBack, Underway
<1>3. /\ posts[s].kind # "rows" /\ posts[s].kind \notin RowWrites /\ posts[s].kind # "test"
      /\ (posts[s].kind \in FormWrites <=> posts[s].kind = "refreshSaved")
      /\ posts[s].kind \notin {"saveSetting", "unset"}
  BY <1>2, SettingKindsAre
<1>4. ~awaiting
  BY <1>1, <1>2, <1>3, NotWaiting
<1>5. OnlySlot(s) /\ posts'[s] = None
  BY <1>1, <1>2, UnpostedIs
<1>6. LocksHeld'
  <2>1. Underway(FormWrites)' = Underway(FormWrites) \ {s}
    BY <1>5, UnderwayGone
  <2>2. s \in Underway(FormWrites) <=> posts[s].kind = "refreshSaved"
    BY <1>2, <1>3 DEF Underway
  <2>3. (formLocked' <=> Underway(FormWrites)' # {}) /\ \A t, u \in Underway(FormWrites)' : t = u
    BY <1>1, <1>2, <2>1, <2>2 DEF LocksHeld
  <2>. QED BY <1>1, <1>2, <1>3, <1>5, <2>3, LocksElse
<1>7. /\ testing' \subseteq testing /\ testing' \subseteq Ids
      /\ crossed' \in BOOLEAN
      /\ ~crossed' => ~crossed /\ WentWell(s)
  BY <1>1 DEF EntryArrives, SettingsTypes, PageTypeOK
<1>8. TestsBacked'
  BY <1>1, <1>3, <1>5, <1>7, TestsElse
<1>9. /\ onPage'.filter = onPage.filter /\ onPage' \in [filter : Filters, rows : [Ids -> Values]]
      /\ \A j \in Ids : j # i => onPage'.rows[j] = onPage.rows[j]
      /\ WentWell(s) => \A j \in Ids : j = i => onPage'.rows[j] = posts[s].rows[j]
  <2>. DEFINE x == posts[s].rows[i]
  <2>1. onPage \in [filter : Filters, rows : [Ids -> Values]]
    BY <1>1 DEF PageTypeOK
  <2>2. CASE WentWell(s)
    <3>1. i \in Ids => x \in Values
      BY <1>1, <1>2, PostIs
    <3>2. onPage' = [onPage EXCEPT !.rows[i] = x]
      BY <2>2 DEF EntryArrives
    <3>3. \A j \in Ids : j = i => posts[s].rows[j] = x
      OBVIOUS
    <3>. HIDE DEF x, i
    <3>4. onPage'.filter = onPage.filter /\ onPage'.rows = [onPage.rows EXCEPT ![i] = x]
      BY <2>1, <3>2
    <3>5. onPage' \in [filter : Filters, rows : [Ids -> Values]]
      BY <2>1, <3>1, <3>2
    <3>6. \A j \in Ids : onPage'.rows[j] = IF j = i THEN x ELSE onPage.rows[j]
      BY <2>1, <3>4
    <3>. QED BY <3>3, <3>4, <3>5, <3>6
  <2>3. CASE ~WentWell(s)
    BY <2>1, <2>3 DEF EntryArrives
  <2>. QED BY <2>2, <2>3
<1>10. ASSUME ~crossed', NEW j \in Ids PROVE EntryTrue(j)'
  <2>1. EntryTrue(j) /\ WentWell(s)
    BY <1>1, <1>4, <1>7, <1>10 DEF EntriesFollow
  <2>2. CASE j = i
    <3>1. s \in ReadsOf(j)
      BY <1>2, <2>2 DEF ReadsOf, Underway
    <3>2. ReadsOf(j)' = {}
      BY <1>5, <2>1, <3>1 DEF EntryTrue, OnlySlot, ReadsOf, Underway
    <3>3. EntryWrites(j)' = EntryWrites(j)
      BY <1>3, <1>5 DEF OnlySlot, EntryWrites, Underway
    <3>4. EntryWrites(j) = {} => posts[s].rows[j] = table[j]
      BY <2>1, <3>1 DEF EntryTrue, WentWell
    <3>5. EntryWrites(j)' = {} => onPage'.rows[j] = table'[j]
      BY <1>2, <1>9, <2>1, <2>2, <3>3, <3>4
    <3>. QED BY <3>2, <3>5 DEF EntryTrue
  <2>3. CASE j # i
    <3>1. s \notin ReadsOf(j) /\ s \notin ReadsOf(j)' /\ s \notin EntryWrites(j)
      BY <1>3, <1>5, <2>3 DEF ReadsOf, EntryWrites, Underway
    <3>2. table'[j] = table[j] /\ onPage'.rows[j] = onPage.rows[j]
      BY <1>2, <1>9, <2>3
    <3>. QED BY <1>5, <2>1, <3>1, <3>2, EntryElse
  <2>. QED BY <2>2, <2>3
<1>11. EntriesFollow'
  BY <1>1, <1>2, <1>4, <1>5, <1>7, <1>9, <1>10, EntriesElse
<1>12. SettingsTypes'
  <2>1. formLocked' \in BOOLEAN
    BY <1>2
  <2>. QED BY <1>1, <1>2, <1>5, <1>7, <1>9, <2>1
           DEF SettingsTypes, PageTypeOK, OnlySlot, TypedPosts
<1>. QED BY <1>6, <1>8, <1>11, <1>12 DEF SettingsKept, SettingsInv

\* The answer of a test frees the button of its entry.
LEMMA TestDoneSafe ==
    ASSUME SettingsTypes, SettingsInv, NEW s \in Slots, TestDone(s) PROVE SettingsKept
<1>1. PageTypeOK /\ LocksHeld /\ EntriesFollow /\ TestsBacked
  BY DEF SettingsTypes, SettingsInv
<1>2. /\ posts[s] # None /\ posts[s].kind = "test" /\ posts' = Unposted(s)
      /\ testing' = testing \ {posts[s].row}
      /\ UNCHANGED <<table, onPage, pageFilter, awaiting, busyId, formLocked, crossed, editingKey>>
  BY DEF TestDone, CameBack, Underway
<1>3. /\ posts[s].kind # "rows" /\ posts[s].kind \notin RowWrites
      /\ posts[s].kind \notin FormWrites /\ ~awaiting
  BY <1>1, <1>2, SettingKindsAre, NotWaiting
<1>4. OnlySlot(s) /\ posts'[s] = None
  BY <1>1, <1>2, UnpostedIs
<1>5. LocksHeld'
  <2>1. Underway(FormWrites)' = Underway(FormWrites)
    BY <1>3, <1>4 DEF OnlySlot, Underway
  <2>2. (formLocked' <=> Underway(FormWrites)' # {}) /\ \A t, u \in Underway(FormWrites)' : t = u
    BY <1>1, <1>2, <2>1 DEF LocksHeld
  <2>. QED BY <1>1, <1>2, <1>3, <1>4, <2>2, LocksElse
<1>6. TestsBacked'
  BY <1>1, <1>2, <1>4, TestsElse
<1>7. ASSUME ~crossed', NEW j \in Ids PROVE EntryTrue(j)'
  <2>1. EntryTrue(j)
    BY <1>1, <1>2, <1>3, <1>7 DEF EntriesFollow
  <2>2. s \notin ReadsOf(j) /\ s \notin ReadsOf(j)' /\ s \notin EntryWrites(j)
    BY <1>2, <1>4 DEF ReadsOf, EntryWrites, Underway
  <2>. QED BY <1>2, <1>4, <2>1, <2>2, EntryElse
<1>8. EntriesFollow'
  BY <1>1, <1>2, <1>3, <1>4, <1>7, EntriesElse
<1>9. SettingsTypes'
  BY <1>1, <1>2, <1>4 DEF SettingsTypes, PageTypeOK, OnlySlot, TypedPosts
<1>. QED BY <1>5, <1>6, <1>8, <1>9 DEF SettingsKept, SettingsInv

\* The API answers: a read reads now, a write is a write of its entry.
LEMMA AnsweredEntries ==
    ASSUME EntriesFollow, NEW s \in Slots, PostAnswered(s), PageTypeOK,
           UNCHANGED <<onPage, pageFilter, awaiting, crossed>>,
           posts[s].kind = "rows" => table' = table,
           \A i \in Ids : table'[i] = table[i] \/ s \in EntryWrites(i),
           posts[s].kind \in {"rows", "entry", "refreshSaved"} /\ posts'[s].stage = "ok" =>
               posts'[s].rows = RowsOf("all") /\ table' = table
    PROVE  EntriesFollow'
<1>1. /\ OnlySlot(s) /\ posts[s] # None /\ posts'[s] # None
      /\ posts'[s].kind = posts[s].kind /\ posts'[s].row = posts[s].row
      /\ posts'[s].filter = posts[s].filter
  BY DEF PostAnswered
<1>2. RowReads' = RowReads
  BY UnderwayStays DEF RowReads
<1>3. /\ pageFilter' = "all" /\ \A t \in Slots : posts'[t] # None => posts'[t].filter = "all"
  BY <1>1 DEF EntriesFollow, OnlySlot
<1>4. (awaiting' <=> RowReads' # {})
      /\ (awaiting' => \A t, u \in Slots : posts'[t] # None /\ posts'[u] # None => t = u)
  BY <1>1, <1>2 DEF EntriesFollow, OnlySlot
<1>5. ASSUME awaiting, ~crossed, NEW t \in RowReads, posts'[t].stage = "ok"
      PROVE  posts'[t].rows = RowsOf("all")'
  <2>1. t = s /\ posts[s].kind = "rows"
    BY <1>1, <1>5 DEF EntriesFollow, RowReads, Underway
  <2>2. table' = table /\ posts'[s].rows = RowsOf("all")
    BY <1>5, <2>1
  <2>. QED BY <2>1, <2>2 DEF RowsOf
<1>6. ASSUME ~awaiting, ~crossed, NEW i \in Ids PROVE EntryTrue(i)'
  <2>1. EntryTrue(i)
    BY <1>6 DEF EntriesFollow
  <2>2. ReadsOf(i)' = ReadsOf(i) /\ EntryWrites(i)' = EntryWrites(i)
    BY <1>1 DEF OnlySlot, ReadsOf, EntryWrites, Underway
  <2>3. ASSUME EntryWrites(i) = {}, NEW t \in ReadsOf(i), posts'[t].stage = "ok"
        PROVE  posts'[t].rows[i] = table'[i]
    <3>1. CASE t = s
      <4>1. posts[s].kind \in {"rows", "entry", "refreshSaved"}
        BY <2>3, <3>1 DEF ReadsOf, Underway
      <4>2. posts'[s].rows = RowsOf("all") /\ table' = table
        BY <2>3, <3>1, <4>1
      <4>3. RowsOf("all") = table
        BY RowsOfIs, PostKindsAre
      <4>. QED BY <3>1, <4>2, <4>3
    <3>2. CASE t # s
      <4>1. posts'[t] = posts[t]
        BY <1>1, <2>3, <3>2 DEF OnlySlot, ReadsOf, Underway
      <4>. QED BY <2>1, <2>3, <4>1 DEF EntryTrue
    <3>. QED BY <3>1, <3>2
  <2>4. EntryWrites(i) = {} /\ ReadsOf(i) = {} => onPage'.rows[i] = table'[i]
    BY <2>1 DEF EntryTrue
  <2>. QED BY <2>1, <2>2, <2>3, <2>4 DEF EntryTrue
<1>. QED BY <1>2, <1>3, <1>4, <1>5, <1>6 DEF EntriesFollow

\* The API serves a setting, a test or the entries, or refuses.
LEMMA SettingsServedSafe ==
    ASSUME SettingsTypes, SettingsInv, NEW s \in Slots,
           \/ ServeSetting(s) \/ ServeTest(s)
           \/ (AnswerRows(s) \/ RefusePost(s)) /\ UNCHANGED editVars
    PROVE  SettingsKept
<1>1. PageTypeOK /\ LocksHeld /\ EntriesFollow /\ TestsBacked
  BY DEF SettingsTypes, SettingsInv
<1>2. ASSUME PostAnswered(s), table' \in [Ids -> Values], EntriesFollow',
             UNCHANGED <<onPage, pageFilter, awaiting, busyId, formLocked, crossed>>,
             UNCHANGED <<editingKey, testing>>
      PROVE  SettingsKept
  <2>1. LocksHeld'
    BY <1>1, <1>2, AnsweredLocks
  <2>2. SettingsTypes'
    BY <1>2 DEF SettingsTypes, PageTypeOK, PostAnswered, OnlySlot, TypedPosts
  <2>3. \A t \in Underway({"test"}) : posts'[t].row = posts[t].row
    BY <1>2 DEF PostAnswered, OnlySlot, Underway
  <2>4. TestsBacked'
    BY <1>1, <1>2, <2>3, UnderwayStays DEF TestsBacked
  <2>. QED BY <1>2, <2>1, <2>2, <2>4 DEF SettingsKept, SettingsInv
<1>3. CASE ServeSetting(s)
  <2>. DEFINE i == posts[s].row
              v == posts[s].value
  <2>1. /\ AnswerWrite(s, {"saveSetting", "unset"}, i, v) /\ UNCHANGED <<editingKey, testing>>
        /\ posts[s] # None /\ posts[s].kind \in {"saveSetting", "unset"}
    BY <1>3 DEF ServeSetting, Underway, editVars
  <2>2. v \in Values
    BY <1>1, <2>1, PostIs
  <2>3. \A j \in Ids : j = i => s \in EntryWrites(j)
    BY <2>1 DEF EntryWrites, Underway
  <2>. HIDE DEF i, v
  <2>4. /\ PostAnswered(s) /\ table' \in [Ids -> Values]
        /\ \A j \in Ids : IF j = i THEN table'[j] = v ELSE table'[j] = table[j]
        /\ UNCHANGED <<onPage, pageFilter, awaiting, busyId, formLocked, crossed>>
    BY <1>1, <2>1, <2>2, AnswerWriteIs
  <2>5. \A j \in Ids : table'[j] = table[j] \/ s \in EntryWrites(j)
    BY <2>3, <2>4
  <2>6. posts[s].kind \notin {"rows", "entry", "refreshSaved"} /\ posts[s].kind # "rows"
    BY <2>1
  <2>7. EntriesFollow'
    BY <1>1, <2>4, <2>5, <2>6, AnsweredEntries
  <2>. QED BY <1>2, <2>1, <2>4, <2>7
<1>4. CASE ServeTest(s)
  <2>. DEFINE i == posts[s].row
  <2>1. /\ AnswerWrite(s, {"test"}, i, table[i]) /\ UNCHANGED <<editingKey, testing>>
        /\ posts[s].kind = "test"
    BY <1>4 DEF ServeTest, Underway, editVars
  <2>2. i \in Ids => table[i] \in Values
    BY <1>1 DEF PageTypeOK
  <2>. HIDE DEF i
  <2>3. /\ PostAnswered(s) /\ table' \in [Ids -> Values]
        /\ \A j \in Ids : IF j = i THEN table'[j] = table[i] ELSE table'[j] = table[j]
        /\ UNCHANGED <<onPage, pageFilter, awaiting, busyId, formLocked, crossed>>
    BY <1>1, <2>1, <2>2, AnswerWriteIs
  <2>4. table' = table
    BY <1>1, <2>3, SameTable
  <2>5. EntriesFollow'
    BY <1>1, <2>1, <2>3, <2>4, AnsweredEntries
  <2>. QED BY <1>2, <2>1, <2>3, <2>5
<1>5. CASE AnswerRows(s) /\ UNCHANGED editVars
  <2>1. /\ PostAnswered(s) /\ posts'[s].rows = RowsOf(posts[s].filter) /\ posts[s] # None
        /\ table' = table /\ UNCHANGED <<editingKey, testing>>
        /\ UNCHANGED <<onPage, pageFilter, awaiting, busyId, formLocked, crossed>>
    BY <1>1, <1>5, AnswerRowsIs DEF AnswerRows, PostAnswered, editVars
  <2>2. posts[s].filter = "all"
    BY <1>1, <2>1 DEF EntriesFollow
  <2>3. EntriesFollow'
    BY <1>1, <2>1, <2>2, AnsweredEntries
  <2>. QED BY <1>1, <1>2, <2>1, <2>3 DEF PageTypeOK
<1>6. CASE RefusePost(s) /\ UNCHANGED editVars
  <2>1. /\ posts[s] # None /\ posts' = [posts EXCEPT ![s].stage = "failed"]
        /\ table' = table /\ UNCHANGED <<editingKey, testing>>
        /\ UNCHANGED <<onPage, pageFilter, awaiting, busyId, formLocked, crossed>>
    BY <1>6 DEF RefusePost, Vacant, editVars
  <2>2. PostAnswered(s) /\ posts'[s].stage = "failed"
    BY <1>1, <2>1, OutcomeIs
  <2>3. EntriesFollow'
    BY <1>1, <2>1, <2>2, AnsweredEntries
  <2>. QED BY <1>1, <1>2, <2>1, <2>2, <2>3 DEF PageTypeOK
<1>. QED BY <1>3, <1>4, <1>5, <1>6

\* The first rows arrive: there is no other request.
LEMMA SettingsArriveSafe ==
    ASSUME SettingsTypes, SettingsInv, NEW s \in Slots, RowsArrive(s), UNCHANGED editVars
    PROVE  SettingsKept
<1>1. PageTypeOK /\ LocksHeld /\ EntriesFollow /\ TestsBacked
  BY DEF SettingsTypes, SettingsInv
<1>2. PageTypeOK' /\ LocksHeld' /\ UNCHANGED <<editingKey, testing>>
  BY <1>1, RowsArriveKeeps DEF editVars
<1>3. OnlySlot(s) /\ posts'[s] = None /\ s \in RowReads /\ posts[s].kind = "rows" /\ posts[s] # None
  BY <1>1, UnpostedIs DEF RowsArrive, RowReads, CameBack, Underway
<1>4. awaiting /\ \A t \in Slots : posts[t] # None => t = s
  BY <1>1, <1>3 DEF EntriesFollow, RowReads, Underway
<1>5. \A t \in Slots : posts'[t] = None
  BY <1>3, <1>4 DEF OnlySlot
<1>6. RowReads' = {} /\ awaiting' = FALSE /\ pageFilter' = "all"
  BY <1>1, <1>5 DEF RowReads, Underway, RowsArrive, EntriesFollow
<1>7. ASSUME ~crossed' PROVE onPage'.filter = "all" /\ \A i \in Ids : onPage'.rows[i] = table'[i]
  <2>1. ~crossed /\ WentWell(s)
    BY <1>7 DEF RowsArrive
  <2>2. posts[s].rows = RowsOf("all") /\ posts[s].filter = "all"
    BY <1>1, <1>3, <1>4, <2>1 DEF EntriesFollow, WentWell
  <2>3. RowsOf("all") = table /\ table' = table
    BY <1>1, RowsOfIs, PostKindsAre DEF RowsArrive
  <2>4. onPage' = [filter |-> posts[s].filter, rows |-> posts[s].rows]
    BY <2>1 DEF RowsArrive
  <2>. QED BY <2>2, <2>3, <2>4
<1>8. ASSUME ~crossed', NEW i \in Ids PROVE EntryTrue(i)'
  <2>1. ReadsOf(i)' = {}
    BY <1>5 DEF ReadsOf, Underway
  <2>. QED BY <1>7, <1>8, <2>1 DEF EntryTrue
<1>9. EntriesFollow'
  BY <1>5, <1>6, <1>7, <1>8 DEF EntriesFollow
<1>10. TestsBacked'
  BY <1>1, <1>2, <1>3, TestsElse
<1>. QED BY <1>2, <1>9, <1>10 DEF SettingsKept, SettingsTypes, SettingsInv, SettingsTypes

\* Every step of the page of settings.
LEMMA SettingsSafe == ASSUME SettingsTypes, SettingsInv, SettingsPageNext PROVE SettingsKept
<1>1. ASSUME NEW i \in Ids, StartEdit(i) PROVE SettingsKept
  <2>1. UNCHANGED pageVars /\ testing' = testing /\ editingKey' \in Ids \cup {None}
    BY <1>1 DEF StartEdit
  <2>2. PageTypeOK'
    BY <2>1 DEF SettingsTypes, PageTypeOK, pageVars
  <2>3. LocksHeld' /\ TestsBacked'
    BY <2>1 DEF SettingsInv, pageVars, LocksHeld, TestsBacked, RowReads, Underway
  <2>4. EntriesFollow'
    <3>1. ASSUME NEW j \in Ids, EntryTrue(j) PROVE EntryTrue(j)'
      BY <2>1, <3>1 DEF pageVars, EntryTrue, ReadsOf, EntryWrites, Underway
    <3>2. RowReads' = RowReads /\ RowsOf("all")' = RowsOf("all")
      BY <2>1 DEF pageVars, RowReads, Underway, RowsOf
    <3>. QED BY <2>1, <3>1, <3>2 DEF SettingsInv, pageVars, EntriesFollow
  <2>. QED BY <2>1, <2>2, <2>3, <2>4 DEF SettingsKept, SettingsTypes, SettingsInv
<1>. QED BY <1>1, SettingsButtonsSafe, RefreshSafe, EntryArrivesSafe, TestDoneSafe,
            SettingsServedSafe, SettingsArriveSafe DEF SettingsPageNext

-----------------------------------------------------------------------------
(* The screens together: the part on the screen keeps its promises, the    *)
(* others rest.                                                            *)

DocTypes == passing \subseteq Ids /\ selected \subseteq Ids /\ classifying \in BOOLEAN
ViewTypes == view \in Views /\ ticked \in BOOLEAN /\ central \in BOOLEAN /\ chosen \subseteq Ids
OwnTypes ==
    /\ DocTypes /\ PollTypes /\ numbered \in BOOLEAN /\ waiting \in BOOLEAN
    /\ ViewTypes /\ url \in Ids \cup {None}

PagesTypes ==
    /\ PageTypeOK
    /\ resetTarget \in Ids \cup {None} /\ policyId \in Ids \cup {None}
    /\ documents \in Ids \cup {None} /\ editingKey \in Ids \cup {None} /\ testing \subseteq Ids

\* What is promised of the tabs of the policy, and of the pages.
TabsInv ==
    /\ tab \in Plain => PlainInv
    /\ tab = "documents" => DocumentsInv
    /\ tab = "section" => SectionInv
    /\ tab = "search" => SearchInv
    /\ tab = "coverage" => ViewIsAwaited
    /\ tab = "page" => PolicyInv

PagesInv ==
    /\ tab = "users" => UsersInv
    /\ tab = "shares" => SharesInv
    /\ tab = "settings" => SettingsInv

\* The inductive invariant of the screens.
ScreenInv ==
    /\ tab \in Tabs /\ TabTypeOK /\ OwnTypes /\ PagesTypes
    /\ TabsInv /\ PagesInv

-----------------------------------------------------------------------------
(* Where the screens begin.                                                *)

\* A tab that waits for its first load.
LEMMA LoadBegins ==
    ASSUME NEW row \in Ids \cup {None}, NEW s \in Slots,
           calls = [t \in Slots |-> IF t = s THEN Request("load", row) ELSE None],
           rev = 0, listRev = 0, loading = TRUE, busy = FALSE
    PROVE  /\ calls \in [Slots -> Fetch \cup {None}]
           /\ PlainInv
           /\ \A t \in Slots : calls[t] # None => calls[t] = Request("load", row)
           /\ s \in Mine({"load"})
<1>. DEFINE a == Request("load", row)
<1>1. /\ a \in Fetch /\ a # None /\ a.kind = "load" /\ a.fresh /\ a.mine
      /\ a.stage = "sent" /\ a.rev = 0
  BY RequestIs, LoadKinds
<1>. HIDE DEF a
<1>2. calls = [t \in Slots |-> IF t = s THEN a ELSE None]
  BY DEF a
<1>3. \A t \in Slots : calls[t] # None => t = s /\ calls[t] = a
  BY <1>2
<1>4. calls[s] = a
  BY <1>2
<1>5. \A kinds : Mine(kinds) \subseteq {s}
  BY <1>3 DEF Mine, Under
<1>6. s \in Mine({"load"}) /\ s \in Mine(Spins)
  BY <1>1, <1>4, LoadKinds DEF Mine, Under
<1>7. Mine(Saves) = {} /\ Mine(Loads \ {"load"}) = {}
  <2>1. ASSUME NEW t \in Slots, calls[t] # None PROVE calls[t].kind = "load"
    BY <1>1, <1>3, <2>1
  <2>2. "load" \notin Saves /\ "load" \notin Loads \ {"load"}
    BY LoadKinds
  <2>. QED BY <2>1, <2>2 DEF Mine, Under
<1>8. SpinnerEnds /\ OneSave /\ OnlyLoads
  BY <1>1, <1>4, <1>6, <1>7 DEF SpinnerEnds, OneSave, OnlyLoads
<1>9. NewestLoad
  <2>1. \A t \in Mine(Loads) : calls[t].stage # "ok"
    BY <1>1, <1>4, <1>5
  <2>. QED BY <1>5, <2>1 DEF NewestLoad
<1>10. RevsPast
  <2>1. \A t \in Slots : calls[t] # None => calls[t].rev <= rev
    BY <1>1, <1>3
  <2>. QED BY <2>1 DEF RevsPast
<1>11. calls \in [Slots -> Fetch \cup {None}]
  BY <1>1, <1>2
<1>12. PlainInv
  BY <1>8, <1>9, <1>10 DEF PlainInv
<1>13. \A t \in Slots : calls[t] # None => calls[t] = a
  BY <1>3
<1>14. \A t \in Slots : calls[t] # None => calls[t] = Request("load", row)
  BY <1>13 DEF a
<1>. QED BY <1>6, <1>11, <1>12, <1>14

\* No request, nothing shown.
LEMMA EmptyTyped ==
    ASSUME calls \in [Slots -> Fetch \cup {None}], store \in [Ids -> {"new", "live", "gone"}],
           rev = 0, list = {}, listRev = 0, loading \in BOOLEAN, form = "closed", busy = FALSE,
           mounts = 1
    PROVE  TabTypeOK
<1>1. 0 \in 0..MaxRev /\ 1 \in 1..MaxMounts
  BY TabAssumption
<1>2. list \subseteq Ids /\ form \in {"closed", "new"} \cup Ids
  OBVIOUS
<1>. QED BY <1>1, <1>2 DEF TabTypeOK

\* A list tab begins with its first load under way.
LEMMA TabBegins == ASSUME TabInit PROVE TabTypeOK /\ PlainInv
<1>1. PICK s \in Slots :
          calls = [t \in Slots |-> IF t = s THEN Request("load", None) ELSE None]
  BY DEF TabInit
<1>2. calls \in [Slots -> Fetch \cup {None}] /\ PlainInv
  BY <1>1, LoadBegins DEF TabInit
<1>. QED BY <1>2, EmptyTyped DEF TabInit

\* The documents tab begins with its first load under way.
LEMMA DocBegins == ASSUME DocInit PROVE TabTypeOK /\ DocTypes /\ DocumentsInv
<1>1. /\ TabTypeOK /\ PlainInv /\ passing = Ids /\ selected = {} /\ classifying = FALSE
  BY TabBegins DEF DocInit
<1>2. Mine({"classify"}) = {}
  <2>1. PICK s \in Slots :
            calls = [t \in Slots |-> IF t = s THEN Request("load", None) ELSE None]
    BY DEF DocInit, TabInit
  <2>2. Request("load", None).kind = "load"
    BY DEF Request
  <2>. QED BY <2>1, <2>2 DEF Mine, Under
<1>3. DocTypes /\ SelectedVisible /\ ClassifyingIsClassify
  BY <1>1, <1>2 DEF DocTypes, SelectedVisible, ClassifyingIsClassify
<1>. QED BY <1>1, <1>2, <1>3 DEF PlainInv, DocumentsInv

\* A tab that asks two things at once.
LEMMA TwoBegin ==
    ASSUME NEW p \in Kinds, NEW q \in Kinds, NEW s \in Slots, NEW t \in Slots, s # t,
           calls = [u \in Slots |-> IF u = s THEN Request(p, None)
                                    ELSE IF u = t THEN Request(q, None) ELSE None]
    PROVE  /\ calls \in [Slots -> Fetch \cup {None}]
           /\ calls[s] # None /\ calls[s].kind = p /\ calls[s].fresh /\ calls[s].mine
           /\ calls[s].stage = "sent" /\ calls[s].rev = 0
           /\ calls[t] # None /\ calls[t].kind = q /\ calls[t].mine
           /\ calls[t].stage = "sent" /\ calls[t].rev = 0
           /\ \A u \in Slots : calls[u] # None => u \in {s, t}
<1>. DEFINE a == Request(p, None)
            b == Request(q, None)
<1>1. /\ a \in Fetch /\ a # None /\ a.kind = p /\ a.fresh /\ a.mine /\ a.stage = "sent" /\ a.rev = 0
      /\ b \in Fetch /\ b # None /\ b.kind = q /\ b.mine /\ b.stage = "sent" /\ b.rev = 0
  BY RequestIs
<1>2. calls = [u \in Slots |-> IF u = s THEN a ELSE IF u = t THEN b ELSE None]
  OBVIOUS
<1>. HIDE DEF a, b
<1>3. calls[s] = a /\ calls[t] = b /\ \A u \in Slots : calls[u] # None => u \in {s, t}
  BY <1>2
<1>4. calls \in [Slots -> Fetch \cup {None}]
  BY <1>1, <1>2
<1>. QED BY <1>1, <1>3, <1>4

\* The tag section begins with the first read of the configuration.
LEMMA SectionBegins == ASSUME SectionInit PROVE TabTypeOK /\ PollTypes /\ SectionInv
<1>1. PICK s \in Slots, t \in Slots :
          /\ s # t
          /\ calls = [u \in Slots |-> IF u = s THEN Request("load", None)
                                      ELSE IF u = t THEN Request("status", None) ELSE None]
  BY DEF SectionInit
<1>2. "load" \in Kinds /\ "status" \in Kinds /\ "load" \in Spins /\ "status" \notin Loads
      /\ "load" \notin TagSaves /\ "status" \notin TagSaves
  BY DEF Kinds, Statuses, Loads, Spins, TagSaves
<1>3. /\ calls \in [Slots -> Fetch \cup {None}]
      /\ calls[s] # None /\ calls[s].kind = "load" /\ calls[s].fresh /\ calls[s].mine
      /\ calls[s].stage = "sent" /\ calls[s].rev = 0
      /\ calls[t] # None /\ calls[t].kind = "status" /\ calls[t].mine
      /\ calls[t].stage = "sent" /\ calls[t].rev = 0
      /\ \A u \in Slots : calls[u] # None => u \in {s, t}
  BY <1>1, <1>2, TwoBegin
<1>4. PICK tag \in Ids \cup {None} : store = [i \in Ids |-> IF i = tag THEN "live" ELSE "new"]
  BY DEF SectionInit
<1>5. TabTypeOK
  <2>1. store \in [Ids -> {"new", "live", "gone"}]
    BY <1>4
  <2>. QED BY <1>3, <2>1, EmptyTyped DEF SectionInit
<1>6. OneTag
  BY <1>4 DEF OneTag, Live
<1>7. PollTypes
  <2>1. 0 \in 0..MaxStrays
    BY StraysAssumption
  <2>2. /\ syncJob \in {"none", "active", "ended"} /\ progress = "none"
        /\ polling = FALSE /\ timer = FALSE /\ strays = 0
    BY DEF SectionInit
  <2>. QED BY <2>1, <2>2 DEF PollTypes
<1>8. s \in Mine(Spins) /\ Mine(Loads) \subseteq {s} /\ Mine(TagSaves) = {}
  BY <1>2, <1>3 DEF Mine, Under
<1>9. SpinnerEnds /\ NewestLoad /\ PollingAlive /\ OneTagSave
  BY <1>3, <1>8 DEF SectionInit, SpinnerEnds, NewestLoad, PollingAlive, OneTagSave
<1>10. RevsPast
  <2>1. \A u \in Slots : calls[u] # None => calls[u].rev <= 0
    BY <1>3
  <2>. QED BY <2>1 DEF SectionInit, RevsPast
<1>. QED BY <1>5, <1>6, <1>7, <1>9, <1>10, SectionWhole

\* The search begins with nothing asked.
LEMMA SearchBegins ==
    ASSUME SearchInit PROVE TabTypeOK /\ numbered \in BOOLEAN /\ waiting \in BOOLEAN /\ SearchInv
<1>1. TabTypeOK
  BY EmptyTyped DEF SearchInit
<1>. QED BY <1>1 DEF SearchInit, SearchInv, Mine, Under

\* The coverage section begins with its views asked for.
LEMMA CoverageBegins == ASSUME CoverageInit PROVE TabTypeOK /\ ViewTypes /\ ViewIsAwaited
<1>1. PICK s \in Slots, t \in Slots :
          /\ s # t
          /\ calls = [u \in Slots |-> IF u = s THEN Request("status", None)
                                      ELSE IF u = t THEN Request("quiet", None) ELSE None]
  BY DEF CoverageInit
<1>2. "status" \in Kinds /\ "quiet" \in Kinds
  BY DEF Kinds, Statuses, Loads
<1>3. /\ calls \in [Slots -> Fetch \cup {None}]
      /\ calls[s] # None /\ calls[s].kind = "status" /\ calls[s].mine
  BY <1>1, <1>2, TwoBegin
<1>4. TabTypeOK
  BY <1>3, EmptyTyped DEF CoverageInit
<1>5. s \in Mine({"status", "load"})
  BY <1>3 DEF Mine, Under
<1>. QED BY <1>4, <1>5 DEF CoverageInit, ViewTypes, Views, ViewIsAwaited

\* The page of a policy begins with the policy of the address asked for.
LEMMA PolicyBegins == ASSUME PageInit PROVE TabTypeOK /\ url \in Ids \cup {None} /\ PolicyInv
<1>1. PICK s \in Slots : calls = [t \in Slots |-> IF t = s THEN Request("load", url) ELSE None]
  BY DEF PageInit
<1>2. url \in Ids
  BY DEF PageInit
<1>3. /\ calls \in [Slots -> Fetch \cup {None}] /\ s \in Mine({"load"})
      /\ \A t \in Slots : calls[t] # None => calls[t] = Request("load", url)
  BY <1>1, <1>2, LoadBegins DEF PageInit
<1>4. TabTypeOK
  BY <1>3, EmptyTyped DEF PageInit
<1>5. /\ Request("load", url).row = url /\ Request("load", url).mine
      /\ Request("load", url).fresh /\ Request("load", url).stage = "sent"
  BY <1>2, RequestIs, LoadKinds
<1>6. PageIsUrl
  <2>1. calls[s].fresh /\ calls[s].row = url
    BY <1>3, <1>5 DEF Mine, Under
  <2>. QED BY <1>3, <2>1 DEF PageInit, PageIsUrl
<1>. QED BY <1>2, <1>3, <1>4, <1>5, <1>6 DEF PolicyInv

\* An admin page begins with its first read under way.
LEMMA PageStarts ==
    ASSUME NEW values \in SUBSET Values, PageBegins(values), PageRestsElse
    PROVE  /\ PageTypeOK /\ LocksHeld /\ RowsFollow /\ DocumentReads = {}
           /\ EntriesFollow
<1>. DEFINE p == NewPost("rows", None, "all", "none")
<1>1. /\ p \in Post /\ p # None /\ p.kind = "rows" /\ p.filter = "all" /\ p.stage = "sent"
  BY NewPostIs, PostKindsAre
<1>2. PICK s \in Slots : posts = [t \in Slots |-> IF t = s THEN p ELSE None]
  BY DEF PageBegins
<1>. HIDE DEF p
<1>3. /\ posts[s] = p /\ \A t \in Slots : posts[t] # None => t = s
      /\ posts \in [Slots -> Post \cup {None}]
  BY <1>1, <1>2
<1>4. /\ table \in [Ids -> Values] /\ awaiting = TRUE
      /\ onPage = [filter |-> "all", rows |-> [i \in Ids |-> "none"]]
      /\ pageFilter = "all" /\ busyId = None /\ formLocked = FALSE /\ crossed = FALSE
  BY DEF PageBegins, PageRestsElse
<1>5. onPage \in [filter : Filters, rows : [Ids -> Values]]
  <2>1. [i \in Ids |-> "none"] \in [Ids -> Values] /\ "all" \in Filters
    BY PostKindsAre
  <2>. QED BY <1>4, <2>1
<1>6. PageTypeOK
  BY <1>3, <1>4, <1>5, PostKindsAre DEF PageTypeOK
<1>7. RowReads = {s} /\ posts[s].filter = "all" /\ posts[s].stage = "sent" /\ posts[s] # None
  BY <1>1, <1>3 DEF RowReads, Underway
<1>8. Underway(FormWrites) = {} /\ DocumentReads = {}
  BY <1>1, <1>3, PostKindsAre DEF Underway, DocumentReads
<1>9. LocksHeld
  BY <1>4, <1>7, <1>8 DEF LocksHeld
<1>10. RowsFollow
  BY <1>4, <1>7 DEF RowsFollow
<1>11. EntriesFollow
  BY <1>3, <1>4, <1>7 DEF EntriesFollow
<1>. QED BY <1>6, <1>8, <1>9, <1>10, <1>11

\* An admin page that is not shown is well typed.
LEMMA PagesRest == ASSUME TableRests PROVE PageTypeOK
<1>1. /\ [i \in Ids |-> "none"] \in [Ids -> Values] /\ "all" \in Filters
  BY PostKindsAre
<1>2. onPage \in [filter : Filters, rows : [Ids -> Values]]
  BY <1>1 DEF TableRests, PageRestsElse
<1>. QED BY <1>1, <1>2 DEF TableRests, PageRestsElse, PageTypeOK

\* The admin pages begin within their invariant.
LEMMA PagesBegin == ASSUME WebInit PROVE PagesTypes /\ PagesInv
<1>1. /\ tab = "users" => UsersInit
      /\ tab = "shares" => SharesInit
      /\ tab = "settings" => SettingsPageInit
      /\ tab \notin Pages => TableRests
  BY DEF WebInit, Pages
<1>2. /\ tab # "users" => resetTarget = None
      /\ tab # "shares" => policyId = None /\ documents = None
      /\ tab # "settings" => editingKey = None /\ testing = {}
  BY DEF WebInit, OwnRests
<1>3. CASE tab = "users"
  <2>1. {"PENDING_APPROVAL", "ACTIVE", "DISABLED"} \in SUBSET Values
    BY DEF Values
  <2>2. PageTypeOK /\ LocksHeld /\ RowsFollow /\ resetTarget = None
    BY <1>1, <1>3, <2>1, PageStarts DEF UsersInit
  <2>. QED BY <1>2, <1>3, <2>2 DEF PagesTypes, PagesInv, UsersInv
<1>4. CASE tab = "shares"
  <2>1. {"none", "READ", "WRITE"} \in SUBSET Values
    BY DEF Values
  <2>2. /\ PageTypeOK /\ LocksHeld /\ RowsFollow /\ DocumentReads = {}
        /\ policyId = None /\ documents = None
    BY <1>1, <1>4, <2>1, PageStarts DEF SharesInit
  <2>3. DocumentsFollow
    BY <2>2 DEF DocumentsFollow
  <2>. QED BY <1>2, <1>4, <2>2, <2>3 DEF PagesTypes, PagesInv, SharesInv
<1>5. CASE tab = "settings"
  <2>1. {"first", "second"} \in SUBSET Values
    BY DEF Values
  <2>2. PageTypeOK /\ LocksHeld /\ EntriesFollow /\ editingKey = None /\ testing = {}
    BY <1>1, <1>5, <2>1, PageStarts DEF SettingsPageInit
  <2>3. TestsBacked
    BY <2>2 DEF TestsBacked
  <2>. QED BY <1>2, <1>5, <2>2, <2>3 DEF PagesTypes, PagesInv, SettingsInv
<1>6. CASE tab \notin Pages
  BY <1>1, <1>2, <1>6, PagesRest DEF PagesTypes, PagesInv, Pages
<1>. QED BY <1>3, <1>4, <1>5, <1>6 DEF Pages

\* A tab that is not shown is well typed.
LEMMA TabAtRest == ASSUME TabRests PROVE TabTypeOK
<1>1. store \in [Ids -> {"new", "live", "gone"}] /\ calls \in [Slots -> Fetch \cup {None}]
  BY DEF TabRests
<1>. QED BY <1>1, EmptyTyped DEF TabRests

\* Which part is which.
LEMMA TabsAre ==
    /\ tab \in Tabs => \/ tab \in Plain \/ tab \in Paperless \/ tab \in Pages
                       \/ tab = "documents" \/ tab = "section" \/ tab = "search"
                       \/ tab = "coverage" \/ tab = "page"
    /\ tab \in Plain => tab \notin Paperless /\ tab \notin Pages
    /\ tab \in Paperless => tab \notin Pages
    /\ tab \in {"documents", "section", "search", "coverage", "page"} =>
          tab \notin Plain /\ tab \notin Paperless /\ tab \notin Pages
BY DEF Tabs, Plain, Paperless, Pages

\* The screens begin within their invariant.
LEMMA ScreenBegins == ASSUME WebInit PROVE ScreenInv
<1>1. /\ tab \in Tabs
      /\ tab \in Pages => TabRests
      /\ tab \in Paperless => TabRests
      /\ tab \in Plain => TabInit
      /\ IF tab = "documents" THEN DocInit ELSE DocRests
      /\ IF tab = "section" THEN SectionInit ELSE SectionRests
      /\ IF tab = "search" THEN SearchInit ELSE SearchRests
      /\ IF tab = "coverage" THEN CoverageInit ELSE CoverageRests
      /\ IF tab = "page" THEN PageInit ELSE PageRests
  BY DEF WebInit
<1>2. /\ DocRests => DocTypes
      /\ SearchRests => numbered \in BOOLEAN /\ waiting \in BOOLEAN
      /\ CoverageRests => ViewTypes
      /\ PageRests => url \in Ids \cup {None}
  BY DEF DocRests, DocTypes, SearchRests, CoverageRests, ViewTypes, Views, PageRests
<1>3. SectionRests => PollTypes
  <2>1. 0 \in 0..MaxStrays
    BY StraysAssumption
  <2>. QED BY <2>1 DEF SectionRests, PollTypes
<1>4. TabTypeOK
  <2>1. CASE tab \in Plain
    BY <1>1, <2>1, TabBegins
  <2>2. CASE tab \in Paperless \cup Pages
    BY <1>1, <2>2, TabAtRest
  <2>3. CASE tab = "documents"
    BY <1>1, <2>3, DocBegins
  <2>4. CASE tab = "section"
    BY <1>1, <2>4, SectionBegins
  <2>5. CASE tab = "search"
    BY <1>1, <2>5, SearchBegins
  <2>6. CASE tab = "coverage"
    BY <1>1, <2>6, CoverageBegins
  <2>7. CASE tab = "page"
    BY <1>1, <2>7, PolicyBegins
  <2>. QED BY <1>1, <2>1, <2>2, <2>3, <2>4, <2>5, <2>6, <2>7, TabsAre
<1>5. /\ DocTypes /\ PollTypes /\ numbered \in BOOLEAN /\ waiting \in BOOLEAN
      /\ ViewTypes /\ url \in Ids \cup {None}
  BY <1>1, <1>2, <1>3, DocBegins, SectionBegins, SearchBegins, CoverageBegins, PolicyBegins
<1>6. TabsInv
  BY <1>1, TabBegins, DocBegins, SectionBegins, SearchBegins, CoverageBegins, PolicyBegins
     DEF TabsInv
<1>. QED BY <1>1, <1>4, <1>5, <1>6, PagesBegin DEF ScreenInv, OwnTypes

-----------------------------------------------------------------------------
(* Steps.                                                                  *)

\* What a step leaves alone keeps its types.
LEMMA Rests ==
    /\ TabTypeOK /\ UNCHANGED tabVars => TabTypeOK'
    /\ DocTypes /\ UNCHANGED docVars => DocTypes'
    /\ PollTypes /\ UNCHANGED sectionVars => PollTypes'
    /\ ViewTypes /\ UNCHANGED coverageVars => ViewTypes'
    /\ OwnTypes /\ UNCHANGED ownVars => OwnTypes'
    /\ PagesTypes /\ UNCHANGED pagesVars => PagesTypes'
<1>1. TabTypeOK /\ UNCHANGED tabVars => TabTypeOK'
  BY DEF TabTypeOK, tabVars
<1>2. DocTypes /\ UNCHANGED docVars => DocTypes'
  BY DEF DocTypes, docVars
<1>3. PollTypes /\ UNCHANGED sectionVars => PollTypes'
  BY DEF PollTypes, sectionVars
<1>4. ViewTypes /\ UNCHANGED coverageVars => ViewTypes'
  BY DEF ViewTypes, coverageVars
<1>5. OwnTypes /\ UNCHANGED ownVars => OwnTypes'
  BY <1>2, <1>3, <1>4 DEF OwnTypes, ownVars, searchVars
<1>6. PagesTypes /\ UNCHANGED pagesVars => PagesTypes'
  BY DEF PagesTypes, PageTypeOK, pagesVars, pageVars, formVars, editVars
<1>. QED BY <1>1, <1>2, <1>3, <1>4, <1>5, <1>6

\* Every step of a tab of the policy page, and no list goes back in it.
LEMMA ScreenStep ==
    ASSUME ScreenInv, ScreenNext, UNCHANGED <<tab, pagesVars>> PROVE ScreenInv' /\ StepsForth
<1>1. /\ tab \in Tabs /\ TabTypeOK /\ OwnTypes /\ PagesTypes /\ TabsInv
      /\ tab' = tab /\ PagesTypes'
  BY Rests DEF ScreenInv
<1>2. SUFFICES TabTypeOK' /\ OwnTypes' /\ TabsInv' /\ StepsForth /\ tab \notin Pages
  BY <1>1 DEF ScreenInv, PagesInv, Pages
<1>3. listRev \in Nat /\ (listRev' = listRev => StepsForth)
  BY <1>1 DEF TabTypeOK, StepsForth
<1>4. ASSUME tab \in Plain, PlainKept, UNCHANGED ownVars
      PROVE  TabTypeOK' /\ OwnTypes' /\ TabsInv' /\ StepsForth /\ tab \notin Pages
  <2>1. OwnTypes' /\ tab \notin Pages
    BY <1>1, <1>4, Rests, TabsAre
  <2>2. TabsInv'
    BY <1>1, <1>4 DEF TabsInv, PlainKept, Plain
  <2>. QED BY <1>4, <2>1, <2>2 DEF PlainKept
<1>5. CASE tab = "persons" /\ PersonsNext /\ UNCHANGED ownVars
  BY <1>1, <1>4, <1>5, PersonsSafe DEF TabsInv, Plain
<1>6. CASE tab = "links" /\ LinksNext /\ UNCHANGED ownVars
  BY <1>1, <1>4, <1>6, LinksSafe DEF TabsInv, Plain
<1>7. CASE tab = "costs" /\ CardNext /\ UNCHANGED ownVars
  BY <1>1, <1>4, <1>7, CardSafe DEF TabsInv, Plain
<1>8. CASE tab = "billing" /\ SidebarNext /\ UNCHANGED ownVars
  BY <1>1, <1>4, <1>8, SidebarSafe DEF TabsInv, Plain
<1>9. CASE /\ tab = "documents" /\ DocumentsNext
           /\ UNCHANGED <<sectionVars, searchVars, coverageVars, url>>
  <2>1. DocTypeOK /\ DocumentsInv
    BY <1>1, <1>9 DEF DocTypeOK, OwnTypes, DocTypes, TabsInv
  <2>2. DocKept
    BY <1>9, <2>1, DocumentsSafe
  <2>3. TabTypeOK' /\ DocTypes' /\ DocumentsInv' /\ StepsForth
    BY <2>2 DEF DocKept, DocTypeOK, DocTypes
  <2>4. OwnTypes'
    BY <1>1, <1>9, <2>3, Rests DEF OwnTypes, searchVars
  <2>5. TabsInv'
    BY <1>1, <1>9, <2>3 DEF TabsInv, Plain
  <2>. QED BY <1>9, <2>3, <2>4, <2>5, TabsAre
<1>10. CASE /\ tab = "section" /\ SectionNext
            /\ UNCHANGED <<docVars, searchVars, coverageVars, url>>
  <2>1. SectionTypeOK /\ SectionInv
    BY <1>1, <1>10, SectionWhole DEF OwnTypes, TabsInv
  <2>2. SectionKept
    BY <1>10, <2>1, SectionSafe
  <2>3. TabTypeOK' /\ PollTypes' /\ SectionInv' /\ StepsForth
    BY <2>2 DEF SectionKept, SectionTypeOK, PollTypes
  <2>4. OwnTypes'
    BY <1>1, <1>10, <2>3, Rests DEF OwnTypes, searchVars
  <2>5. TabsInv'
    BY <1>1, <1>10, <2>3 DEF TabsInv, Plain
  <2>. QED BY <1>10, <2>3, <2>4, <2>5, TabsAre
<1>11. CASE /\ tab = "search" /\ SearchNext
            /\ UNCHANGED <<docVars, sectionVars, coverageVars, url>>
  <2>1. SearchTypes /\ SearchInv
    BY <1>1, <1>11 DEF SearchTypes, OwnTypes, TabsInv
  <2>2. SearchKept
    BY <1>11, <2>1, SearchSafe
  <2>3. /\ TabTypeOK' /\ numbered' \in BOOLEAN /\ waiting' \in BOOLEAN /\ SearchInv'
        /\ StepsForth
    BY <1>3, <2>2 DEF SearchKept, SearchTypes
  <2>4. OwnTypes'
    BY <1>1, <1>11, <2>3, Rests DEF OwnTypes
  <2>5. TabsInv'
    BY <1>1, <1>11, <2>3 DEF TabsInv, Plain
  <2>. QED BY <1>11, <2>3, <2>4, <2>5, TabsAre
<1>12. CASE /\ tab = "coverage" /\ CoverageNext
            /\ UNCHANGED <<docVars, sectionVars, searchVars, url>>
  <2>1. CoverageTypes /\ ViewIsAwaited
    BY <1>1, <1>12 DEF CoverageTypes, OwnTypes, ViewTypes, TabsInv
  <2>2. CoverageKept
    BY <1>12, <2>1, CoverageSafe
  <2>3. TabTypeOK' /\ ViewTypes' /\ ViewIsAwaited' /\ StepsForth
    BY <1>3, <2>2 DEF CoverageKept, CoverageTypes, ViewTypes
  <2>4. OwnTypes'
    BY <1>1, <1>12, <2>3, Rests DEF OwnTypes, searchVars
  <2>5. TabsInv'
    BY <1>1, <1>12, <2>3 DEF TabsInv, Plain
  <2>. QED BY <1>12, <2>3, <2>4, <2>5, TabsAre
<1>13. CASE /\ tab = "page" /\ PageNext
            /\ UNCHANGED <<docVars, sectionVars, searchVars, coverageVars>>
  <2>1. PolicyTypes /\ PolicyInv
    BY <1>1, <1>13 DEF PolicyTypes, OwnTypes, TabsInv
  <2>2. PolicyKept
    BY <1>13, <2>1, PolicySafe
  <2>3. TabTypeOK' /\ url' \in Ids \cup {None} /\ PolicyInv' /\ StepsForth
    BY <1>3, <2>2 DEF PolicyKept, PolicyTypes
  <2>4. OwnTypes'
    BY <1>1, <1>13, <2>3, Rests DEF OwnTypes, searchVars
  <2>5. TabsInv'
    BY <1>1, <1>13, <2>3 DEF TabsInv, Plain
  <2>. QED BY <1>13, <2>3, <2>4, <2>5, TabsAre
<1>. QED BY <1>5, <1>6, <1>7, <1>8, <1>9, <1>10, <1>11, <1>12, <1>13 DEF ScreenNext

\* Every step of an admin page.
LEMMA PagesStep ==
    ASSUME ScreenInv, PagesNext, UNCHANGED <<tab, tabVars, ownVars>> PROVE ScreenInv'
<1>1. /\ tab \in Tabs /\ TabTypeOK' /\ OwnTypes' /\ PagesTypes /\ PagesInv /\ tab' = tab
  BY Rests DEF ScreenInv
<1>2. SUFFICES PagesTypes' /\ PagesInv' /\ tab \in Pages
  BY <1>1, TabsAre DEF ScreenInv, TabsInv
<1>3. CASE tab = "users" /\ UsersNext /\ UNCHANGED <<formVars, editVars>>
  <2>1. UsersTypes /\ UsersInv
    BY <1>1, <1>3 DEF UsersTypes, PagesTypes, PagesInv
  <2>2. PageTypeOK' /\ resetTarget' \in Ids \cup {None} /\ UsersInv'
    BY <1>3, <2>1, UsersSafe DEF UsersKept, UsersTypes
  <2>. QED BY <1>1, <1>3, <2>2 DEF PagesTypes, PagesInv, Pages, formVars, editVars
<1>4. CASE tab = "shares" /\ SharesPageNext /\ UNCHANGED <<resetTarget, editVars>>
  <2>1. SharesTypes /\ SharesInv
    BY <1>1, <1>4 DEF SharesTypes, PagesTypes, PagesInv
  <2>2. /\ PageTypeOK' /\ policyId' \in Ids \cup {None} /\ documents' \in Ids \cup {None}
        /\ SharesInv'
    BY <1>4, <2>1, SharesSafe DEF SharesKept, SharesTypes
  <2>. QED BY <1>1, <1>4, <2>2 DEF PagesTypes, PagesInv, Pages, editVars
<1>5. CASE tab = "settings" /\ SettingsPageNext /\ UNCHANGED <<resetTarget, formVars>>
  <2>1. SettingsTypes /\ SettingsInv
    BY <1>1, <1>5 DEF SettingsTypes, PagesTypes, PagesInv
  <2>2. /\ PageTypeOK' /\ editingKey' \in Ids \cup {None} /\ testing' \subseteq Ids
        /\ SettingsInv'
    BY <1>5, <2>1, SettingsSafe DEF SettingsKept, SettingsTypes
  <2>. QED BY <1>1, <1>5, <2>2 DEF PagesTypes, PagesInv, Pages, formVars
<1>. QED BY <1>3, <1>4, <1>5 DEF PagesNext

\* Nothing happens on the screen.
LEMMA ScreenUntouched ==
    ASSUME ScreenInv, UNCHANGED <<tab, tabVars, ownVars, pagesVars>> PROVE ScreenInv'
<1>1. tab' = tab /\ TabTypeOK' /\ OwnTypes' /\ PagesTypes'
  BY Rests DEF ScreenInv
<1>2. /\ UNCHANGED <<store, rev, calls, list, listRev, loading, form, busy, mounts>>
      /\ UNCHANGED <<passing, selected, classifying, syncJob, progress, polling, timer, strays>>
      /\ UNCHANGED <<numbered, waiting, view, ticked, central, chosen, url>>
      /\ UNCHANGED <<table, posts, onPage, pageFilter, awaiting, busyId, formLocked, crossed>>
      /\ UNCHANGED <<policyId, documents, astray, testing>>
  BY DEF tabVars, ownVars, docVars, sectionVars, searchVars, coverageVars, pagesVars, pageVars,
         formVars, editVars
<1>3. /\ \A kinds : Mine(kinds)' = Mine(kinds)
      /\ \A kinds : Underway(kinds)' = Underway(kinds)
  BY <1>2 DEF Mine, Under, Underway
<1>4. /\ PlainInv => PlainInv'
      /\ DocumentsInv => DocumentsInv'
  BY <1>2, <1>3 DEF PlainInv, DocumentsInv, SpinnerEnds, OneSave, NewestLoad, RevsPast, OnlyLoads,
                    SelectedVisible, Visible, ClassifyingIsClassify
<1>5. SectionInv => SectionInv'
  BY <1>2, <1>3 DEF SectionInv, SpinnerEnds, NewestLoad, RevsPast, PollingAlive, Live
<1>6. /\ SearchInv => SearchInv'
      /\ ViewIsAwaited => ViewIsAwaited'
      /\ PolicyInv => PolicyInv'
  BY <1>2, <1>3 DEF SearchInv, ViewIsAwaited, PolicyInv, PageIsUrl
<1>7. LocksHeld => LocksHeld'
  BY <1>2, <1>3 DEF LocksHeld, RowReads
<1>8. RowsFollow => RowsFollow'
  BY <1>2, <1>3 DEF RowsFollow, RowReads, Dirty, RowsOf
<1>9. DocumentsFollow => DocumentsFollow'
  BY <1>2 DEF DocumentsFollow, DocumentReads
<1>10. EntriesFollow => EntriesFollow'
  <2>1. \A i : EntryTrue(i)' <=> EntryTrue(i)
    BY <1>2, <1>3 DEF EntryTrue, ReadsOf, EntryWrites
  <2>2. RowReads' = RowReads /\ RowsOf("all")' = RowsOf("all")
    BY <1>2, <1>3 DEF RowReads, RowsOf
  <2>. QED BY <1>2, <2>1, <2>2 DEF EntriesFollow
<1>11. TestsBacked => TestsBacked'
  BY <1>2, <1>3 DEF TestsBacked
<1>12. TabsInv'
  BY <1>1, <1>4, <1>5, <1>6 DEF ScreenInv, TabsInv
<1>13. PagesInv'
  BY <1>1, <1>7, <1>8, <1>9, <1>10, <1>11 DEF ScreenInv, PagesInv, UsersInv, SharesInv, SettingsInv
<1>. QED BY <1>1, <1>12, <1>13 DEF ScreenInv

\* Every step keeps the invariant of the screens.
LEMMA ScreenKept == ASSUME ScreenInv, [WebNext]_webVars PROVE ScreenInv'
<1>1. CASE PaperlessNext /\ UNCHANGED <<tabVars, ownVars, pagesVars>> /\ UNCHANGED tab
  BY <1>1, ScreenUntouched
<1>2. CASE PagesNext /\ UNCHANGED <<tabVars, ownVars, serverVars>> /\ UNCHANGED tab
  BY <1>2, PagesStep
<1>3. CASE ScreenNext /\ UNCHANGED <<serverVars, pagesVars>> /\ UNCHANGED tab
  BY <1>3, ScreenStep
<1>4. CASE UNCHANGED webVars
  <2>1. UNCHANGED <<tab, tabVars, ownVars, pagesVars>>
    BY <1>4 DEF webVars
  <2>. QED BY <2>1, ScreenUntouched
<1>. QED BY <1>1, <1>2, <1>3, <1>4 DEF WebNext

\* What the screens keep, for any number of rows, requests, openings and commits: no two
\* loads hold the newest number, no answer is younger than the table, and where no write
\* crossed a read the rows read are the table's.
THEOREM ScreenInvariance == WebSpec => []ScreenInv
<1>1. ScreenInv /\ [WebNext]_webVars => ScreenInv'
  BY ScreenKept
<1>. QED BY <1>1, ScreenBegins, PTL DEF WebSpec

-----------------------------------------------------------------------------
(* What follows.                                                           *)

\* A set of at most one element.
LEMMA AtMostOne ==
    ASSUME NEW S, \A x, y \in S : x = y PROVE Cardinality(S) <= 1
<1>1. CASE S = {}
  BY <1>1, FS_EmptySet
<1>2. CASE S # {}
  <2>1. PICK x \in S : S = {x}
    BY <1>2
  <2>2. Cardinality({x}) = 1
    BY FS_Singleton
  <2>. QED BY <2>1, <2>2
<1>. QED BY <1>1, <1>2

\* The types of the requests to Paperless, as the runs state them.
LEMMA ServerTyped == ASSUME ServerTypes PROVE ServerTypeOK
<1>1. ASSUME NEW a \in Ask PROVE DOMAIN a = DOMAIN Idle /\ a.tries \in 0..2
  BY <1>1 DEF Ask, Idle
<1>2. \A c \in Askers : asks[c] \in Ask
  BY DEF ServerTypes
<1>3. \A c \in Askers : DOMAIN asks[c] = DOMAIN Idle /\ asks[c].tries \in 0..2
  BY <1>1, <1>2
<1>. QED BY <1>3 DEF ServerTypes, ServerTypeOK

\* Every variable of the screens and of the calls to Paperless has its type.
THEOREM WebTyped == WebSpec => []WebTypeOK
<1>1. ScreenInv /\ PaperlessInv => WebTypeOK
  <2>. SUFFICES ASSUME ScreenInv, PaperlessInv PROVE WebTypeOK
    OBVIOUS
  <2>1. ServerTypeOK
    BY ServerTyped DEF PaperlessInv
  <2>2. tab = "section" => Cardinality(Live) <= 1
    <3>1. tab = "section" => \A i, j \in Live : i = j
      BY DEF ScreenInv, TabsInv, SectionInv
    <3>. QED BY <3>1, AtMostOne
  <2>3. DocTypeOK /\ SectionTypeOK
    BY DEF ScreenInv, OwnTypes, DocTypes, PollTypes, DocTypeOK, SectionTypeOK
  <2>. QED BY <2>1, <2>2, <2>3 DEF ScreenInv, OwnTypes, ViewTypes, PagesTypes, WebTypeOK
<1>. QED BY <1>1, ScreenInvariance, PaperlessInvariance, PTL

\* The locks and the rows of an admin page, as the runs state them.
LEMMA PagesBacked ==
    ASSUME PagesTypes, PagesInv, tab \in Pages PROVE PageLocksBacked /\ PageAtRestIsTrue
<1>1. LocksHeld
  BY DEF PagesInv, Pages, UsersInv, SharesInv, SettingsInv
<1>2. PageLocksBacked
  <2>1. Cardinality(Underway(FormWrites)) <= 1
    <3>1. \A s, t \in Underway(FormWrites) : s = t
      BY <1>1 DEF LocksHeld
    <3>. QED BY <3>1, AtMostOne
  <2>. QED BY <1>1, <2>1 DEF LocksHeld, PageLocksBacked, RowReads
<1>3. SUFFICES ASSUME \A s \in Slots : Vacant(s), ~crossed
               PROVE  onPage = [filter |-> pageFilter, rows |-> RowsOf(pageFilter)]
  BY <1>2 DEF PageAtRestIsTrue
<1>4. RowReads = {} /\ Dirty = {} /\ \A i \in Ids : ReadsOf(i) = {} /\ EntryWrites(i) = {}
  BY <1>3 DEF Vacant, RowReads, Dirty, Underway, ReadsOf, EntryWrites
<1>5. CASE tab \in {"users", "shares"}
  <2>1. RowsFollow
    BY <1>5 DEF PagesInv, UsersInv, SharesInv
  <2>. QED BY <1>3, <1>4, <2>1 DEF RowsFollow
<1>6. CASE tab = "settings"
  <2>1. EntriesFollow /\ PageTypeOK
    BY <1>6 DEF PagesInv, SettingsInv, PagesTypes
  <2>2. ~awaiting /\ pageFilter = "all"
    BY <1>4, <2>1 DEF EntriesFollow
  <2>3. onPage.filter = "all" /\ \A i \in Ids : onPage.rows[i] = table[i]
    BY <1>3, <1>4, <2>1, <2>2 DEF EntriesFollow, EntryTrue
  <2>4. RowsOf("all") = table
    BY <2>1, RowsOfIs, PostKindsAre
  <2>5. onPage \in [filter : Filters, rows : [Ids -> Values]] /\ table \in [Ids -> Values]
    BY <2>1 DEF PageTypeOK
  <2>6. onPage.rows = table
    BY <2>3, <2>5
  <2>. QED BY <2>2, <2>3, <2>4, <2>5, <2>6
<1>. QED BY <1>5, <1>6 DEF Pages

\* On every screen, what looks busy waits for a request under way: a spinner has its load,
\* a lock its one save, polling its timer or its read; selected documents are shown ones,
\* and an admin page at rest shows the table (the tabs of a policy, the users, the shares,
\* the settings).
THEOREM ScreensBacked == WebSpec => []ViewBacked
<1>1. ScreenInv => ViewBacked
  <2>. SUFFICES ASSUME ScreenInv PROVE ViewBacked
    OBVIOUS
  <2>1. TabsInv /\ PagesInv /\ PagesTypes /\ tab \in Tabs
    BY DEF ScreenInv
  <2>2. OneSave => LockIsSave
    BY AtMostOne DEF OneSave, LockIsSave
  <2>3. tab \in Plain => SpinnerEnds /\ LockIsSave
    BY <2>1, <2>2 DEF TabsInv, PlainInv
  <2>4. tab = "documents" => LockIsSave /\ SelectedVisible /\ ClassifyingIsClassify
    BY <2>1, <2>2 DEF TabsInv, DocumentsInv
  <2>5. tab = "section" => SpinnerEnds /\ PollingAlive /\ TagSavesLocked
    <3>1. SUFFICES ASSUME SectionInv PROVE SpinnerEnds /\ PollingAlive /\ TagSavesLocked
      BY <2>1 DEF TabsInv
    <3>2. Cardinality(Mine(TagSaves)) <= 1
      BY <3>1, AtMostOne DEF SectionInv
    <3>. QED BY <3>1, <3>2 DEF SectionInv, TagSavesLocked, TagSaves
  <2>6. tab = "search" => TagSearchSettles
    BY <2>1 DEF TabsInv, SearchInv, TagSearchSettles
  <2>7. /\ tab = "coverage" => ViewIsAwaited
        /\ tab = "page" => PageIsUrl
    BY <2>1 DEF TabsInv, PolicyInv
  <2>8. tab \in Pages => PageLocksBacked /\ PageAtRestIsTrue
    BY <2>1, PagesBacked
  <2>9. /\ tab = "shares" => DocumentsOfPolicy
        /\ tab = "settings" => TestsBacked
    BY <2>1 DEF PagesInv, SharesInv, SettingsInv, DocumentsFollow, DocumentsOfPolicy
  <2>. QED BY <2>3, <2>4, <2>5, <2>6, <2>7, <2>8, <2>9 DEF ViewBacked
<1>. QED BY <1>1, ScreenInvariance, PTL

\* As long as a tab stays open its list does not go back to earlier rows: the effect's
\* cleanup, or the number of the request (requestSeq), drops every answer outrun.
THEOREM ListsGoForth == WebSpec => ListNeverGoesBack
<1>1. ScreenInv /\ [WebNext]_webVars => [mounts' = mounts => listRev' >= listRev]_tabVars
  <2>. SUFFICES ASSUME ScreenInv, [WebNext]_webVars, tabVars' # tabVars
                PROVE  mounts' = mounts => listRev' >= listRev
    OBVIOUS
  <2>1. ScreenNext /\ UNCHANGED <<tab, pagesVars>>
    BY DEF WebNext, webVars
  <2>. QED BY <2>1, ScreenStep DEF StepsForth
<1>. QED BY <1>1, ScreenInvariance, PTL DEF WebSpec, ListNeverGoesBack

=============================================================================
