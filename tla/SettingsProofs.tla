--------------------------- MODULE SettingsProofs ---------------------------
(***************************************************************************)
(* What the settings keep, for any keys of the catalog, texts, processes   *)
(* and administrators: the types, that the page shows what a process runs, *)
(* and which saved value alone keeps a process from starting.              *)
(*                                                                         *)
(* The proofs look at the catalog once: every entry that the preload       *)
(* copies into the environment has a type whose valid texts the start-up   *)
(* schema takes too (CatalogEntries, CopiedParses). The invariant then     *)
(* follows a value from the row into the environment of a process and into *)
(* the configuration it builds.                                            *)
(***************************************************************************)
EXTENDS SystemSettings, TLAPS

(* A text is the record of its four parts. *)
IsText(t) ==
    t = [shape |-> t.shape, word |-> t.word, number |-> t.number, spelling |-> t.spelling]

(* What the proofs need of a catalog entry: the bounds are numbers, and an *)
(* entry that the preload copies into the environment has a type whose     *)
(* valid texts the start-up schema takes too.                              *)
EntryOK(k, e) ==
    /\ e.type \in {"boolean", "number", "string"}
    /\ e.min \in Int /\ e.max \in Int
    /\ IsText(e.default)
    /\ (e.category = "restart" \/ (e.category = "secret" /\ e.boot)) =>
          \/ e.type = "string"
          \/ e.type = "boolean" /\ k \in {"STORAGE_ENABLED", "OIDC_ENABLED"}
          \/ e.type = "number" /\ e.min > 0

(* A text made from its parts is canonical. *)
LEMMA TextShape ==
    \A a, w, n : /\ IsText(Text(a, w, n))
                 /\ Text(a, w, n).shape = a /\ Text(a, w, n).spelling = "canonical"
BY DEF Text, IsText

(* Texts the module names. *)
LEMMA TextsTyped ==
    /\ IsText(None) /\ IsText(Blank) /\ IsText(Yes) /\ IsText(No)
    /\ \A n : IsText(Number(n))
    /\ \A w : IsText(Word(w))
BY TextShape DEF None, Blank, Yes, No, Number, Word

(* Each way of writing an entry makes a good one, with the bounds of a     *)
(* number above zero where the preload copies it.                          *)
LEMMA EntriesOK ==
    /\ \A c, d : IsText(d) => /\ EntryOK("STORAGE_ENABLED", Switch(c, d))
                              /\ EntryOK("OIDC_ENABLED", Switch(c, d))
    /\ \A k, d : IsText(d) => EntryOK(k, Switch("runtime", d))
    /\ \A k, c : \A d, lo, hi \in Int :
         lo > 0 \/ c = "runtime" => EntryOK(k, Range(c, d, lo, hi))
    /\ \A k, c, d : IsText(d) => EntryOK(k, Free(c, d))
    /\ \A k, c, o, d : IsText(d) => EntryOK(k, Choice(c, d, o))
    /\ \A k, c, d : IsText(d) => EntryOK(k, [Free(c, d) EXCEPT !.boot = TRUE])
<1>1. \A k, c : \A d, lo, hi \in Int :
         lo > 0 \/ c = "runtime" => EntryOK(k, Range(c, d, lo, hi))
  BY TextsTyped DEF EntryOK, Range, Entry
<1>2. \A k, c, d : IsText(d) => EntryOK(k, [Free(c, d) EXCEPT !.boot = TRUE])
  BY DEF EntryOK, Free, Entry
<1>3. \A k, d : IsText(d) => EntryOK(k, Switch("runtime", d))
  BY DEF EntryOK, Switch, Entry
<1>. QED BY <1>1, <1>2, <1>3 DEF EntryOK, Switch, Free, Choice, Entry

(* The entries of the AI providers. *)
LEMMA AiEntries ==
    \A k \in DOMAIN AiCatalog : EntryOK(k, AiCatalog[k])
BY TextsTyped, EntriesOK DEF AiCatalog

(* The entries of storage, mail and Paperless. *)
LEMMA IntegrationEntries ==
    \A k \in DOMAIN IntegrationCatalog : EntryOK(k, IntegrationCatalog[k])
BY TextsTyped, EntriesOK DEF IntegrationCatalog

(* The entries of sign-in. *)
LEMMA SignInEntries ==
    \A k \in DOMAIN SignInCatalog : EntryOK(k, SignInCatalog[k])
BY TextsTyped, EntriesOK DEF SignInCatalog

(* Every entry of the catalog is good. *)
LEMMA CatalogEntries ==
    \A k \in DOMAIN Catalog : EntryOK(k, Catalog[k])
<1>1. \A k \in DOMAIN BootstrapCatalog : EntryOK(k, BootstrapCatalog[k])
  BY TextsTyped, EntriesOK DEF BootstrapCatalog
<1>. QED BY <1>1, AiEntries, IntegrationEntries, SignInEntries DEF Catalog

-----------------------------------------------------------------------------
(* Writing a text in canonical form changes its spelling only, and once is *)
(* enough.                                                                 *)
LEMMA CanonicalText ==
    ASSUME NEW t, IsText(t)
    PROVE  /\ IsText(Canonical(t)) /\ Canonical(t).shape = t.shape
           /\ Canonical(t).word = t.word /\ Canonical(t).number = t.number
           /\ Canonical(t).spelling = "canonical"
           /\ Canonical(Canonical(t)) = Canonical(t)
           /\ t.spelling = "canonical" => Canonical(t) = t
<1>1. Canonical(t) = [shape |-> t.shape, word |-> t.word, number |-> t.number,
                      spelling |-> "canonical"]
  BY DEF IsText, Canonical, Spelt
<1>2. Canonical(Canonical(t)) = [shape |-> t.shape, word |-> t.word, number |-> t.number,
                                 spelling |-> "canonical"]
  BY <1>1 DEF Canonical, Spelt
<1>. QED BY <1>1, <1>2 DEF IsText

(* No text stays no text. *)
LEMMA CanonicalNone == Canonical(None) = None
<1>1. None = Text("none", "", 0)
  BY DEF None
<1>2. IsText(None) /\ None.spelling = "canonical"
  BY <1>1, TextShape
<1>. QED BY <1>2, CanonicalText

(* No text and the blank text are not of any type. *)
LEMMA NoText ==
    None.shape = "none" /\ Blank.shape = "blank"
<1>1. None = Text("none", "", 0) /\ Blank = Text("blank", "", 0)
  BY DEF None, Blank
<1>. QED BY <1>1, TextShape

(* The canonical form of a valid text is valid, and is not an empty one. *)
LEMMA CanonicalValid ==
    ASSUME NEW k, NEW t, IsText(t), Valid(k, t)
    PROVE  Valid(k, Canonical(t)) /\ Canonical(t) # None /\ Canonical(t) # Blank
<1>1. Valid(k, Canonical(t))
  BY CanonicalText DEF Valid, NotBlank
<1>2. t.shape # "none" /\ t.shape # "blank"
  BY DEF Valid, NotBlank
<1>. QED BY <1>1, <1>2, CanonicalText, NoText

\* What the preload copies, the schema takes.
LEMMA CopiedParses ==
    ASSUME NEW k \in DOMAIN Catalog, BootPreload(k), NEW t, IsText(t), Valid(k, t)
    PROVE  Parses(k, Canonical(t))
<1>1. EntryOK(k, Catalog[k])
  BY CatalogEntries
<1>2. CASE Catalog[k].type = "string"
  BY <1>2 DEF Parses
<1>3. CASE Catalog[k].type = "boolean" /\ k \in {"STORAGE_ENABLED", "OIDC_ENABLED"}
  <2>1. t.shape = "boolean"
    BY <1>3 DEF Valid
  <2>. QED BY <1>3, <2>1, CanonicalText DEF Parses
<1>4. CASE Catalog[k].type = "number" /\ Catalog[k].min > 0
  <2>1. t.shape = "number" /\ t.number \in Catalog[k].min..Catalog[k].max
    BY <1>4 DEF Valid
  <2>2. t.number > 0
    BY <1>1, <1>4, <2>1 DEF EntryOK
  <2>. QED BY <1>4, <2>1, <2>2, CanonicalText DEF Parses
<1>. QED BY <1>1, <1>2, <1>3, <1>4 DEF EntryOK, BootPreload

-----------------------------------------------------------------------------
\* The empty row too has nothing in the wrong column.
RowSealed(r) ==
    /\ IF IsSecret(key) THEN r.plain = None ELSE r.sealed = None
    /\ r.there => r.secret = IsSecret(key)

\* What a process takes from the environment it started with, or from the database.
ProcessOK(p) ==
    /\ p.work \in {"reading", "applying"} => BootPreload(key)
    /\ p.state # "down" =>
          \/ p.env = file
          \/ /\ BootPreload(key) /\ p.work = "done"
             /\ Valid(key, Stored(p.seen)) /\ p.env = Canonical(Stored(p.seen))
    /\ p.state \in {"opening", "up", "leaving"} =>
          IF p.late THEN p.built = Configured(key, file)
          ELSE p.work = "done" /\ p.built = Configured(key, p.env)

(* The inductive invariant: the environment parses, no row has a value in  *)
(* the wrong column, and every process has what it read.                   *)
SettingsInv ==
    /\ SettingsTypeOK
    /\ Parses(key, file)
    /\ RowSealed(row)
    /\ \A a \in Admins : RowSealed(calls[a].seen)
    /\ \A p \in Processes : ProcessOK(procs[p])

-----------------------------------------------------------------------------
(* Texts, rows and records of a process.                                   *)

(* The texts an administrator may write. *)
LEMMA TextsAreTexts ==
    ASSUME NEW k \in DOMAIN Catalog, NEW t \in Texts(k)
    PROVE  IsText(t)
<1>1. EntryOK(k, Catalog[k])
  BY CatalogEntries
<1>2. \A x, y : IsText(x) => IsText(Spelt(x, y))
  BY DEF IsText, Spelt
<1>. QED BY <1>1, <1>2, TextsTyped DEF Texts, EntryOK

(* All texts of the model, with their canonical forms. *)
LEMMA TextSetTyped ==
    ASSUME SettingsAssumption
    PROVE  /\ None \in TextSet
           /\ \A t \in TextSet : IsText(t) /\ Canonical(t) \in TextSet
           /\ \A k \in Keys : Texts(k) \subseteq TextSet
<1>1. None \in TextSet /\ \A k \in Keys : Texts(k) \subseteq TextSet
  BY DEF TextSet
<1>2. ASSUME NEW t \in TextSet
      PROVE  IsText(t) /\ Canonical(t) \in TextSet
  <2>1. CASE t = None
    BY <1>1, <2>1, TextsTyped, CanonicalNone
  <2>2. CASE t # None
    <3>1. PICK k \in Keys : t \in Texts(k) \cup {Canonical(x) : x \in Texts(k)}
      BY <2>2 DEF TextSet
    <3>2. PICK x \in Texts(k) : t = x \/ t = Canonical(x)
      BY <3>1
    <3>3. IsText(x)
      BY <3>2, TextsAreTexts DEF SettingsAssumption
    <3>4. Canonical(t) = Canonical(x) /\ IsText(t)
      BY <3>2, <3>3, CanonicalText
    <3>5. Canonical(x) \in TextSet
      BY DEF TextSet
    <3>. QED BY <3>4, <3>5
  <2>. QED BY <2>1, <2>2
<1>. QED BY <1>1, <1>2

(* A row made from a text holds it in the column of its kind. *)
LEMMA RowShape ==
    ASSUME SettingsAssumption, NEW t \in TextSet, NEW k
    PROVE  /\ Row(t, IsSecret(k)) \in RowSet /\ Row(t, IsSecret(k)).there
           /\ Row(t, IsSecret(k)).secret = IsSecret(k)
           /\ IF IsSecret(k) THEN Row(t, IsSecret(k)).plain = None
              ELSE Row(t, IsSecret(k)).sealed = None
<1>1. None \in TextSet
  BY TextSetTyped
<1>2. IsSecret(k) \in BOOLEAN
  BY DEF IsSecret
<1>. QED BY <1>1, <1>2 DEF Row, RowSet

(* The empty row. *)
LEMMA NoRowShape ==
    ASSUME SettingsAssumption
    PROVE  NoRow \in RowSet /\ ~NoRow.there /\ RowSealed(NoRow)
BY TextSetTyped DEF NoRow, RowSet, RowSealed

(* The texts of a row. *)
LEMMA RowFields ==
    ASSUME SettingsAssumption, NEW r \in RowSet
    PROVE  /\ r.plain \in TextSet /\ r.sealed \in TextSet /\ Stored(r) \in TextSet
           /\ IsText(Stored(r))
BY TextSetTyped DEF RowSet, Stored

(* A process that is down has nothing to account for. *)
LEMMA DownShape ==
    ASSUME SettingsAssumption
    PROVE  Down \in ProcessSet /\ ProcessOK(Down)
<1>1. None \in TextSet /\ NoRow \in RowSet
  BY TextSetTyped, NoRowShape
<1>. QED BY <1>1 DEF Down, ProcessSet, ProcessOK

(* At the start nobody has read anything, and the environment parses. *)
LEMMA SettingsStart ==
    ASSUME SettingsAssumption, SettingsInit
    PROVE  SettingsInv
<1>1. key \in Keys /\ file \in TextSet /\ Parses(key, file)
  BY TextSetTyped DEF SettingsInit
<1>2. row \in RowSet /\ RowSealed(row)
  <2>1. CASE row = NoRow
    BY <2>1, NoRowShape
  <2>2. CASE row # NoRow
    <3>1. PICK t \in Texts(key) : row = Row(t, IsSecret(key))
      BY <2>2 DEF SettingsInit
    <3>2. t \in TextSet
      BY <1>1, TextSetTyped
    <3>. QED BY <3>1, <3>2, RowShape DEF RowSealed
  <2>. QED BY <2>1, <2>2
<1>3. Idle \in CallSet /\ RowSealed(Idle.seen)
  BY TextSetTyped, NoRowShape DEF Idle, CallSet
<1>4. \A a \in Admins : calls[a] = Idle
  BY DEF SettingsInit
<1>5. calls \in [Admins -> CallSet]
  BY <1>3 DEF SettingsInit
<1>6. procs \in [Processes -> ProcessSet] /\ \A p \in Processes : ProcessOK(procs[p])
  BY DownShape DEF SettingsInit
<1>7. SecretsSealed
  BY <1>2 DEF SecretsSealed, RowSealed
<1>8. events \in 0..MaxEvents
  BY DEF SettingsInit, SettingsAssumption
<1>9. asked \in BOOLEAN /\ mishap \in BOOLEAN /\ local \in BOOLEAN
  BY DEF SettingsInit
<1>. QED BY <1>1, <1>2, <1>3, <1>4, <1>5, <1>6, <1>7, <1>8, <1>9 DEF SettingsInv, SettingsTypeOK

\* The admins' side: a call is put down, or ended, and the row fits its column.
LEMMA CallStep ==
    ASSUME SettingsAssumption, SettingsInv, NEW a \in Admins, NEW c \in CallSet,
           calls' = [calls EXCEPT ![a] = c], RowSealed(c.seen),
           row' \in RowSet, RowSealed(row'), events' \in 0..MaxEvents,
           UNCHANGED <<key, file, local, procs, asked, mishap>>
    PROVE  SettingsInv'
<1>1. calls' \in [Admins -> CallSet] /\ \A b \in Admins : RowSealed(calls'[b].seen)
  BY DEF SettingsInv, SettingsTypeOK
<1>2. \A r : RowSealed(r)' <=> RowSealed(r)
  BY DEF RowSealed, IsSecret
<1>3. SecretsSealed'
  BY DEF RowSealed, SecretsSealed, IsSecret
<1>4. ProcessSet' = ProcessSet /\ \A p \in Processes : ProcessOK(procs[p])'
  BY DEF ProcessSet, SettingsInv, ProcessOK
<1>. QED BY <1>1, <1>3, <1>4 DEF SettingsInv, SettingsTypeOK, RowSealed, IsSecret

\* The processes' side: one of them changes.
LEMMA ProcessStep ==
    ASSUME SettingsAssumption, SettingsInv, NEW p \in Processes, NEW n \in ProcessSet,
           procs' = [procs EXCEPT ![p] = n], ProcessOK(n),
           \/ UNCHANGED calls
           \/ calls' = [a \in Admins |-> Idle],
           events' \in 0..MaxEvents, asked' \in BOOLEAN, mishap' \in BOOLEAN,
           UNCHANGED <<key, file, local, row>>
    PROVE  SettingsInv'
<1>1. Idle \in CallSet /\ RowSealed(Idle.seen)
  BY TextSetTyped, NoRowShape DEF Idle, CallSet
<1>2. calls' \in [Admins -> CallSet] /\ \A b \in Admins : RowSealed(calls'[b].seen)
  BY <1>1 DEF SettingsInv, SettingsTypeOK
<1>3. SecretsSealed'
  BY DEF SettingsInv, SettingsTypeOK, SecretsSealed
<1>4. ProcessSet' = ProcessSet /\ procs' \in [Processes -> ProcessSet]
  BY DEF ProcessSet, SettingsInv, SettingsTypeOK
<1>5. \A q \in Processes : ProcessOK(procs'[q])
  BY DEF SettingsInv, SettingsTypeOK
<1>6. \A q \in Processes : ProcessOK(procs[q])'
  BY <1>5 DEF ProcessOK
<1>. QED BY <1>2, <1>3, <1>4, <1>6 DEF SettingsInv, SettingsTypeOK, RowSealed, IsSecret

(* Events are counted up to their bound. *)
LEMMA EventCounts ==
    ASSUME SettingsAssumption, SettingsInv, Event
    PROVE  events' \in 0..MaxEvents
BY DEF Event, SettingsInv, SettingsTypeOK, SettingsAssumption

(* An administrator reads the row that is sealed. *)
LEMMA LookStep ==
    ASSUME SettingsAssumption, SettingsInv, NEW a \in Admins, Look(a)
    PROVE  SettingsInv'
<1>1. row \in RowSet /\ RowSealed(row) /\ key \in Keys
  BY DEF SettingsInv, SettingsTypeOK
<1>2. /\ events' \in 0..MaxEvents
      /\ UNCHANGED <<key, file, local, procs, asked, mishap>> /\ UNCHANGED row
  BY EventCounts DEF Look
<1>3. \A text \in TextSet, op \in {"create", "update", "delete"} :
         [op |-> op, text |-> text, seen |-> row] \in CallSet
  BY <1>1 DEF CallSet
<1>4. \A text \in Texts(key) : Canonical(text) \in TextSet
  BY <1>1, TextSetTyped
<1>5. PICK c \in CallSet : c.seen = row /\ calls' = [calls EXCEPT ![a] = c]
  <2>1. ASSUME NEW text \in Texts(key), UpsertLooks(a, text) \/ CreateLooks(a, text) \/ PatchLooks(a, text)
        PROVE  \E c \in CallSet : c.seen = row /\ calls' = [calls EXCEPT ![a] = c]
    <3>1. PICK op \in {"create", "update"} :
             calls' = [calls EXCEPT ![a] = [op |-> op, text |-> Canonical(text), seen |-> row]]
      BY <2>1 DEF UpsertLooks, CreateLooks, PatchLooks
    <3>. QED BY <1>3, <1>4, <3>1
  <2>2. ASSUME PatchLooks(a, None)
        PROVE  \E c \in CallSet : c.seen = row /\ calls' = [calls EXCEPT ![a] = c]
    BY <1>3, <2>2, TextSetTyped, CanonicalNone DEF PatchLooks
  <2>3. ASSUME ResetLooks(a) \/ DeleteLooks(a)
        PROVE  \E c \in CallSet : c.seen = row /\ calls' = [calls EXCEPT ![a] = c]
    BY <1>3, <2>3, TextSetTyped DEF ResetLooks, DeleteLooks
  <2>. QED BY <2>1, <2>2, <2>3 DEF Look
<1>. QED BY <1>1, <1>2, <1>5, CallStep

(* Saving a value and writing the old one back both keep the columns       *)
(* apart.                                                                  *)
LEMMA UpdatedShape ==
    ASSUME SettingsAssumption, NEW r \in RowSet, RowSealed(r), NEW text \in TextSet,
           NEW seen \in RowSet, RowSealed(seen)
    PROVE  /\ Updated(r, text) \in RowSet /\ RowSealed(Updated(r, text))
           /\ WrittenBack(r, seen) \in RowSet /\ RowSealed(WrittenBack(r, seen))
<1>. DEFINE u == Updated(r, text)
            w == WrittenBack(r, seen)
<1>1. IsSecret(key) \in BOOLEAN /\ SecretOf(key) = IsSecret(key)
  BY DEF IsSecret, SecretOf
<1>2. /\ u \in RowSet /\ u.secret = IsSecret(key)
      /\ u.plain = IF IsSecret(key) THEN r.plain ELSE text
      /\ u.sealed = IF IsSecret(key) THEN text ELSE r.sealed
  BY <1>1 DEF Updated, RowSet
<1>3. /\ w \in RowSet /\ w.secret = IsSecret(key)
      /\ w.plain = IF seen.plain # None THEN seen.plain ELSE r.plain
      /\ w.sealed = IF seen.sealed # None THEN seen.sealed ELSE r.sealed
  BY <1>1 DEF WrittenBack, RowSet
<1>. HIDE DEF u, w
<1>4. RowSealed(u)
  BY <1>2 DEF RowSealed
<1>5. RowSealed(w)
  BY <1>3 DEF RowSealed
<1>. QED BY <1>2, <1>3, <1>4, <1>5 DEF u, w

(* An administrator's write, whatever row it goes by. *)
LEMMA WriteStep ==
    ASSUME SettingsAssumption, SettingsInv, NEW a \in Admins, Write(a)
    PROVE  SettingsInv'
<1>1. row \in RowSet /\ RowSealed(row) /\ key \in Keys /\ events \in 0..MaxEvents
  BY DEF SettingsInv, SettingsTypeOK
<1>2. calls[a] \in CallSet /\ RowSealed(calls[a].seen)
  BY DEF SettingsInv, SettingsTypeOK
<1>3. calls[a].text \in TextSet /\ calls[a].seen \in RowSet
  BY <1>2 DEF CallSet
<1>4. Idle \in CallSet /\ RowSealed(Idle.seen)
  BY TextSetTyped, NoRowShape DEF Idle, CallSet
<1>5. row' \in RowSet /\ RowSealed(row')
  <2>1. row' \in {Row(calls[a].text, SecretOf(key)), WrittenBack(row, calls[a].seen),
                  Updated(row, calls[a].text), NoRow, row}
    BY DEF Write
  <2>2. CASE row' = Row(calls[a].text, SecretOf(key))
    BY <1>3, <2>2, RowShape DEF SecretOf, RowSealed
  <2>3. CASE row' = WrittenBack(row, calls[a].seen) \/ row' = Updated(row, calls[a].text)
    BY <1>1, <1>2, <1>3, <2>3, UpdatedShape
  <2>4. CASE row' \in {NoRow, row}
    BY <1>1, <2>4, NoRowShape
  <2>. QED BY <2>1, <2>2, <2>3, <2>4
<1>. QED BY <1>1, <1>4, <1>5, CallStep DEF Write

(* The fields of a process. *)
LEMMA ProcessFields ==
    ASSUME SettingsInv, NEW p \in Processes
    PROVE  /\ procs[p] \in ProcessSet /\ ProcessOK(procs[p])
           /\ procs[p].state \in {"down", "boot", "opening", "up", "leaving"}
           /\ procs[p].work \in {"none", "reading", "applying", "done"}
           /\ procs[p].env \in TextSet /\ procs[p].seen \in RowSet
           /\ procs[p].late \in BOOLEAN
BY DEF SettingsInv, SettingsTypeOK, ProcessSet

(* A process starts with the environment of the deployment. *)
LEMMA StartStep ==
    ASSUME SettingsAssumption, SettingsInv, NEW p \in Processes, Start(p)
    PROVE  SettingsInv'
<1>. DEFINE n == [Down EXCEPT !.state = "boot", !.env = file,
                              !.work = IF BootPreload(key) THEN "reading" ELSE "done"]
<1>1. /\ procs' = [procs EXCEPT ![p] = n]
      /\ UNCHANGED <<key, file, local, row, calls, events, asked, mishap>>
  BY DEF Start
<1>2. file \in TextSet /\ events \in 0..MaxEvents /\ asked \in BOOLEAN /\ mishap \in BOOLEAN
  BY DEF SettingsInv, SettingsTypeOK
<1>3. Down \in ProcessSet
  BY DownShape
<1>4. /\ n \in ProcessSet /\ n.state = "boot" /\ n.env = file
      /\ n.work = IF BootPreload(key) THEN "reading" ELSE "done"
  BY <1>2, <1>3 DEF ProcessSet
<1>. HIDE DEF n
<1>5. ProcessOK(n)
  BY <1>4 DEF ProcessOK
<1>. QED BY <1>1, <1>2, <1>4, <1>5, ProcessStep

(* The preload reads the row. *)
LEMMA PreloadReadStep ==
    ASSUME SettingsAssumption, SettingsInv, NEW p \in Processes, PreloadRead(p)
    PROVE  SettingsInv'
<1>. DEFINE n == [procs[p] EXCEPT !.work = "applying", !.seen = row]
<1>1. /\ procs' = [procs EXCEPT ![p] = n]
      /\ procs[p].state # "down" /\ procs[p].work = "reading"
      /\ UNCHANGED <<key, file, local, row, calls, events, asked, mishap>>
  BY DEF PreloadRead
<1>2. /\ row \in RowSet /\ events \in 0..MaxEvents /\ asked \in BOOLEAN /\ mishap \in BOOLEAN
  BY DEF SettingsInv, SettingsTypeOK
<1>3. procs[p] \in ProcessSet /\ ProcessOK(procs[p])
  BY ProcessFields
<1>4. /\ n \in ProcessSet /\ n.state = procs[p].state /\ n.env = procs[p].env
      /\ n.late = procs[p].late /\ n.built = procs[p].built /\ n.work = "applying"
  BY <1>2, <1>3 DEF ProcessSet
<1>. HIDE DEF n
<1>5. ProcessOK(n)
  BY <1>1, <1>3, <1>4 DEF ProcessOK
<1>. QED BY <1>1, <1>2, <1>4, <1>5, ProcessStep

(* The preload copies a value only after looking at it: what it copies is  *)
(* valid and canonical.                                                    *)
LEMMA PreloadApplyStep ==
    ASSUME SettingsAssumption, SettingsInv, NEW p \in Processes, PreloadApply(p)
    PROVE  SettingsInv'
<1>. DEFINE e == Copied(key, procs[p].seen, procs[p].env)
            n == [procs[p] EXCEPT !.work = "done", !.env = e]
<1>1. /\ procs' = [procs EXCEPT ![p] = n]
      /\ procs[p].state # "down" /\ procs[p].work = "applying"
      /\ UNCHANGED <<key, file, local, row, calls, events, asked, mishap>>
  BY DEF PreloadApply
<1>2. events \in 0..MaxEvents /\ asked \in BOOLEAN /\ mishap \in BOOLEAN
  BY DEF SettingsInv, SettingsTypeOK
<1>3. /\ procs[p] \in ProcessSet /\ ProcessOK(procs[p])
      /\ procs[p].env \in TextSet /\ procs[p].seen \in RowSet
  BY ProcessFields
<1>4. BootPreload(key)
  BY <1>1, <1>3 DEF ProcessOK
<1>5. /\ e \in TextSet
      /\ \/ e = procs[p].env
         \/ Valid(key, Stored(procs[p].seen)) /\ e = Canonical(Stored(procs[p].seen))
  <2>1. CASE Valid(key, Stored(procs[p].seen))
    <3>1. e = Canonical(Stored(procs[p].seen))
      BY <2>1 DEF Copied
    <3>2. Stored(procs[p].seen) \in TextSet
      BY <1>3, RowFields
    <3>. QED BY <2>1, <3>1, <3>2, TextSetTyped
  <2>2. CASE ~Valid(key, Stored(procs[p].seen))
    BY <1>3, <2>2 DEF Copied
  <2>. QED BY <2>1, <2>2
<1>. HIDE DEF e
<1>6. /\ n \in ProcessSet /\ n.state = procs[p].state /\ n.env = e /\ n.seen = procs[p].seen
      /\ n.late = procs[p].late /\ n.built = procs[p].built /\ n.work = "done"
  BY <1>3, <1>5 DEF ProcessSet
<1>. HIDE DEF n
<1>7. ProcessOK(n)
  BY <1>1, <1>3, <1>4, <1>5, <1>6 DEF ProcessOK
<1>. QED BY <1>1, <1>2, <1>6, <1>7, ProcessStep

(* A preload that cannot read leaves the environment as it is. *)
LEMMA PreloadFailsStep ==
    ASSUME SettingsAssumption, SettingsInv, NEW p \in Processes, PreloadFails(p)
    PROVE  SettingsInv'
<1>. DEFINE n == [procs[p] EXCEPT !.work = "done"]
<1>1. /\ procs' = [procs EXCEPT ![p] = n]
      /\ procs[p].state # "down" /\ procs[p].work \in {"reading", "applying"}
      /\ Event /\ mishap' = TRUE
      /\ UNCHANGED <<key, file, local, row, calls, asked>>
  BY DEF PreloadFails, Mishap
<1>2. events' \in 0..MaxEvents /\ asked \in BOOLEAN /\ mishap' \in BOOLEAN
  BY <1>1, EventCounts DEF SettingsInv, SettingsTypeOK
<1>3. procs[p] \in ProcessSet /\ ProcessOK(procs[p])
  BY ProcessFields
<1>4. /\ n \in ProcessSet /\ n.state = procs[p].state /\ n.env = procs[p].env
      /\ n.late = procs[p].late /\ n.built = procs[p].built /\ n.work = "done"
      /\ n.seen = procs[p].seen
  BY <1>3 DEF ProcessSet
<1>. HIDE DEF n
<1>5. ProcessOK(n)
  BY <1>1, <1>3, <1>4 DEF ProcessOK
<1>. QED BY <1>1, <1>2, <1>4, <1>5, ProcessStep

(* A process builds its configuration; only one that was not late must     *)
(* have the value it was given.                                            *)
LEMMA BuildStep ==
    ASSUME SettingsAssumption, SettingsInv, NEW p \in Processes,
           Build(p) \/ BuildAfterTimeout(p)
    PROVE  SettingsInv'
<1>. DEFINE n == [procs[p] EXCEPT
                    !.state = IF p = "api" THEN "opening" ELSE "up",
                    !.built = Configured(key, procs[p].env),
                    !.late = procs[p].work # "done"]
<1>1. /\ \/ procs' = [procs EXCEPT ![p] = n]
         \/ procs' = [procs EXCEPT ![p] = Down]
      /\ procs[p].state = "boot"
      /\ events' \in 0..MaxEvents /\ mishap' \in BOOLEAN
      /\ UNCHANGED <<key, file, local, row, calls, asked>>
  <2>1. CASE Build(p)
    BY <2>1 DEF Build, Built, SettingsInv, SettingsTypeOK
  <2>2. CASE BuildAfterTimeout(p)
    BY <2>2, EventCounts DEF BuildAfterTimeout, Built, Mishap
  <2>. QED BY <2>1, <2>2
<1>2. asked' \in BOOLEAN
  BY <1>1 DEF SettingsInv, SettingsTypeOK
<1>3. procs[p] \in ProcessSet /\ ProcessOK(procs[p]) /\ procs[p].env \in TextSet
  BY ProcessFields
<1>4. Configured(key, procs[p].env) \in TextSet \cup {Catalog[key].default}
  BY <1>3, TextSetTyped DEF Configured
<1>5. /\ n \in ProcessSet /\ n.state \in {"opening", "up"} /\ n.env = procs[p].env
      /\ n.late = (procs[p].work # "done") /\ n.built = Configured(key, procs[p].env)
      /\ n.work = procs[p].work /\ n.seen = procs[p].seen
  BY <1>3, <1>4 DEF ProcessSet
<1>. HIDE DEF n
<1>6. ProcessOK(n)
  BY <1>1, <1>3, <1>5 DEF ProcessOK
<1>7. CASE procs' = [procs EXCEPT ![p] = n]
  BY <1>1, <1>2, <1>5, <1>6, <1>7, ProcessStep
<1>8. CASE procs' = [procs EXCEPT ![p] = Down]
  BY <1>1, <1>2, <1>8, DownShape, ProcessStep
<1>. QED BY <1>1, <1>7, <1>8

(* The API that has looked for a way to sign in is up, or down again.      *)
LEMMA OpenStep ==
    ASSUME SettingsAssumption, SettingsInv, Open \/ OpenWithoutDatabase
    PROVE  SettingsInv'
<1>. DEFINE n == [procs["api"] EXCEPT !.state = "up"]
<1>1. /\ \/ procs' = [procs EXCEPT !["api"] = n]
         \/ procs' = [procs EXCEPT !["api"] = Down]
      /\ procs["api"].state = "opening"
      /\ events' \in 0..MaxEvents /\ mishap' \in BOOLEAN
      /\ UNCHANGED <<key, file, local, row, calls, asked>>
  <2>1. CASE Open
    BY <2>1 DEF Open, OpenedWith, SettingsInv, SettingsTypeOK
  <2>2. CASE OpenWithoutDatabase
    BY <2>2, EventCounts DEF OpenWithoutDatabase, OpenedWith, Mishap
  <2>. QED BY <2>1, <2>2
<1>2. asked' \in BOOLEAN
  BY <1>1 DEF SettingsInv, SettingsTypeOK
<1>3. "api" \in Processes
  BY DEF Processes
<1>4. procs["api"] \in ProcessSet /\ ProcessOK(procs["api"])
  BY <1>3, ProcessFields
<1>5. /\ n \in ProcessSet /\ n.state = "up" /\ n.env = procs["api"].env
      /\ n.late = procs["api"].late /\ n.built = procs["api"].built
      /\ n.work = procs["api"].work /\ n.seen = procs["api"].seen
  BY <1>4 DEF ProcessSet
<1>. HIDE DEF n
<1>6. ProcessOK(n)
  BY <1>1, <1>4, <1>5 DEF ProcessOK
<1>7. CASE procs' = [procs EXCEPT !["api"] = n]
  BY <1>1, <1>2, <1>3, <1>5, <1>6, <1>7, ProcessStep
<1>8. CASE procs' = [procs EXCEPT !["api"] = Down]
  BY <1>1, <1>2, <1>3, <1>8, DownShape, ProcessStep
<1>. QED BY <1>1, <1>7, <1>8

(* A process that leaves takes nothing with it. *)
LEMMA LeaveStep ==
    ASSUME SettingsAssumption, SettingsInv, NEW p \in Processes, Leave(p)
    PROVE  SettingsInv'
<1>1. /\ procs' = [procs EXCEPT ![p] = Down]
      /\ \/ UNCHANGED calls
         \/ calls' = [a \in Admins |-> Idle]
      /\ UNCHANGED <<key, file, local, row, events, asked, mishap>>
  BY DEF Leave
<1>2. events \in 0..MaxEvents /\ asked \in BOOLEAN /\ mishap \in BOOLEAN
  BY DEF SettingsInv, SettingsTypeOK
<1>. QED BY <1>1, <1>2, DownShape, ProcessStep

\* A process is asked to leave: what it was built with stays.
LEMMA LeavingFits ==
    ASSUME SettingsInv, NEW p \in Processes, procs[p].state = "up"
    PROVE  /\ [procs[p] EXCEPT !.state = "leaving"] \in ProcessSet
           /\ ProcessOK([procs[p] EXCEPT !.state = "leaving"])
<1>. DEFINE n == [procs[p] EXCEPT !.state = "leaving"]
<1>1. procs[p] \in ProcessSet /\ ProcessOK(procs[p])
  BY ProcessFields
<1>2. /\ n \in ProcessSet /\ n.state = "leaving" /\ n.env = procs[p].env
      /\ n.late = procs[p].late /\ n.built = procs[p].built /\ n.work = procs[p].work
      /\ n.seen = procs[p].seen
  BY <1>1 DEF ProcessSet
<1>. HIDE DEF n
<1>3. ProcessOK(n)
  BY <1>1, <1>2 DEF ProcessOK
<1>. QED BY <1>2, <1>3 DEF n

(* The restart asks processes to leave and changes no values. *)
LEMMA RestartStep ==
    ASSUME SettingsAssumption, SettingsInv, RequestRestart \/ DrainRequest
    PROVE  SettingsInv'
<1>1. PICK p \in Processes : /\ procs[p].state = "up"
                             /\ procs' = [procs EXCEPT ![p] = [procs[p] EXCEPT !.state = "leaving"]]
  <2>1. "api" \in Processes /\ "worker" \in Processes
    BY DEF Processes
  <2>2. CASE RequestRestart
    BY <2>1, <2>2 DEF RequestRestart
  <2>3. CASE DrainRequest
    BY <2>1, <2>3 DEF DrainRequest
  <2>. QED BY <2>2, <2>3
<1>2. events' \in 0..MaxEvents /\ asked' \in BOOLEAN /\ mishap' \in BOOLEAN
  <2>1. events \in 0..MaxEvents /\ asked \in BOOLEAN /\ mishap \in BOOLEAN
    BY DEF SettingsInv, SettingsTypeOK
  <2>2. CASE RequestRestart
    BY <2>1, <2>2, EventCounts DEF RequestRestart
  <2>3. CASE DrainRequest
    BY <2>1, <2>3 DEF DrainRequest
  <2>. QED BY <2>2, <2>3
<1>3. UNCHANGED <<key, file, local, row>> /\ UNCHANGED calls
  BY DEF RequestRestart, DrainRequest
<1>. QED BY <1>1, <1>2, <1>3, LeavingFits, ProcessStep

(* A lost request takes what it had read with it. *)
LEMMA RequestLostStep ==
    ASSUME SettingsAssumption, SettingsInv, RequestLost
    PROVE  SettingsInv'
<1>1. /\ events' \in 0..MaxEvents /\ mishap' = TRUE /\ asked' = FALSE
      /\ UNCHANGED <<key, file, local, row, calls, procs>>
  BY EventCounts DEF RequestLost, Mishap
<1>. QED BY <1>1 DEF SettingsInv, SettingsTypeOK, SecretsSealed, RowSealed, ProcessOK, ProcessSet

(* Every step keeps the invariant. *)
LEMMA SettingsStep ==
    ASSUME SettingsAssumption, SettingsInv, SettingsNext
    PROVE  SettingsInv'
<1>1. CASE \E a \in Admins : Look(a) \/ Write(a)
  BY <1>1, LookStep, WriteStep
<1>2. CASE \E p \in Processes : ProcessNext(p)
  BY <1>2, StartStep, PreloadReadStep, PreloadApplyStep, PreloadFailsStep, BuildStep, LeaveStep
     DEF ProcessNext
<1>3. CASE RequestRestart \/ DrainRequest
  BY <1>3, RestartStep
<1>4. CASE RequestLost
  BY <1>4, RequestLostStep
<1>5. CASE Open \/ OpenWithoutDatabase
  BY <1>5, OpenStep
<1>. QED BY <1>1, <1>2, <1>3, <1>4, <1>5 DEF SettingsNext

(* The invariant of the settings holds in every reachable state.           *)
THEOREM SettingsInvariance == SettingsSpec => []SettingsInv
<1>1. SettingsInit => SettingsInv
  BY SettingsStart, SettingsAssumption
<1>2. SettingsInv /\ [SettingsNext]_settingsVars => SettingsInv'
  <2>1. SUFFICES ASSUME SettingsInv, [SettingsNext]_settingsVars
                 PROVE  SettingsInv'
    OBVIOUS
  <2>2. CASE SettingsNext
    BY <2>1, <2>2, SettingsStep, SettingsAssumption
  <2>3. CASE UNCHANGED settingsVars
    BY <2>1, <2>3 DEF settingsVars, SettingsInv, SettingsTypeOK, SecretsSealed, RowSealed,
                      ProcessOK, ProcessSet
  <2>. QED BY <2>1, <2>2, <2>3
<1>. QED BY <1>1, <1>2, PTL DEF SettingsSpec

-----------------------------------------------------------------------------
(* What follows from the invariant.                                        *)

(* A text that reads as a boolean is yes or no. *)
LEMMA BooleanTexts ==
    ASSUME SettingsAssumption, NEW t \in TextSet, t.shape = "boolean"
    PROVE  Canonical(t) \in {Yes, No}
<1>1. t # None
  BY NoText
<1>2. PICK k \in Keys : t \in Texts(k) \cup {Canonical(x) : x \in Texts(k)}
  BY <1>1 DEF TextSet
<1>3. PICK x \in Texts(k) : t = x \/ t = Canonical(x)
  BY <1>2
<1>4. IsText(x) /\ EntryOK(k, Catalog[k])
  BY <1>3, TextsAreTexts, CatalogEntries DEF SettingsAssumption
<1>5. Canonical(t) = Canonical(x) /\ x.shape = "boolean"
  BY <1>3, <1>4, CanonicalText
<1>6. x \in {Yes, Spelt(No, "blanks")}
  <2>1. \A n, w, a : /\ Number(n).shape = "number" /\ Word(w).shape = "string"
                     /\ Spelt(Number(n), a).shape = "number" /\ Spelt(Word(w), a).shape = "string"
    BY DEF Number, Word, Text, Spelt
  <2>2. Blank.shape = "blank"
    BY NoText
  <2>. QED BY <1>3, <1>4, <1>5, <2>1, <2>2 DEF Texts, EntryOK
<1>7. Canonical(Yes) = Yes /\ Canonical(Spelt(No, "blanks")) = No
  <2>1. Yes.spelling = "canonical" /\ No.spelling = "canonical" /\ IsText(Yes) /\ IsText(No)
    BY TextShape DEF Yes, No
  <2>2. Canonical(Yes) = Yes /\ Canonical(No) = No
    BY <2>1, CanonicalText
  <2>3. Canonical(Spelt(No, "blanks")) = Canonical(No)
    BY <2>1 DEF IsText, Canonical, Spelt
  <2>. QED BY <2>2, <2>3
<1>. QED BY <1>5, <1>6, <1>7

(* OIDC is switched on or off. *)
LEMMA SwitchType == Catalog["OIDC_ENABLED"].type = "boolean"
<1>1. "OIDC_ENABLED" \in DOMAIN SignInCatalog /\ SignInCatalog["OIDC_ENABLED"].type = "boolean"
  BY DEF SignInCatalog, Switch, Entry
<1>2. /\ "OIDC_ENABLED" \notin DOMAIN AiCatalog
      /\ "OIDC_ENABLED" \notin DOMAIN IntegrationCatalog
      /\ "OIDC_ENABLED" \notin DOMAIN BootstrapCatalog
  BY DEF AiCatalog, IntegrationCatalog, BootstrapCatalog, HostKeys, InfrastructureKeys
<1>. QED BY <1>1, <1>2 DEF Catalog

(* Where the schema takes what the file says of OIDC, the catalog reads it *)
(* in the same way.                                                        *)
LEMMA SwitchRead ==
    ASSUME NEW t, IsText(t), Parses("OIDC_ENABLED", t)
    PROVE  Configured("OIDC_ENABLED", t) = FromEnvironment("OIDC_ENABLED", t).value
<1>1. Catalog["OIDC_ENABLED"].type = "boolean"
  BY SwitchType
<1>2. CASE t = None \/ ~NotBlank(t)
  <2>1. ~NotBlank(t)
    BY <1>2, NoText DEF NotBlank
  <2>. QED BY <1>2, <2>1 DEF Configured, FromEnvironment, Valid
<1>3. CASE t # None /\ NotBlank(t)
  <2>1. t.shape = "boolean"
    BY <1>1, <1>3 DEF Parses
  <2>2. Valid("OIDC_ENABLED", t)
    BY <1>1, <1>3, <2>1 DEF Valid
  <2>. QED BY <1>1, <1>3, <2>2 DEF Configured, FromEnvironment
<1>. QED BY <1>2, <1>3

(* A process at boot has the deployment's environment or a value the       *)
(* schema takes.                                                           *)
LEMMA BootParses ==
    ASSUME SettingsAssumption, SettingsInv, NEW p \in Processes, procs[p].state = "boot"
    PROVE  Parses(key, procs[p].env)
<1>1. /\ Parses(key, file) /\ key \in DOMAIN Catalog /\ ProcessOK(procs[p])
      /\ procs[p].seen \in RowSet
  BY ProcessFields DEF SettingsInv, SettingsTypeOK, SettingsAssumption
<1>2. IsText(Stored(procs[p].seen))
  BY <1>1, RowFields
<1>3. CASE procs[p].env = file
  BY <1>1, <1>3
<1>4. CASE /\ BootPreload(key) /\ Valid(key, Stored(procs[p].seen))
           /\ procs[p].env = Canonical(Stored(procs[p].seen))
  BY <1>1, <1>2, <1>4, CopiedParses
<1>. QED BY <1>1, <1>3, <1>4 DEF ProcessOK

(* What the API finds when it looks for a way to sign in: the file's value *)
(* or the one its preload has copied, and the row that value came from.    *)
LEMMA OpeningFinds ==
    ASSUME SettingsAssumption, SettingsInv, procs["api"].state = "opening",
           SignIn(Configured(key, file))
    PROVE  \/ /\ SignIn(FromEnvironment(key, procs["api"].env).value)
              /\ SignIn(procs["api"].built)
           \/ LocksOut(procs["api"].seen)
<1>. DEFINE api == procs["api"]
            saved == Canonical(Stored(api.seen))
            from == FromEnvironment(key, api.env).value
<1>1. CASE local \/ key # "OIDC_ENABLED"
  BY <1>1 DEF SignIn
<1>2. CASE ~local /\ key = "OIDC_ENABLED"
  <2>1. "api" \in Processes
    BY DEF Processes
  <2>2. /\ ProcessOK(api) /\ api.env \in TextSet /\ api.seen \in RowSet
        /\ Parses(key, file) /\ key \in DOMAIN Catalog /\ IsText(file)
    BY <2>1, ProcessFields, TextSetTyped DEF SettingsInv, SettingsTypeOK, SettingsAssumption
  <2>3. Configured(key, file) = Yes /\ FromEnvironment(key, file).value = Yes
    BY <1>2, <2>2, SwitchRead DEF SignIn
  <2>4. api.built = Configured(key, file) \/ api.built = Configured(key, api.env)
    BY <2>2 DEF ProcessOK
  <2>5. CASE api.env = file
    BY <2>3, <2>4, <2>5 DEF SignIn
  <2>6. CASE /\ BootPreload(key) /\ Valid(key, Stored(api.seen)) /\ api.env = saved
    <3>1. Stored(api.seen) \in TextSet /\ IsText(Stored(api.seen))
      BY <2>2, RowFields
    <3>2. Stored(api.seen).shape = "boolean"
      BY <1>2, <2>6, SwitchType DEF Valid
    <3>3. saved \in {Yes, No}
      BY <3>1, <3>2, BooleanTexts
    <3>4. CASE saved = No
      BY <1>2, <2>6, <3>4 DEF LocksOut
    <3>5. CASE saved = Yes
      <4>1. Parses(key, saved) /\ IsText(saved)
        BY <2>2, <2>6, <3>1, CopiedParses, CanonicalText
      <4>2. Valid(key, saved) /\ Canonical(saved) = saved
        BY <2>6, <3>1, CanonicalValid, CanonicalText
      <4>3. from = Yes
        BY <2>6, <3>5, <4>2 DEF FromEnvironment
      <4>4. api.built = Yes
        BY <1>2, <2>3, <2>4, <2>6, <4>1, <4>3, SwitchRead
      <4>. QED BY <4>3, <4>4 DEF SignIn
    <3>. QED BY <3>3, <3>4, <3>5
  <2>. QED BY <2>2, <2>5, <2>6 DEF ProcessOK
<1>. QED BY <1>1, <1>2

(* A process is built, and the API starts but for the one row.             *)
LEMMA BootOK ==
    ASSUME SettingsAssumption, SettingsInv
    PROVE  BootSurvives
BY BootParses, OpeningFinds DEF BootSurvives

(* A process that was in time runs what the page shows. *)
LEMMA EffectiveOK ==
    ASSUME SettingsAssumption, SettingsInv
    PROVE  EffectiveIsRunning
<1>. DEFINE api == procs["api"]
            env == api.env
            from == FromEnvironment(key, env)
            saved == Canonical(Stored(row))
            res == Resolved(key, row, env)
<1>1. SUFFICES ASSUME ApiServes, ~api.late, Catalog[key].category = "restart",
                      Configured(key, file) = FromEnvironment(key, file).value
               PROVE  /\ ShownEntry.effectiveValue = api.built
                      /\ Valid(key, Stored(row)) =>
                           IF ShownEntry.restartRequired
                           THEN ShownEntry.pendingRestartValue = saved
                           ELSE api.built = saved
  BY DEF EffectiveIsRunning
<1>2. "api" \in Processes
  BY DEF Processes
<1>3. /\ ProcessOK(api) /\ env \in TextSet /\ IsText(env) /\ api.seen \in RowSet
      /\ api.state \in {"up", "leaving"}
  BY <1>1, <1>2, ProcessFields, TextSetTyped DEF ApiServes
<1>4. api.built = Configured(key, env)
  BY <1>1, <1>3 DEF ProcessOK
<1>5. Configured(key, env) = from.value
  <2>1. CASE env = file
    BY <1>1, <2>1
  <2>2. CASE Valid(key, Stored(api.seen)) /\ env = Canonical(Stored(api.seen))
    <3>0. Valid(key, env) /\ Canonical(env) = env
      BY <1>3, <2>2, RowFields, CanonicalValid, CanonicalText
    <3>1. env # None /\ NotBlank(env)
      BY <1>3, <3>0, CanonicalValid DEF Valid
    <3>2. Configured(key, env) = env
      BY <3>0, <3>1 DEF Configured
    <3>3. from.value = env
      BY <3>0 DEF FromEnvironment
    <3>. QED BY <3>2, <3>3
  <2>. QED BY <1>3, <2>1, <2>2 DEF ProcessOK
<1>6. IsText(Stored(row))
  BY RowFields DEF SettingsInv, SettingsTypeOK
<1>7. ~IsSecret(key)
  BY <1>1 DEF IsSecret
<1>8. /\ ShownEntry.effectiveValue = res.value
      /\ ShownEntry.restartRequired = (res.pending # None)
      /\ ShownEntry.pendingRestartValue = res.pending
  BY <1>1, <1>7 DEF ShownEntry
<1>9. res.value = from.value
  BY <1>1 DEF Resolved, Resolution
<1>10. ASSUME Valid(key, Stored(row))
       PROVE  IF res.pending # None THEN res.pending = saved ELSE from.value = saved
  <2>1. saved # None
    BY <1>6, <1>10, CanonicalValid
  <2>2. res.pending = IF from.value = saved THEN None ELSE saved
    BY <1>1, <1>10 DEF Resolved, Resolution
  <2>. HIDE DEF saved, from, res
  <2>. QED BY <2>1, <2>2
<1>. HIDE DEF res, from, saved
<1>. QED BY <1>4, <1>5, <1>8, <1>9, <1>10

(* The state of the settings is typed, for any keys of the catalog and any *)
(* number of events.                                                       *)
THEOREM SettingsTypes == SettingsSpec => []SettingsTypeOK
<1>1. SettingsInv => SettingsTypeOK
  BY DEF SettingsInv
<1>. QED BY <1>1, SettingsInvariance, PTL

(* What the settings page shows as effective is what a process that        *)
(* finished its preload runs, for every key of the catalog, every text and *)
(* any number of processes and administrators.                             *)
THEOREM ShownIsRunning == SettingsSpec => []EffectiveIsRunning
BY SettingsInvariance, EffectiveOK, SettingsAssumption, PTL

(* What the preload puts into the environment passes the start-up schema,  *)
(* whatever an administrator saved (settings-preload.ts:81-84), and an API *)
(* whose file lets people sign in is refused at boot by nothing but a      *)
(* valid OIDC_ENABLED=false it has read where local sign-in is off         *)
(* (identity.module.ts:66-76, settings-catalog.ts:527-529).                *)
THEOREM ProcessesStart == SettingsSpec => []BootSurvives
BY SettingsInvariance, BootOK, SettingsAssumption, PTL

=============================================================================
