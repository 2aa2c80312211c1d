------------------------------ MODULE MCRecords ------------------------------
(***************************************************************************)
(* Small instances of modules that share no state: the files and the       *)
(* shares of a household, and two personal settings.  focus picks the one  *)
(* a behaviour is about; the others keep a first state.                    *)
(***************************************************************************)
EXTENDS DocumentStorage, HouseholdSharing, PersonalSettings, TLC

VARIABLE focus

\* The presets, and colours of half the full saturation or more.
MCAccents ==
    {<<210, 50>>, <<145, 45>>, <<25, 70>>, <<0, 60>>, <<330, 50>>, <<240, 40>>, <<1, 50>>,
     <<359, 100>>}

MCDefaultAccent == <<210, 50>>

vars == <<focus, storageVars, sharingVars, languageVars, accentVars>>

LanguageRests ==
    /\ readOnly = FALSE /\ browser = Unset /\ locale = Unset /\ sessionLanguage = Unset
    /\ cookie = Unset /\ language = English /\ lines = [r \in Lines |-> Unset]
    /\ choices = 0 /\ tidy = FALSE

AccentRests ==
    /\ accent = DefaultAccent /\ saved = Blank /\ errands = [e \in Errands |-> Blank]
    /\ picks = 0 /\ wanted = Blank /\ orderly = TRUE

Init ==
    /\ focus \in {"files", "shares", "language", "accent"}
    /\ StorageInit
    /\ SharingInit
    /\ IF focus = "language" THEN LanguageInit ELSE LanguageRests
    /\ IF focus = "accent" THEN AccentInit ELSE AccentRests

Next ==
    /\ UNCHANGED focus
    /\ \/ /\ focus = "files" /\ StorageNext
          /\ UNCHANGED <<sharingVars, languageVars, accentVars>>
       \/ /\ focus = "shares" /\ SharingNext
          /\ UNCHANGED <<storageVars, languageVars, accentVars>>
       \/ /\ focus = "language" /\ LanguageNext
          /\ UNCHANGED <<storageVars, sharingVars, accentVars>>
       \/ /\ focus = "accent" /\ AccentNext
          /\ UNCHANGED <<storageVars, sharingVars, languageVars>>

Spec == Init /\ [][Next]_vars

RecordsSymmetry ==
    Permutations(Docs) \cup Permutations(Requests)
    \cup Permutations(ShareRows) \cup Permutations(Callers)
    \cup Permutations(Members) \cup Permutations(Kinds)

-----------------------------------------------------------------------------
(* Types of all modules. *)
RecordsTypeOK == StorageTypeOK /\ SharingTypeOK /\ LanguageTypeOK /\ AccentTypeOK

(* What a user chose, language or colour, is on the screen and stays it    *)
(* when the page is loaded again; what was not saved is not shown.         *)
ChoiceKept == LanguageSettles /\ AccentReturns

=============================================================================
