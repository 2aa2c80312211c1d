-------------------------- MODULE PersonalSettings --------------------------
(***************************************************************************)
(* Two settings that follow a user to every browser, each in steps of its  *)
(* own: the language of the user interface and the accent colour.  Both are*)
(* shown before they are saved.                                            *)
(***************************************************************************)
EXTENDS Integers, FiniteSets

(* The language: what the server keeps of it (language.service.ts), the    *)
(* cookie that the first paint goes by (layout.tsx), and what the page shows*)
(* (i18n-context.tsx).  A choice is taken back if saving it fails.         *)

CONSTANTS
    Languages,   \* what is supported
    English,     \* the default
    Unset,       \* no value, or one that is not supported
    Lines,       \* requests under way
    MaxChoices   \* bound on choices and page loads

VARIABLES
    readOnly,          \* the role is READ_ONLY
    browser,           \* the first supported language of Accept-Language
    locale,            \* users.locale
    sessionLanguage,   \* session.language
    cookie,            \* versigo:locale
    language,          \* what the page shows
    lines,             \* requests under way
    choices,
    tidy               \* no request met another, and none was lost

languageVars == <<readOnly, browser, locale, sessionLanguage, cookie, language, lines,
                  choices, tidy>>

Line ==
    [kind : {"resolve", "save"}, want : Languages \cup {Unset},
     previous : Languages \cup {Unset},    \* what is shown again if saving fails
     stage : {"sent", "ok", "failed"}, mine : BOOLEAN]

ASSUME LanguageAssumption == English \in Languages /\ Unset \notin Languages \cup Line

Idling(r) == lines[r] = Unset

\* The page that sent the requests is gone; the server works on them all the same.
Orphaned == [r \in Lines |-> IF Idling(r) THEN Unset ELSE [lines[r] EXCEPT !.mine = FALSE]]

FirstSet(a, b) == IF a # Unset THEN a ELSE IF b # Unset THEN b ELSE English

ResolveLanguage == FirstSet(IF readOnly THEN sessionLanguage ELSE locale, browser)

\* Only an account that keeps its language has a cookie.
WriteCookie(l) == IF readOnly THEN Unset ELSE l

FromCookie == IF cookie # Unset THEN cookie ELSE English

Resolving ==
    [kind |-> "resolve", want |-> Unset, previous |-> Unset, stage |-> "sent", mine |-> TRUE]

LanguageInit ==
    /\ readOnly \in BOOLEAN
    /\ browser \in Languages \cup {Unset}
    /\ locale \in Languages \cup {Unset}
    /\ sessionLanguage \in IF readOnly THEN Languages \cup {Unset} ELSE {Unset}
    /\ cookie \in Languages \cup {Unset}
    /\ language = FromCookie
    /\ \E r \in Lines : lines = [q \in Lines |-> IF q = r THEN Resolving ELSE Unset]
    /\ choices = 0
    /\ tidy = TRUE

-----------------------------------------------------------------------------
\* The page is loaded anew.
OpenPage(r) ==
    /\ Idling(r) /\ choices < MaxChoices
    /\ choices' = choices + 1
    /\ language' = FromCookie
    /\ lines' = [Orphaned EXCEPT ![r] = Resolving]
    /\ tidy' = \A q \in Lines : ~Idling(q) => lines[q].stage # "sent"
    /\ UNCHANGED <<readOnly, browser, locale, sessionLanguage, cookie>>

\* setLanguage of the context: shown before it is saved.
ChooseLanguage(r, l) ==
    /\ Idling(r) /\ choices < MaxChoices
    /\ l # language
    /\ choices' = choices + 1
    /\ language' = l
    /\ lines' = [lines EXCEPT ![r] = [kind |-> "save", want |-> l, previous |-> language,
                                      stage |-> "sent", mine |-> TRUE]]
    /\ tidy' = (tidy /\ \A q \in Lines : Idling(q))
    /\ UNCHANGED <<readOnly, browser, locale, sessionLanguage, cookie>>

\* GET /user/language.
ServeResolve(r) ==
    /\ ~Idling(r) /\ lines[r].kind = "resolve" /\ lines[r].stage = "sent"
    /\ lines' = [lines EXCEPT ![r].stage = "ok", ![r].want = ResolveLanguage]
    /\ UNCHANGED <<readOnly, browser, locale, sessionLanguage, cookie, language, choices, tidy>>

\* PUT /user/language; the answer may be lost on its way back.
ServeSave(r) ==
    /\ ~Idling(r) /\ lines[r].kind = "save" /\ lines[r].stage = "sent"
    /\ IF readOnly THEN sessionLanguage' = lines[r].want /\ UNCHANGED locale
       ELSE locale' = lines[r].want /\ UNCHANGED sessionLanguage
    /\ \/ lines' = [lines EXCEPT ![r].stage = "ok"] /\ UNCHANGED tidy
       \/ lines' = [lines EXCEPT ![r].stage = "failed"] /\ tidy' = FALSE
    /\ UNCHANGED <<readOnly, browser, cookie, language, choices>>

\* No connection, or an error status.
LineFails(r) ==
    /\ ~Idling(r) /\ lines[r].stage = "sent"
    /\ lines' = [lines EXCEPT ![r].stage = "failed"]
    /\ tidy' = (tidy /\ lines[r].kind = "save")
    /\ UNCHANGED <<readOnly, browser, locale, sessionLanguage, cookie, language, choices>>

Ready(r, kind) ==
    ~Idling(r) /\ lines[r].kind = kind /\ lines[r].mine /\ lines[r].stage # "sent"

\* applyLanguage, whatever was chosen in the meantime.
LanguageResolved(r) ==
    /\ Ready(r, "resolve")
    /\ IF lines[r].stage = "ok"
          THEN language' = lines[r].want /\ cookie' = WriteCookie(lines[r].want)
          ELSE UNCHANGED <<language, cookie>>
    /\ lines' = [lines EXCEPT ![r] = Unset]
    /\ UNCHANGED <<readOnly, browser, locale, sessionLanguage, choices, tidy>>

\* Broken variant: a choice that was not saved stays on the screen.
LanguageSavedOrNot(r) ==
    /\ Ready(r, "save")
    /\ cookie' = (IF lines[r].stage = "ok" THEN WriteCookie(lines[r].want) ELSE cookie)
    /\ lines' = [lines EXCEPT ![r] = Unset]
    /\ UNCHANGED <<readOnly, browser, locale, sessionLanguage, language, choices, tidy>>

LanguageSaved(r) ==
    /\ Ready(r, "save")
    /\ IF lines[r].stage = "ok"
          THEN cookie' = WriteCookie(lines[r].want) /\ UNCHANGED language
          ELSE language' = lines[r].previous /\ UNCHANGED cookie
    /\ lines' = [lines EXCEPT ![r] = Unset]
    /\ UNCHANGED <<readOnly, browser, locale, sessionLanguage, choices, tidy>>

LineForgotten(r) ==
    /\ ~Idling(r) /\ ~lines[r].mine /\ lines[r].stage # "sent"
    /\ lines' = [lines EXCEPT ![r] = Unset]
    /\ UNCHANGED <<readOnly, browser, locale, sessionLanguage, cookie, language, choices, tidy>>

LanguageNext ==
    \E r \in Lines :
        \/ OpenPage(r) \/ ServeResolve(r) \/ ServeSave(r) \/ LineFails(r)
        \/ LanguageResolved(r) \/ LanguageSaved(r) \/ LineForgotten(r)
        \/ \E l \in Languages : ChooseLanguage(r, l)

-----------------------------------------------------------------------------
LanguageTypeOK ==
    /\ {browser, locale, sessionLanguage, cookie} \subseteq Languages \cup {Unset}
    /\ language \in Languages
    /\ lines \in [Lines -> Line \cup {Unset}]

(* "so that the UI does not remain in a state the server does not know     *)
(* about" (i18n-context.tsx:124-125): once nothing is under way, the page  *)
(* shows the language the server keeps, and the cookie says the same or,   *)
(* for READ_ONLY, nothing; unless choices met or an answer was lost after  *)
(* it was carried out.                                                     *)
LanguageSettles ==
    tidy /\ (\A r \in Lines : Idling(r)) =>
        language = ResolveLanguage /\ cookie = WriteCookie(language)

-----------------------------------------------------------------------------
(* The accent colour: a hue and a saturation on the screen                 *)
(* (theme-context.tsx), a hexadecimal colour of lightness 50 % on the server*)
(* (user-preferences.service.ts), and the conversions between the two      *)
(* (colour-utils.ts).  A colour that went to the server and comes back is to*)
(* be the one that was chosen.  The fractions are exact here, floating-point*)
(* there.                                                                  *)

CONSTANTS
    Accents,      \* pairs of a hue and a saturation the user picks from
    DefaultAccent,
    Blank,        \* no value
    Errands,      \* requests under way
    MaxPicks      \* bound on choices and page loads

VARIABLES
    accent,    \* on the screen
    saved,     \* the preference ui:accentColour
    errands,   \* requests under way
    picks,
    wanted,    \* the last choice, Blank if a request failed since
    orderly    \* no request met another

accentVars == <<accent, saved, errands, picks, wanted, orderly>>

Larger(a, b) == IF a >= b THEN a ELSE b
Smaller(a, b) == IF a <= b THEN a ELSE b

\* a / b rounded, halves up; b is positive.
Rounded(a, b) == (2 * a + b) \div (2 * b)

\* hslToHex: channels 0, 8 and 4 of the formula, in thirtieths of its k.
Channel(n, h, s) ==
    LET k == (30 * n + h) % 360
        slope == Larger(Smaller(Smaller(k - 90, 270 - k), 30), -30)
    IN  Rounded(255 * (3000 - s * slope), 6000)

HslToHex(hs) == <<Channel(0, hs[1], hs[2]), Channel(8, hs[1], hs[2]), Channel(4, hs[1], hs[2])>>

\* Broken variant: the negative hues of the first sector are not turned round.
HexToHSLUnturned(c) ==
    LET high == Larger(c[1], Larger(c[2], c[3]))
        low == Smaller(c[1], Smaller(c[2], c[3]))
        d == high - low
    IN  IF d = 0 THEN <<0, 0>>
        ELSE <<CASE high = c[1] -> Rounded(60 * (c[2] - c[3]), d)
                 [] high = c[2] /\ high # c[1] -> Rounded(60 * (c[3] - c[1]), d) + 120
                 [] OTHER -> Rounded(60 * (c[1] - c[2]), d) + 240,
               Rounded(100 * d, IF high + low > 255 THEN 510 - high - low ELSE high + low)>>

HexToHSL(c) ==
    LET high == Larger(c[1], Larger(c[2], c[3]))
        low == Smaller(c[1], Smaller(c[2], c[3]))
        d == high - low
    IN  IF d = 0 THEN <<0, 0>>
        ELSE <<(CASE high = c[1] -> Rounded(60 * (c[2] - c[3]), d)
                  [] high = c[2] /\ high # c[1] -> Rounded(60 * (c[3] - c[1]), d) + 120
                  [] OTHER -> Rounded(60 * (c[1] - c[2]), d) + 240) % 360,
               Rounded(100 * d, IF high + low > 255 THEN 510 - high - low ELSE high + low)>>

Errand ==
    [kind : {"load", "put"}, colour : {HslToHex(a) : a \in Accents} \cup {Blank},
     stage : {"sent", "ok", "failed"}, mine : BOOLEAN]

ASSUME AccentAssumption ==
    /\ Accents \cup {DefaultAccent} \subseteq (0..359) \X (0..100)
    /\ Blank \notin Errand \cup Accents \cup {HslToHex(a) : a \in Accents}

Idles(e) == errands[e] = Blank

Errand0(kind, colour) == [kind |-> kind, colour |-> colour, stage |-> "sent", mine |-> TRUE]

AccentInit ==
    /\ saved \in {Blank} \cup {HslToHex(a) : a \in Accents}
    /\ accent \in Accents \cup {DefaultAccent}
    /\ \E e \in Errands :
          errands = [f \in Errands |-> IF f = e THEN Errand0("load", Blank) ELSE Blank]
    /\ picks = 0 /\ wanted = Blank /\ orderly = TRUE

-----------------------------------------------------------------------------
\* The page is loaded anew.  The browser has cached what was on the screen, if it
\* caches anything.
ReopenPage(e) ==
    /\ Idles(e) /\ picks < MaxPicks
    /\ picks' = picks + 1
    /\ accent' \in {accent, DefaultAccent}
    /\ errands' = [[f \in Errands |-> IF Idles(f) THEN Blank
                                      ELSE [errands[f] EXCEPT !.mine = FALSE]]
                     EXCEPT ![e] = Errand0("load", Blank)]
    /\ orderly' = (orderly /\ \A f \in Errands : ~Idles(f) => errands[f].stage # "sent")
    /\ UNCHANGED <<saved, wanted>>

\* setAccent of the context.
SetAccent(e, a) ==
    /\ Idles(e) /\ picks < MaxPicks
    /\ picks' = picks + 1
    /\ accent' = a /\ wanted' = a
    /\ errands' = [errands EXCEPT ![e] = Errand0("put", HslToHex(a))]
    /\ orderly' = \A f \in Errands : Idles(f)
    /\ UNCHANGED saved

\* getPreference: 404 before the first choice.
GetPreference(e) ==
    /\ ~Idles(e) /\ errands[e].kind = "load" /\ errands[e].stage = "sent"
    /\ errands' = [errands EXCEPT ![e].stage = IF saved = Blank THEN "failed" ELSE "ok",
                                  ![e].colour = saved]
    /\ UNCHANGED <<accent, saved, picks, wanted, orderly>>

\* setPreference: one upsert.
SetPreference(e) ==
    /\ ~Idles(e) /\ errands[e].kind = "put" /\ errands[e].stage = "sent"
    /\ saved' = errands[e].colour
    /\ errands' = [errands EXCEPT ![e].stage = "ok"]
    /\ UNCHANGED <<accent, picks, wanted, orderly>>

\* Whatever fails is kept from the user.
ErrandFails(e) ==
    /\ ~Idles(e) /\ errands[e].stage = "sent"
    /\ errands' = [errands EXCEPT ![e].stage = "failed"]
    /\ wanted' = Blank
    /\ UNCHANGED <<accent, saved, picks, orderly>>

AccentLoaded(e) ==
    /\ ~Idles(e) /\ errands[e].kind = "load" /\ errands[e].mine /\ errands[e].stage # "sent"
    /\ accent' = IF errands[e].stage = "ok" THEN HexToHSL(errands[e].colour) ELSE accent
    /\ errands' = [errands EXCEPT ![e] = Blank]
    /\ UNCHANGED <<saved, picks, wanted, orderly>>

ErrandDone(e) ==
    /\ ~Idles(e) /\ errands[e].stage # "sent"
    /\ errands[e].kind = "put" \/ ~errands[e].mine
    /\ errands' = [errands EXCEPT ![e] = Blank]
    /\ UNCHANGED <<accent, saved, picks, wanted, orderly>>

AccentNext ==
    \E e \in Errands :
        \/ ReopenPage(e) \/ GetPreference(e) \/ SetPreference(e) \/ ErrandFails(e)
        \/ AccentLoaded(e) \/ ErrandDone(e)
        \/ \E a \in Accents : SetAccent(e, a)

-----------------------------------------------------------------------------
\* Hues and saturations stay in range whatever is converted.
AccentTypeOK ==
    /\ accent \in (0..359) \X (0..100)
    /\ DOMAIN errands = Errands

(* The colour on the screen, once chosen and saved, is the one that was    *)
(* chosen, also after it went to the server and back: a preset is still    *)
(* marked as selected (appearance-settings.tsx:23-25 compares hue and      *)
(* saturation).  A choice made while another request is under way and      *)
(* requests that failed are not covered.                                   *)
AccentReturns ==
    orderly /\ wanted # Blank /\ (\A e \in Errands : Idles(e)) => accent = wanted

=============================================================================
