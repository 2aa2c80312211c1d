--------------------------- MODULE MCAiExtraction ---------------------------
(***************************************************************************)
(* The AI features for the model checker: extraction jobs, summaries, cost  *)
(* proposals, the health check, and the token budget of one call; and the  *)
(* heartbeat of the worker that runs the jobs.                             *)
(* They share no state but the provider, so a behaviour works on one of    *)
(* them, focus says on which, and the others keep a first state.           *)
(***************************************************************************)
EXTENDS AiExtraction, CoverageSummaries, InputTokenBudget, WorkerHeartbeat, TLC

VARIABLE focus

-----------------------------------------------------------------------------
(* Providers, answers and texts of the instance.                           *)

P(key, url, models, chat) ==
    [enabled |-> TRUE, key |-> key, url |-> url, token |-> TRUE, relaxed |-> FALSE,
     models |-> models, chat |-> chat]

MCProviders ==
    {[P("ollama", TRUE, "ok", "ok") EXCEPT !.enabled = FALSE],
     P("none", FALSE, "silent", "silent"),
     P("ollama", TRUE, "auth", "error"),
     P("ollama", TRUE, "ok", "ok"),
     P("openai-compat", FALSE, "silent", "silent"),
     P("openai-compat", TRUE, "missing", "ok"),
     P("openai-compat", TRUE, "missing", "auth"),
     P("openai-compat", TRUE, "error", "ok"),
     [P("openai-compat", TRUE, "ok", "ok") EXCEPT !.token = FALSE],
     [P("ollama", TRUE, "ok", "ok") EXCEPT !.relaxed = TRUE]}

Summary(version, sections, hints) ==
    [json |-> TRUE, version |-> version, sections |-> sections, hints |-> hints]

Section(title, items, note) == [title |-> title, items |-> items, note |-> note]

Repeated(x, n) == [i \in 1..n |-> x]

Long == Repeated(Section(80, Repeated(300, 2), NoText), 3)

\* Answers at the limits of the format: 2000 characters in all, 8 sections, 12 items,
\* titles of 80 and items of 300 characters, blank items and notes; and just beyond.
MCSummaryReplies ==
    {Summary(2, Long, << >>),
     Summary(1, Long, << >>),
     Summary(1, <<Section(80, Append(Repeated(1, 11), 0), 0)>>, Append(Repeated(300, 5), 0)),
     Summary(2, Repeated(Section(50, <<200>>, NoText), 8), << >>),
     Summary(2, Repeated(Section(50, <<200>>, NoText), 9), << >>),
     Summary(2, <<Section(81, <<1>>, NoText)>>, << >>),
     Summary(2, <<Section(1, <<NotText>>, NoText)>>, << >>),
     Summary(2, <<Section(1, NotAList, NotText)>>, << >>),
     Summary(0, << >>, NotAList),
     [Summary(2, <<Section(1, <<1>>, NoText)>>, << >>) EXCEPT !.json = FALSE]}

MCOldSummaries ==
    {[at |-> 1, summary |-> [version |-> 1, sections |-> Long, hints |-> << >>]]}

G(value, digits) == [value |-> value, digits |-> digits]

\* Ways to write an amount of cents: the decimal separator, that of the thousands or none.
Written(cents, point, thousands) ==
    LET whole == cents \div 100
        heads == IF whole >= 1000 /\ thousands
                 THEN <<G(whole \div 1000, 1), G(whole % 1000, 3)>> ELSE <<G(whole, 4)>>
        other == IF point = "," THEN "." ELSE ","
        marks == IF Len(heads) = 2 THEN <<other>> ELSE << >>
    IN  {[groups |-> Append(heads, G(cents % 100, 2)), marks |-> Append(marks, point)]}
        \cup (IF cents % 100 = 0 THEN {[groups |-> heads, marks |-> marks]} ELSE {})
        \cup (IF cents % 10 = 0
              THEN {[groups |-> Append(heads, G((cents % 100) \div 10, 1)),
                     marks |-> Append(marks, point)]} ELSE {})

Bill(cents, amount, unclear) ==
    [json |-> TRUE, confidence |-> TRUE, frequency |-> TRUE, described |-> TRUE,
     dated |-> TRUE, amount |-> amount, unclear |-> unclear, bill |-> cents]

MCCostReplies ==
    {Bill(cents, <<text>>, {}) : cents \in {123450}, text \in Written(123450, ",", TRUE)}
    \cup UNION {{Bill(cents, <<text>>, {}) :
                   text \in Written(cents, point, thousands)} :
                 cents \in {7, 50, 123456, 123400}, point \in {",", "."},
                 thousands \in BOOLEAN}
    \cup {Bill(1, << >>, {}), Bill(1, <<[groups |-> <<G(0, 0)>>, marks |-> << >>]>>, {}),
          Bill(1, <<[groups |-> <<G(5, 1)>>, marks |-> << >>]>>, {"amount", "validFrom"}),
          [Bill(1, << >>, {}) EXCEPT !.confidence = FALSE]}

-----------------------------------------------------------------------------

allVars == <<vars, summaryVars, providerVars, budgetVars, heartVars, focus>>

ProviderRests == ProviderInit /\ provider = P("ollama", TRUE, "ok", "ok")

BudgetRests ==
    /\ count = 0 /\ texts = << >> /\ limit = 0
    /\ index = 0 /\ remaining = 0 /\ sent = 0 /\ cut = {}

MCInit ==
    /\ Init /\ HeartInit
    /\ \/ focus = "extraction" /\ ProviderRests /\ SummaryInit /\ BudgetRests
       \/ focus = "summaries" /\ ProviderRests /\ SummaryInit /\ BudgetRests
       \/ focus = "proposals" /\ ProviderInit /\ SummaryInit /\ BudgetRests
       \/ focus = "heartbeat" /\ ProviderRests /\ SummaryInit /\ BudgetRests
       \/ focus = "health" /\ ProviderInit /\ SummaryInit /\ BudgetRests
       \/ focus = "budget" /\ ProviderRests /\ SummaryInit /\ BudgetInit
    /\ focus # "summaries" => stored = {}

MCNext ==
    \/ /\ focus = "extraction" /\ Next
       /\ UNCHANGED <<summaryVars, providerVars, budgetVars, heartVars, focus>>
    \/ /\ \/ focus = "summaries" /\ SummarizeNext
          \/ focus = "proposals" /\ CostNext
       /\ UNCHANGED <<vars, providerVars, budgetVars, heartVars, focus>>
    \/ /\ focus = "health" /\ ProviderNext
       /\ UNCHANGED <<vars, summaryVars, budgetVars, heartVars, focus>>
    \/ /\ focus = "budget" /\ BudgetNext
       /\ UNCHANGED <<vars, summaryVars, providerVars, heartVars, focus>>
    \/ /\ focus = "heartbeat" /\ HeartNext
       /\ UNCHANGED <<vars, summaryVars, providerVars, budgetVars, focus>>

MCSpec == MCInit /\ [][MCNext]_allVars

\* Every variable has its type.
TypesOK == TypeOK /\ SummaryTypeOK /\ ProviderTypeOK /\ BudgetTypeOK /\ HeartTypeOK

\* Safety runs only.
ExtractionSymmetry ==
    Permutations(Rows) \cup Permutations(Calls) \cup Permutations(Askers)

=============================================================================
