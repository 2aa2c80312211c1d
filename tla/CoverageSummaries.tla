-------------------------- MODULE CoverageSummaries --------------------------
(***************************************************************************)
(* AiAssistService: coverage summaries of one policy and cost proposals    *)
(* for one of its billing documents.  A request selects documents, asks    *)
(* the provider, once more if the answer does not fit the format, and, for *)
(* a summary, stores it in a transaction that keeps the newest few.        *)
(*                                                                         *)
(* A request that is refused changes nothing and is no step.  The texts of *)
(* the documents are left out: a payload that is too large, a failed read  *)
(* and a provider that answers nothing end the request alike.              *)
(***************************************************************************)
EXTENDS AiAnswers, AiProviders, FiniteSets

CONSTANTS
    Docs,           \* documents of the policy
    Contracts,      \* those of class CONTRACT, the others are BILLING
    Unreadable,     \* those without a name or of a type that cannot be read
    Askers,         \* requests under way at a time
    Keep,           \* summaries a policy keeps (5)
    MaxDocs,        \* AI_SUMMARY_MAX_DOCUMENTS (8)
    SummaryReplies, \* answers of the provider to a request for a summary
    CostReplies,    \* and to one for the data of a bill, with the amount on the bill
    OldSummaries,   \* rows that may be there from earlier versions
    MaxSummaries,   \* bound on summaries
    MaxEdits        \* bound on changes of the documents

ASSUME SummariesAssumption ==
    /\ Contracts \subseteq Docs /\ Unreadable \subseteq Docs
    /\ Keep \in Nat \ {0}
    /\ {MaxDocs, MaxSummaries, MaxEdits} \subseteq Nat
    /\ IsFiniteSet(Askers)

\* They are numbered, and earlier versions kept no more of them.
ASSUME OldSummariesAssumption ==
    /\ IsFiniteSet(OldSummaries)
    /\ Cardinality(OldSummaries) <= Keep + Cardinality(Askers) - 1
    /\ Cardinality(OldSummaries) <= MaxSummaries
    /\ \A s \in OldSummaries : s.at \in 1..Cardinality(OldSummaries)
    /\ \A s, t \in OldSummaries : s.at = t.at => s = t

VARIABLES
    doc,        \* each document: here, excluded from AI, or archived
    stored,     \* ai_coverage_summaries: creation time and content
    clock,      \* time of the last creation
    ask,        \* the requests
    edits       \* changes of the documents so far

summaryVars == <<doc, stored, clock, ask, edits>>

NoSummary == [at |-> 0, summary |-> NoText]

NoAsk ==
    [phase |-> "idle", kind |-> "summary", by |-> "none", docs |-> {},
     row |-> NoSummary, drop |-> {}, proposal |-> NoProposal, bill |-> NoMoney]

Alive == {d \in Docs : doc[d] # "archived"}
Allowed == {d \in Docs : doc[d] = "here"}

Newer(rows, s) == {r \in rows : r.at > s.at}

\* Broken variant: the order of the rows is the wrong way round.
SurplusOldestFirst(rows) == {s \in rows : Cardinality({r \in rows : r.at < s.at}) >= Keep}

\* All but the newest few.
Surplus(rows) == {s \in rows : Cardinality(Newer(rows, s)) >= Keep}

\* The newest row has no newer one.
Latest(rows) == {s \in rows : Newer(rows, s) = {}}

SummaryInit ==
    /\ doc = [d \in Docs |-> "here"]
    /\ stored \in SUBSET OldSummaries
    /\ clock = Cardinality(OldSummaries)
    /\ edits = 0
    /\ ask = [a \in Askers |-> NoAsk]

-----------------------------------------------------------------------------
\* What the user picked, or everything that is not excluded.
Candidates(ids) == IF ids = {} THEN Allowed ELSE ids

\* Everything else is refused: too many, no contract of the policy, nothing that can be
\* read, or something that cannot and no confirmation to leave it out.
SelectDocuments(a, ids, acceptPartial) ==
    LET candidates == Candidates(ids)
        usable == (candidates \cap Allowed) \ Unreadable
    IN  /\ ask[a].phase = "idle" /\ AdapterKey # "none"
        /\ ids \subseteq Contracts \cap Alive
        /\ Cardinality(candidates) <= MaxDocs
        /\ usable # {}
        /\ usable = candidates \/ acceptPartial
        /\ ask' = [ask EXCEPT ![a] = [NoAsk EXCEPT !.phase = "selected", !.by = AdapterKey,
                                                   !.docs = usable]]
        /\ UNCHANGED <<doc, stored, clock, edits>>

SelectBill(a, d) ==
    /\ ask[a].phase = "idle" /\ AdapterKey # "none"
    /\ d \in Allowed \ Contracts
    /\ ask' = [ask EXCEPT ![a] = [NoAsk EXCEPT !.phase = "selected", !.kind = "cost",
                                               !.by = AdapterKey, !.docs = {d}]]
    /\ UNCHANGED <<doc, stored, clock, edits>>

EndRequest(a) ==
    /\ ask[a].phase # "idle"
    /\ ask' = [ask EXCEPT ![a] = NoAsk]
    /\ UNCHANGED <<doc, stored, clock, edits>>

\* The first answer that does not fit is asked for again with a hint, the second is an error.
Repair(a) == [ask EXCEPT ![a] = IF @.phase = "selected" THEN [@ EXCEPT !.phase = "repair"]
                                                        ELSE NoAsk]

\* Which documents an answer is based on is stored with it and left out here.
ReplySummary(a, answer) ==
    /\ ask[a].phase \in {"selected", "repair"} /\ ask[a].kind = "summary"
    /\ Answers(ask[a].by)
    /\ ask' = IF ValidSummary(answer, FALSE)
              THEN [ask EXCEPT ![a].phase = "answered", ![a].docs = {},
                               ![a].row.summary = SummaryOf(answer)]
              ELSE Repair(a)
    /\ UNCHANGED <<doc, stored, clock, edits>>

\* A proposal goes to the user and is not stored.
ReplyCost(a, answer) ==
    /\ ask[a].phase \in {"selected", "repair"} /\ ask[a].kind = "cost"
    /\ Answers(ask[a].by)
    /\ ask' = IF ValidCost(answer)
              THEN [ask EXCEPT ![a] = [NoAsk EXCEPT !.proposal = ProposalOf(answer),
                                                   !.bill = answer.bill]]
              ELSE Repair(a)
    /\ UNCHANGED <<doc, stored, clock, edits>>

\* The transaction, at READ COMMITTED: the row, the surplus as others see it now, the end.
CreateSummary(a) ==
    /\ ask[a].phase = "answered" /\ clock < MaxSummaries
    /\ clock' = clock + 1
    /\ ask' = [ask EXCEPT ![a].phase = "created", ![a].row.at = clock + 1]
    /\ UNCHANGED <<doc, stored, edits>>

ReadSurplus(a) ==
    /\ ask[a].phase = "created"
    /\ ask' = [ask EXCEPT ![a].phase = "read",
                          ![a].drop = Surplus(stored \cup {ask[a].row})]
    /\ UNCHANGED <<doc, stored, clock, edits>>

StoreSummary(a) ==
    /\ ask[a].phase = "read"
    /\ stored' = (stored \cup {ask[a].row}) \ ask[a].drop
    /\ ask' = [ask EXCEPT ![a] = NoAsk]
    /\ UNCHANGED <<doc, clock, edits>>

\* setDocumentExclusion, or the document is archived.
EditDocument(d, state) ==
    /\ edits < MaxEdits
    /\ doc[d] \notin {"archived", state}
    /\ doc' = [doc EXCEPT ![d] = state]
    /\ edits' = edits + 1
    /\ UNCHANGED <<stored, clock, ask>>

SummarizeNext ==
    \/ \E a \in Askers :
          \/ \E ids \in SUBSET Docs, acceptPartial \in BOOLEAN :
                SelectDocuments(a, ids, acceptPartial)
          \/ \E answer \in SummaryReplies : ReplySummary(a, answer)
          \/ CreateSummary(a) \/ ReadSurplus(a) \/ StoreSummary(a) \/ EndRequest(a)
    \/ \E d \in Docs, state \in {"here", "excluded", "archived"} : EditDocument(d, state)

CostNext ==
    \/ \E a \in Askers :
          \/ \E d \in Docs : SelectBill(a, d)
          \/ \E answer \in CostReplies : ReplyCost(a, answer)
          \/ EndRequest(a)
    \/ \E d \in Docs, state \in {"here", "excluded", "archived"} : EditDocument(d, state)

SummarySpec == SummaryInit /\ [][SummarizeNext]_summaryVars

-----------------------------------------------------------------------------
SummaryTypeOK ==
    /\ doc \in [Docs -> {"here", "excluded", "archived"}]
    /\ \A s \in stored : s.at \in 1..clock
    /\ clock \in 0..MaxSummaries
    /\ edits \in 0..MaxEdits
    /\ \A a \in Askers : ask[a].phase \in {"idle", "selected", "repair", "answered",
                                           "created", "read"}

(* Each further transaction that overlaps leaves at most one row more than *)
(* a policy keeps.                                                         *)
Capped == Cardinality(stored) <= Keep + Cardinality(Askers) - 1

(* No cleanup, however old its view, removes the summary a user would read *)
(* after it.                                                               *)
NewestStays ==
    \A a \in Askers : ask[a].phase = "read" =>
        Latest(stored \cup {ask[a].row}) \cap ask[a].drop = {}

(* What was good enough to store can be read back as it was, rows of       *)
(* earlier versions included (readStoredSummary).                          *)
StoredReadable ==
    \A s \in stored :
        LET answer == s.summary @@ [json |-> TRUE]
        IN  ValidSummary(answer, TRUE) /\ SummaryOf(answer) = s.summary

(* The amount of a proposal is the one on the bill, in German and English  *)
(* notation, with and without thousands and cents, or there is none        *)
(* (validateCostExtraction).                                               *)
AmountsRead ==
    \A a \in Askers : ask[a].proposal.amount \in {NoMoney, ask[a].bill}

(* What users see of the provider's answers is what it answered: a policy  *)
(* keeps its newest summaries, few and readable, however many are written  *)
(* at a time, and amounts are not misread; and whatever provider answers   *)
(* the API answers the worker.                                             *)
AnswersKept == Capped /\ NewestStays /\ StoredReadable /\ AmountsRead /\ WorkerAgrees

=============================================================================
