----------------------------- MODULE AiAnswers -----------------------------
(***************************************************************************)
(* What a provider answers, as the formats of foundation/src/ai read it: a *)
(* coverage summary, and the data of one billing document.  An answer that *)
(* does not fit its format is a violation, never repaired.  A text is its  *)
(* length without the blanks around it.                                    *)
(***************************************************************************)
EXTENDS Integers, Sequences, SequencesExt

NotText == -1       \* where a text is expected: something else
NoText == -2        \* null, or the field is missing
NotAList == << -3 >>   \* where an array is expected: something else

SchemaVersion == 2          \* COVERAGE_SUMMARY_SCHEMA_VERSION
TotalLengthSince == 2       \* COVERAGE_SUMMARY_TOTAL_LENGTH_SINCE_VERSION
MaxSections == 8
MaxItems == 12
MaxHints == 6
MaxTitle == 80
MaxItem == 300
MaxTotal == 2000

Total(lengths) == FoldLeft(LAMBDA a, b : a + b, 0, lengths)

NonEmpty(lengths) == SelectSeq(lengths, LAMBDA n : n > 0)

\* coverageSummaryContentLength
ContentLength(sections, hints) ==
    Total(hints) +
    Total([i \in DOMAIN sections |->
             LET s == sections[i]
             IN  s.title + Total(s.items) + IF s.note > 0 THEN s.note ELSE 0])

TextsUpTo(list, max, length) ==
    /\ list # NotAList
    /\ Len(list) <= max
    /\ \A i \in DOMAIN list : list[i] \in 0..length

ValidSection(section) ==
    /\ section.title \in 1..MaxTitle
    /\ TextsUpTo(section.items, MaxItems, MaxItem)
    /\ section.note # NotText

\* Empty items and hints are left out.
SummaryOf(answer) ==
    [version |-> answer.version,
     sections |-> [i \in DOMAIN answer.sections |->
                     [title |-> answer.sections[i].title,
                      items |-> NonEmpty(answer.sections[i].items),
                      note |-> IF answer.sections[i].note > 0 THEN answer.sections[i].note
                                                              ELSE NoText]],
     hints |-> NonEmpty(answer.hints)]

\* validateCoverageSummary: the length of a stored row written before there was a limit
\* does not matter.
ValidSummary(answer, stored) ==
    /\ answer.json
    /\ answer.version \in Nat \ {0}
    /\ Len(answer.sections) \in 1..MaxSections
    /\ \A i \in DOMAIN answer.sections : ValidSection(answer.sections[i])
    /\ TextsUpTo(answer.hints, MaxHints, MaxItem)
    /\ \/ stored /\ answer.version < TotalLengthSince
       \/ LET summary == SummaryOf(answer)
          IN  ContentLength(summary.sections, summary.hints) <= MaxTotal

-----------------------------------------------------------------------------
(* Amounts: groups of digits with commas and dots between them.  A group   *)
(* is its value and its number of digits.                                  *)

NoMoney == -1

Positions(amount, mark) == {i \in DOMAIN amount.marks : amount.marks[i] = mark}

FirstOf(positions) == CHOOSE i \in positions : \A j \in positions : i <= j
LastOf(positions) == CHOOSE i \in positions : \A j \in positions : i >= j

\* Broken variant: a comma is always the decimal separator.
DecimalIfComma(amount) ==
    IF Positions(amount, ",") # {} THEN LastOf(Positions(amount, ",")) ELSE 0

\* The separator that stands for the decimal point, 0 if there is none: of two kinds the
\* one that comes last; a single separator with at most two digits after it.
DecimalAt(amount) ==
    LET commas == Positions(amount, ",")
        dots == Positions(amount, ".")
    IN  IF commas # {} /\ dots # {}
        THEN FirstOf(IF LastOf(commas) > LastOf(dots) THEN commas ELSE dots)
        ELSE IF Len(amount.marks) = 1 /\ amount.groups[2].digits <= 2 THEN 1
        ELSE 0

Digits(groups) == Total([i \in DOMAIN groups |-> groups[i].digits])

Value(groups) == FoldLeft(LAMBDA n, g : n * 10^g.digits + g.value, 0, groups)

\* Hundredths, rounded half up.
Hundredths(groups) ==
    IF Digits(groups) <= 2 THEN Value(groups) * 10^(2 - Digits(groups))
    ELSE (Value(groups) + 5 * 10^(Digits(groups) - 3)) \div 10^(Digits(groups) - 2)

\* parseMoneyAmount of a text, in cents.  What follows a second decimal point is not read.
ParseMoney(amount) ==
    LET point == DecimalAt(amount)
        again == {i \in DOMAIN amount.marks : i > point /\ amount.marks[i] = amount.marks[point]}
        end == IF point = 0 \/ again = {} THEN Len(amount.groups) ELSE FirstOf(again)
        whole == SubSeq(amount.groups, 1, IF point = 0 THEN end ELSE point)
        fraction == IF point = 0 THEN << >> ELSE SubSeq(amount.groups, point + 1, end)
    IN  IF Digits(whole) + Digits(fraction) = 0 THEN NoMoney
        ELSE Value(whole) * 100 + Hundredths(fraction)

\* validateCostExtraction: the proposal, or that there is none.  Only the fields the
\* validator tells apart.
NoProposal == [amount |-> NoMoney, unclear |-> {}, dated |-> FALSE]

ValidCost(answer) ==
    /\ answer.json /\ answer.confidence /\ answer.frequency /\ answer.described
    /\ answer.amount = << >> \/ ParseMoney(answer.amount[1]) # NoMoney

\* A field the model calls unclear has no value.
ProposalOf(answer) ==
    [amount |-> IF "amount" \in answer.unclear \/ answer.amount = << >> THEN NoMoney
                ELSE ParseMoney(answer.amount[1]),
     unclear |-> answer.unclear,
     dated |-> answer.dated /\ "validFrom" \notin answer.unclear]

=============================================================================
