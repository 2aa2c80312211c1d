-------------------------- MODULE InputTokenBudget --------------------------
(***************************************************************************)
(* applyInputTokenBudget: the documents of one call of an AI provider are  *)
(* cut to the configured number of tokens.  The loop goes through them     *)
(* once, every step gives the next document an equal part of what is left. *)
(* A text is its length; where its words end is not known, so a cut at a   *)
(* word boundary has a choice of lengths.                                  *)
(***************************************************************************)
EXTENDS Naturals

CONSTANTS
    CharsPerToken,      \* CHARS_PER_APPROX_TOKEN (4)
    MarkerLength,       \* length of INPUT_TOKEN_TRUNCATION_MARKER
    MinHead,            \* shortest text that is worth a marker (20)
    MaxDocuments,       \* bound on the documents of a call
    Lengths,            \* lengths of texts
    Limits              \* values of AI_MAX_INPUT_TOKENS, 0 is unlimited

ASSUME BudgetAssumption ==
    /\ CharsPerToken \in Nat \ {0}
    /\ MarkerLength \in Nat
    /\ MinHead \in Nat \ {0}
    /\ MaxDocuments \in Nat
    /\ Lengths \subseteq Nat
    /\ Limits \subseteq Nat /\ 0 \in Limits

VARIABLES
    count,      \* documents of the call
    texts,      \* their lengths
    limit,      \* maxTokens
    index,      \* documents handed over so far
    remaining,  \* remainingTokens
    sent,       \* tokens of what was handed over
    cut         \* documents that were shortened

budgetVars == <<count, texts, limit, index, remaining, sent, cut>>

\* approxTokenCount
Tokens(length) == (length + CharsPerToken - 1) \div CharsPerToken

TotalUpTo[n \in Nat] == IF n = 0 THEN 0 ELSE TotalUpTo[n - 1] + Tokens(texts[n])

Unlimited == limit = 0 \/ TotalUpTo[count] <= limit

\* The word that is cut begins after the middle, or the word is cut in two.
AtWordBoundary(chars) == {n \in 0..chars : 2 * n > chars \/ n = chars}

\* Broken variant: the marker comes on top of the limit.
TruncatedPlusMarker(chars) == {n + MarkerLength : n \in AtWordBoundary(chars)}

\* Lengths that a text longer than chars may be cut to.
Truncated(chars) ==
    IF chars < MarkerLength + MinHead
    THEN {chars}
    ELSE {n + MarkerLength : n \in AtWordBoundary(chars - MarkerLength)}

\* Broken variant: the whole limit is divided by what is left.
QuotaOfAll == limit \div (count - index)

Quota == remaining \div (count - index)

BudgetInit ==
    /\ count \in 0..MaxDocuments
    /\ texts \in [1..count -> Lengths]
    /\ limit \in Limits
    /\ index = 0 /\ remaining = limit /\ sent = 0 /\ cut = {}

\* The document goes as it is.
Hand ==
    LET used == Tokens(texts[index + 1])
    IN  /\ index < count
        /\ Unlimited \/ used <= Quota
        /\ remaining' = IF Unlimited THEN remaining ELSE remaining - used
        /\ sent' = sent + used
        /\ index' = index + 1
        /\ UNCHANGED <<count, texts, limit, cut>>

\* The document is charged what its cut costs.
Shorten ==
    /\ index < count
    /\ ~Unlimited /\ Tokens(texts[index + 1]) > Quota
    /\ \E length \in Truncated(Quota * CharsPerToken) :
          /\ remaining' = remaining - Tokens(length)
          /\ sent' = sent + Tokens(length)
    /\ index' = index + 1
    /\ cut' = cut \cup {index + 1}
    /\ UNCHANGED <<count, texts, limit>>

BudgetNext == Hand \/ Shorten

BudgetSpec == BudgetInit /\ [][BudgetNext]_budgetVars

-----------------------------------------------------------------------------
BudgetTypeOK ==
    /\ count \in 0..MaxDocuments
    /\ texts \in [1..count -> Lengths]
    /\ limit \in Limits
    /\ index \in 0..count
    /\ remaining \in Nat
    /\ sent \in Nat
    /\ cut \subseteq 1..count

(* What is handed over never exceeds the limit, and a document within an   *)
(* equal share of the limit is never shortened, whatever the documents     *)
(* before it took (applyInputTokenBudget: guarantee and fair share).       *)
BudgetKept ==
    ~Unlimited =>
        /\ sent <= limit
        /\ \A i \in cut : Tokens(texts[i]) > limit \div count

=============================================================================
