------------------------------ MODULE MCCosts ------------------------------
(***************************************************************************)
(* The two halves of the cost tracking for the model checker.  They share  *)
(* no state, so a behaviour works on one of them: focus says on which, and *)
(* the other keeps its first state.                                        *)
(***************************************************************************)
EXTENDS CostTracking, CostSchedule, TLC

VARIABLE focus

costsVars == <<costVars, scheduleVars, focus>>

\* Dates of the tables: year 0 is a leap year.
D(y, m, d) == (y * 12 + m - 1) * 32 + d
Never == 100000

ReadingDays ==
    {D(0, 1, 30), D(0, 1, 31), D(0, 2, 29), D(0, 7, 1), D(1, 1, 30), D(1, 3, 31)}

R(from, to, made, amount, frequency) ==
    [from |-> from, to |-> to, made |-> made, amount |-> amount, frequency |-> frequency]

\* One entry; an increase that ended it; an increase after a gap; one that
\* starts with an older one that nobody ended.
RowChoices ==
    UNION {
      { << >>,
        <<R(D(0, 1, 31), Never, 1, 10001, f)>>,
        <<R(D(0, 1, 31), D(0, 7, 1) - 1, 1, 10001, f), R(D(0, 7, 1), Never, 2, 25000, g)>>,
        <<R(D(0, 1, 30), D(0, 3, 31), 1, 10001, f), R(D(0, 7, 1), Never, 2, 0, g)>>,
        <<R(D(0, 7, 1), Never, 1, 10001, f), R(D(0, 2, 29), Never, 2, 999, g)>> }
      : f, g \in {"MONTHLY", "QUARTERLY", "ANNUAL"} }

PolicyChoices ==
    {[start |-> s, frequency |-> f, rows |-> r] :
        s \in {NoDate, D(0, 3, 1)},
        f \in {"none", "MONTHLY", "SEMI_ANNUAL"},
        r \in RowChoices}

OtherPolicy ==
    {[start |-> D(0, 2, 29), frequency |-> "ANNUAL",
      rows |-> <<R(D(0, 2, 29), Never, 1, 5, "SEMI_ANNUAL")>>]}

MCLedgers == {<<p, q>> : p \in PolicyChoices, q \in OtherPolicy}

EmptyLedger == [start |-> NoDate, frequency |-> "none", rows |-> << >>]

Init ==
    \/ focus = "entries" /\ CostInit /\ ledger = <<EmptyLedger>> /\ today = Min(Days)
    \/ focus = "tables" /\ CostInit /\ ScheduleInit

Next ==
    \/ focus = "entries" /\ CostNext /\ UNCHANGED <<scheduleVars, focus>>
    \/ focus = "tables" /\ ScheduleNext /\ UNCHANGED <<costVars, focus>>

Spec == Init /\ [][Next]_costsVars

CostSymmetry == Permutations(Entries) \cup Permutations(Bookers)

=============================================================================
