---------------------------- MODULE CostSchedule ----------------------------
(***************************************************************************)
(* The cost tables: cost-schedule.ts and the two readers of                *)
(* CostTrackingService, getSchedule (one policy, to the end of next year)  *)
(* and getHouseholdSummary (all policies, to today).  Days pass and entries *)
(* are added; everything else is computed.                                 *)
(*                                                                         *)
(* A date is month * 32 + day, with months counted from January of year 0, *)
(* a leap year (no century is near): dates compare as numbers, and an      *)
(* entry ended the millisecond before a date has ended at the number       *)
(* before.  Amounts are whole cents, NoAmount is null.  Floating-point     *)
(* error before rounding is left out.                                      *)
(***************************************************************************)
EXTENDS CostRules, Sequences, FiniteSetsExt

CONSTANTS
    Ledgers,        \* policies with their possible entries: the initial states
    Days            \* the dates at which the tables are read

ASSUME ScheduleAssumption == Days \subseteq Nat /\ Days # {}

VARIABLES
    ledger,         \* per policy: startDate, paymentFrequency, its rows
    today

scheduleVars == <<ledger, today>>

NoAmount == -1
NoDate == -1

FrequencyMonths == [MONTHLY |-> 1, QUARTERLY |-> 3, SEMI_ANNUAL |-> 6, ANNUAL |-> 12]
FrequencyPerYear == [MONTHLY |-> 12, QUARTERLY |-> 4, SEMI_ANNUAL |-> 2, ANNUAL |-> 1]
Frequencies == DOMAIN FrequencyMonths

-----------------------------------------------------------------------------
(* Dates.                                                                  *)

MonthOf(date) == date \div 32
DayOf(date) == date % 32
YearOf(date) == MonthOf(date) \div 12
EndOfYear(y) == (y * 12 + 11) * 32 + 31

LastDay(month) ==
    CASE month % 12 = 1 -> IF (month \div 12) % 4 = 0 THEN 29 ELSE 28
      [] month % 12 \in {3, 5, 8, 10} -> 30
      [] OTHER -> 31

Lesser(m, n) == IF m < n THEN m ELSE n

AddMonthsClamped(date, months) ==
    LET month == MonthOf(date) + months
    IN  month * 32 + Lesser(DayOf(date), LastDay(month))

\* Year 0 is 2000; the next century without a leap day is out of reach.
LastYear == 99

IsDate(d) == d \in 0..EndOfYear(LastYear) /\ DayOf(d) \in 1..LastDay(MonthOf(d))

-----------------------------------------------------------------------------
(* Amounts.                                                                *)

\* Math.round of a quotient.
Rounded(n, d) == (2 * n + d) \div (2 * d)

SumOver(f, S) == MapThenSumSet(LAMBDA i : f[i], S)

\* null when nothing is recorded; never 0 instead.
SumAmounts(f) ==
    LET recorded == {i \in DOMAIN f : f[i] # NoAmount}
    IN  IF recorded = {} THEN NoAmount ELSE SumOver(f, recorded)

\* The entry's amount, whatever its own frequency.
PeriodAmountUnscaled(row, step) == row.amount

PeriodAmount(row, step) ==
    IF row.amount = NoAmount THEN NoAmount
    ELSE Rounded(row.amount * FrequencyMonths[step], FrequencyMonths[row.frequency])

Annual(row) ==
    IF row.amount = NoAmount THEN NoAmount ELSE row.amount * FrequencyPerYear[row.frequency]

CostRow ==
    [from : Nat, to : Nat, made : Nat, amount : Nat \cup {NoAmount}, frequency : Frequencies]

\* The rows begin on dates and are numbered in the order of their insertion.
ASSUME LedgersAssumption ==
    \A l \in Ledgers : \A p \in DOMAIN l :
        /\ l[p].start = NoDate \/ IsDate(l[p].start)
        /\ l[p].frequency \in Frequencies \cup {"none"}
        /\ l[p].rows \in Seq(CostRow)
        /\ \A i \in DOMAIN l[p].rows :
              IsDate(l[p].rows[i].from) /\ l[p].rows[i].made \in 1..Len(l[p].rows)
        /\ \A i, j \in DOMAIN l[p].rows : l[p].rows[i].made = l[p].rows[j].made => i = j

-----------------------------------------------------------------------------
(* The schedule of one policy.                                             *)

ActiveOrLatest(rows, day) ==
    LET active == EntryForPeriod(rows, DOMAIN rows, day)
    IN  IF active # NoEntry THEN active
        ELSE CHOOSE e \in DOMAIN rows :
                \A d \in DOMAIN rows : rows[d].from <= rows[e].from

Anchor(policy) ==
    Min({policy.rows[e].from : e \in DOMAIN policy.rows} \cup ({policy.start} \ {NoDate}))

Frequency(policy, day) ==
    IF policy.frequency # "none" THEN policy.frequency
    ELSE policy.rows[ActiveOrLatest(policy.rows, day)].frequency

\* Each start from the one before: a clamped day stays clamped.
DriftingStart(anchor, step, k) ==
    IF k = 0 THEN anchor
    ELSE AddMonthsClamped(AddMonthsClamped(anchor, step), (k - 1) * step)

PeriodStart(anchor, step, k) == AddMonthsClamped(anchor, k * step)

\* The starts of the periods up to the horizon.
Starts(policy, day, horizon) ==
    LET step == FrequencyMonths[Frequency(policy, day)]
        anchor == Anchor(policy)
        count == ((MonthOf(horizon) - MonthOf(anchor)) \div step) + 1
    IN  {PeriodStart(anchor, step, k) : k \in 0..count} \cap 0..horizon

AmountAt(policy, day, start) ==
    LET e == EntryForPeriod(policy.rows, DOMAIN policy.rows, start)
    IN  IF e = NoEntry THEN NoAmount
        ELSE PeriodAmount(policy.rows[e], Frequency(policy, day))

Periods(policy, day, horizon) ==
    [s \in Starts(policy, day, horizon) |-> AmountAt(policy, day, s)]

Started(periods, day) == {s \in DOMAIN periods : s <= day}

\* Everything up to the horizon.
PaidToDateAll(periods, day) == SumAmounts(periods)

PaidToDate(periods, day) == SumAmounts([s \in Started(periods, day) |-> periods[s]])

\* perYear: the bucket of each year in which a period has started.
PerYear(periods, day) ==
    [y \in {YearOf(s) : s \in Started(periods, day)} |->
        SumAmounts([s \in {r \in Started(periods, day) : YearOf(r) = y} |-> periods[s]])]

Schedule(policy, day, horizon) ==
    IF DOMAIN policy.rows = {}
    THEN [paid |-> NoAmount, perYear |-> << >>, periods |-> << >>, annual |-> NoAmount]
    ELSE LET periods == Periods(policy, day, horizon)
         IN  [paid |-> PaidToDate(periods, day),
              perYear |-> PerYear(periods, day),
              periods |-> periods,
              annual |-> Annual(policy.rows[ActiveOrLatest(policy.rows, day)])]

GetSchedule(policy, day) == Schedule(policy, day, EndOfYear(YearOf(day) + 1))

-----------------------------------------------------------------------------
(* The household: totals over its policies, and one bucket per year.       *)

PolicySummary(policy, day) ==
    LET schedule == Schedule(policy, day, day)
    IN  [paid |-> schedule.paid,
         perYear |-> schedule.annual,
         perMonth |-> IF schedule.annual = NoAmount THEN NoAmount
                      ELSE Rounded(schedule.annual, 12)]

PerYearBuckets(day) ==
    LET of(p) == Schedule(ledger[p], day, day).perYear
        years == UNION {DOMAIN of(p) : p \in DOMAIN ledger}
    IN  [y \in years |->
            SumAmounts([p \in {q \in DOMAIN ledger : y \in DOMAIN of(q)} |-> of(p)[y]])]

HouseholdSummary(day) ==
    LET rows == [p \in DOMAIN ledger |-> PolicySummary(ledger[p], day)]
    IN  [paid |-> SumAmounts([p \in DOMAIN rows |-> rows[p].paid]),
         perYear |-> SumAmounts([p \in DOMAIN rows |-> rows[p].perYear]),
         perMonth |-> SumAmounts([p \in DOMAIN rows |-> rows[p].perMonth]),
         years |-> PerYearBuckets(day)]

-----------------------------------------------------------------------------
ScheduleInit ==
    /\ ledger \in Ledgers
    /\ today = Min(Days)

DayPasses ==
    /\ \E d \in Days : d > today
    /\ today' = Min({d \in Days : d > today})
    /\ UNCHANGED ledger

ScheduleNext == DayPasses

ScheduleSpec == ScheduleInit /\ [][ScheduleNext]_scheduleVars

-----------------------------------------------------------------------------
(* The tables agree: what the policy page calls paid to date is what the   *)
(* household page counts for the policy, is the sum of the years' history, *)
(* and the household's total is the sum of its years.                      *)
TablesAgree ==
    /\ \A p \in DOMAIN ledger :
          LET page == GetSchedule(ledger[p], today)
          IN  /\ page.paid = PolicySummary(ledger[p], today).paid
              /\ page.paid = SumAmounts(page.perYear)
    /\ HouseholdSummary(today).paid = SumAmounts(HouseholdSummary(today).years)

(* Twelve months that one entry prices throughout cost its annual amount,  *)
(* whatever the billing frequency, up to half a cent per period: scaling   *)
(* an amount to the period keeps the annual total.                         *)
YearCostsAnnual ==
    \A p \in DOMAIN ledger :
        LET policy == ledger[p]
            periods == GetSchedule(policy, today).periods
        IN  \A e \in DOMAIN policy.rows, s \in DOMAIN periods :
                LET year == {r \in DOMAIN periods : s <= r /\ r < AddMonthsClamped(s, 12)}
                    row == policy.rows[e]
                IN  /\ row.amount # NoAmount
                    /\ AddMonthsClamped(s, 12) \in DOMAIN periods
                    /\ \A r \in year : EntryForPeriod(policy.rows, DOMAIN policy.rows, r) = e
                    => 2 * (SumOver(periods, year) - Annual(row))
                            \in -Cardinality(year)..Cardinality(year)

(* Every month has its period: the starts lie exactly the billing step     *)
(* apart, on the anchor's day or the last day of a shorter month, for      *)
(* months of every length.                                                 *)
StartsAligned ==
    \A p \in DOMAIN ledger :
        LET policy == ledger[p]
            starts == DOMAIN GetSchedule(policy, today).periods
            anchor == Anchor(policy)
            step == FrequencyMonths[Frequency(policy, today)]
        IN  policy.rows # << >> =>
              /\ {MonthOf(s) : s \in starts} =
                    {m \in MonthOf(anchor)..(YearOf(today) + 2) * 12 - 1 :
                        (m - MonthOf(anchor)) % step = 0}
              /\ \A s \in starts :
                    DayOf(s) < DayOf(anchor) => DayOf(s) = LastDay(MonthOf(s))

(* What the tables show is right, on every day they are read.              *)
ScheduleRight == TablesAgree /\ YearCostsAnnual /\ StartsAligned

=============================================================================
