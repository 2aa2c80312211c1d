------------------------------ MODULE CostRules ------------------------------
(***************************************************************************)
(* entryForPeriod of cost-schedule.ts, the rule that the writes of the     *)
(* cost entries and the cost tables share: of the entries that cover a     *)
(* time, the one that starts last applies.                                 *)
(*                                                                         *)
(* Time is a number.  A validTo of null is a number later than every time  *)
(* in use, so that !validTo || validTo >= t is to >= t.                    *)
(***************************************************************************)
EXTENDS Integers, FiniteSets

CONSTANT NoEntry        \* no entry applies

Covers(c, t) == c.from <= t /\ t <= c.to

\* The sort order: validFrom, then createdAt, descending.
StartsAfter(c, d) == c.from > d.from \/ (c.from = d.from /\ c.made > d.made)

EntryForPeriod(book, among, t) ==
    LET found == {e \in among : Covers(book[e], t)}
    IN  IF found = {} THEN NoEntry
        ELSE CHOOSE e \in found : \A d \in found \ {e} : StartsAfter(book[e], book[d])

=============================================================================
