---------------------------- MODULE CostTracking ----------------------------
(***************************************************************************)
(* The cost entries of one policy: CostTrackingService.create, update and  *)
(* remove with the automatic ending and reopening of the predecessor, each *)
(* one interactive transaction at READ COMMITTED.  A transaction is three  *)
(* steps: what it reads before its first write, what it reads after it     *)
(* (the predecessor), and its commit, which applies all its writes or, when *)
(* a row to update is gone, none.  Others commit in between.               *)
(*                                                                         *)
(* Time is a number; t-1 is the millisecond before t.  A validTo of null   *)
(* is Forever.                                                             *)
(***************************************************************************)
EXTENDS CostRules

CONSTANTS
    Entries,        \* ids of rows of policy_cost_entries; an id is used once
    Bookers,        \* requests under way at a time
    LastTime,       \* the dates a user can enter are 0..LastTime
    MaxBookings     \* bound on the requests

ASSUME CostAssumption ==
    /\ LastTime \in Nat
    /\ MaxBookings \in Nat
    /\ NoEntry \notin Entries
    /\ IsFiniteSet(Entries)

VARIABLES
    costs,          \* the committed rows
    booking,        \* the transaction of each request
    booked,         \* requests so far
    raced,          \* history: a transaction committed that others had overlapped
    limited,        \* history: some end date was entered by a user
    advanced        \* history: some entry was moved to an earlier date

costVars == <<costs, booking, booked, raced, limited, advanced>>

Times == 0..LastTime
Forever == LastTime + 1
Same == -2          \* a field the update leaves out (undefined)

Cost == [from : Times, to : -1..Forever, made : 0..Cardinality(Entries),
         live : {"unused", "live", "deleted"}]
Booking ==
    [op : {"none", "create", "update", "remove"},
     phase : {"idle", "checked", "picked"},
     id : Entries \cup {NoEntry},
     old : Times,                   \* validFrom read at the start
     from : Times,                  \* validFrom after the operation
     to : {Same} \cup (-1..Forever),      \* validTo written, or left out
     reopen : Entries \cup {NoEntry},     \* predecessor to reopen
     close : Entries \cup {NoEntry},      \* predecessor to end
     alone : BOOLEAN]               \* nobody else committed since its start

Idle == [op |-> "none", phase |-> "idle", id |-> NoEntry, old |-> 0, from |-> 0,
         to |-> Same, reopen |-> NoEntry, close |-> NoEntry, alone |-> TRUE]

CostTypeOK ==
    /\ costs \in [Entries -> Cost]
    /\ booking \in [Bookers -> Booking]
    /\ booked \in 0..MaxBookings
    /\ raced \in BOOLEAN
    /\ limited \in BOOLEAN
    /\ advanced \in BOOLEAN

Live(book) == {e \in Entries : book[e].live = "live"}
Made == Cardinality({e \in Entries : costs[e].live # "unused"})

CostInit ==
    /\ costs = [e \in Entries |-> [from |-> 0, to |-> Forever, made |-> 0, live |-> "unused"]]
    /\ booking = [w \in Bookers |-> Idle]
    /\ booked = 0
    /\ raced = FALSE
    /\ limited = FALSE
    /\ advanced = FALSE

-----------------------------------------------------------------------------
\* What applies at t.
Applies(book, t) == EntryForPeriod(book, Live(book), t)

-----------------------------------------------------------------------------
(* The reads before the first write.                                       *)

\* assertNoValidFromCollision that looks at open entries only.
NoCollisionOpen(from, except) ==
    \A e \in Live(costs) \ except : costs[e].to = Forever => costs[e].from # from

NoCollision(from, except) ==
    \A e \in Live(costs) \ except : costs[e].from # from

\* Bound: MaxBookings.
Begin(w) ==
    /\ booking[w].phase = "idle"
    /\ booked < MaxBookings
    /\ booked' = booked + 1

BeginCreate(w) ==
    /\ Begin(w)
    /\ \E from \in Times, to \in Times \cup {Forever} :
          /\ to > from
          /\ NoCollision(from, {})
          /\ booking' = [booking EXCEPT ![w] =
                [Idle EXCEPT !.op = "create", !.phase = "checked", !.old = from,
                             !.from = from, !.to = to]]
          /\ limited' = (limited \/ to # Forever)
    /\ UNCHANGED <<costs, raced, advanced>>

\* A validTo that the moved start leaves behind is dropped when a successor
\* begins right after it, and refused otherwise.
Successor(c) == \E s \in Live(costs) : costs[s].from = c.to + 1

FinalTo(c, from, to) == IF to = Same THEN c.to ELSE to

\* The end stored is the first moment after the one entered.
WrittenToExclusive(c, from, to) ==
    IF FinalTo(c, from, to) <= from THEN Forever
    ELSE IF to = Same THEN Same ELSE to + 1

WrittenTo(c, from, to) ==
    IF FinalTo(c, from, to) <= from THEN Forever ELSE to

BeginUpdate(w) ==
    /\ Begin(w)
    /\ \E e \in Live(costs), from \in Times, to \in Times \cup {Forever, Same} :
          /\ FinalTo(costs[e], from, to) <= from => to = Same /\ Successor(costs[e])
          /\ from # costs[e].from => NoCollision(from, {e})
          /\ booking' = [booking EXCEPT ![w] =
                [Idle EXCEPT !.op = "update", !.phase = "checked", !.id = e,
                             !.old = costs[e].from, !.from = from,
                             !.to = WrittenTo(costs[e], from, to)]]
          /\ limited' = (limited \/ to \in Times)
          /\ advanced' = (advanced \/ from < costs[e].from)
    /\ UNCHANGED <<costs, raced>>

BeginRemove(w) ==
    /\ Begin(w)
    /\ \E e \in Live(costs) :
          booking' = [booking EXCEPT ![w] =
            [Idle EXCEPT !.op = "remove", !.phase = "checked", !.id = e,
                         !.old = costs[e].from, !.from = costs[e].from]]
    /\ UNCHANGED <<costs, raced, limited, advanced>>

-----------------------------------------------------------------------------
(* The writes, as the transaction itself sees them.                        *)

\* The entry itself: inserted, changed or deleted.
Written(book, b) ==
    CASE b.op = "create" ->
            [book EXCEPT ![b.id] = [from |-> b.from, to |-> b.to, made |-> Made, live |-> "live"]]
      [] b.op = "update" ->
            [book EXCEPT ![b.id].from = IF b.from = b.old THEN @ ELSE b.from,
                         ![b.id].to = IF b.to = Same THEN @ ELSE b.to]
      [] b.op = "remove" -> [book EXCEPT ![b.id].live = "deleted"]
      [] OTHER -> book

\* validTo of a predecessor set to null.
Reopened(book, e) == IF e = NoEntry THEN book ELSE [book EXCEPT ![e].to = Forever]

\* validTo of a predecessor set to the millisecond before `from`.
Closed(book, e, from) == IF e = NoEntry THEN book ELSE [book EXCEPT ![e].to = from - 1]

\* Any ended entry is taken for the predecessor.
ReopensAnyEnded(b) ==
    IF b.op = "remove" \/ (b.op = "update" /\ b.from > b.old)
    THEN LET ended == {e \in Live(Written(costs, b)) : Written(costs, b)[e].to # Forever}
         IN  IF ended = {} THEN {NoEntry} ELSE ended
    ELSE {NoEntry}

\* Deleting an increase leaves its predecessor ended.
ReopensNotOnRemove(b) ==
    IF b.op = "update" /\ b.from > b.old
    THEN LET ended == {e \in Live(Written(costs, b)) : Written(costs, b)[e].to = b.old - 1}
         IN  IF ended = {} THEN {NoEntry} ELSE ended
    ELSE {NoEntry}

\* Which rows restorePredecessor can find; findFirst returns one of them.
Reopens(b) ==
    IF b.op = "remove" \/ (b.op = "update" /\ b.from > b.old)
    THEN LET seen == Written(costs, b)
             ended == {e \in Live(seen) : seen[e].to = b.old - 1}
         IN  IF ended = {} THEN {NoEntry} ELSE ended
    ELSE {NoEntry}

Moves(b) == b.op = "create" \/ (b.op = "update" /\ b.from # b.old)

\* endPredecessor after the reopening of r: whom it ends.
Closes(b, r) ==
    IF ~Moves(b) THEN NoEntry
    ELSE LET seen == Reopened(Written(costs, b), r)
             p == EntryForPeriod(seen, Live(seen) \ {b.id}, b.from)
         IN  IF p = NoEntry THEN NoEntry
             ELSE IF seen[p].to <= b.from - 1 THEN NoEntry ELSE p

\* A fresh row for a create; the row read at the start otherwise.
RowsFor(b) ==
    IF b.op = "create"
    THEN {e \in Entries : costs[e].live = "unused" /\ \A v \in Bookers : booking[v].id # e}
    ELSE {b.id}

\* The row lock of an uncommitted write.
Locked(e) ==
    \E v \in Bookers :
        booking[v].phase = "picked" /\ e \in {booking[v].id, booking[v].reopen, booking[v].close}

\* The first write and the search for the predecessors.  A row gone by now is
\* P2025: the transaction fails.
Pick(w) ==
    LET b0 == booking[w] IN
    /\ b0.phase = "checked"
    /\ \E e \in RowsFor(b0) :
          LET b == [b0 EXCEPT !.id = e] IN
          /\ b.op # "create" => costs[e].live = "live"
          /\ ~Locked(e)
          /\ \E r \in Reopens(b) :
                booking' = [booking EXCEPT ![w] =
                    [b EXCEPT !.phase = "picked", !.reopen = r, !.close = Closes(b, r)]]
    /\ UNCHANGED <<costs, booked, raced, limited, advanced>>

Result(b) == Closed(Reopened(Written(costs, b), b.reopen), b.close, b.from)

RowsThere(b) ==
    \A e \in {b.reopen, b.close, b.id} \ {NoEntry} :
        costs[e].live = "live" \equiv ~(b.op = "create" /\ e = b.id)

Commit(w) ==
    LET b == booking[w] IN
    /\ b.phase = "picked"
    /\ RowsThere(b)
    /\ costs' = Result(b)
    /\ raced' = (raced \/ ~b.alone)
    /\ booking' = [v \in Bookers |-> IF v = w THEN Idle ELSE [booking[v] EXCEPT !.alone = FALSE]]
    /\ UNCHANGED <<booked, limited, advanced>>

\* A row is gone, or the database fails: nothing of the transaction remains.
Rollback(w) ==
    /\ booking[w].phase # "idle"
    /\ booking' = [booking EXCEPT ![w] = Idle]
    /\ UNCHANGED <<costs, booked, raced, limited, advanced>>

CostNext ==
    \E w \in Bookers :
        \/ BeginCreate(w)
        \/ BeginUpdate(w)
        \/ BeginRemove(w)
        \/ Pick(w)
        \/ Commit(w)
        \/ Rollback(w)

CostSpec == CostInit /\ [][CostNext]_costVars

-----------------------------------------------------------------------------
(* An operation that moves, adds or removes an entry at one or two dates   *)
(* leaves everything before the earlier of them as it was: automatic       *)
(* ending, reopening, clamping of a validTo never reprice the past.  Only  *)
(* for a transaction nobody overlapped: one with a stale predecessor may   *)
(* undo an end date set meanwhile.                                         *)
HistoryKept ==
    [][\A w \in Bookers :
        booking[w].phase = "picked" /\ booking[w].alone /\ booking'[w].phase = "idle" =>
            \A t \in Times :
                t < booking[w].old /\ t < booking[w].from =>
                    Applies(costs', t) = Applies(costs, t)]_costVars

(* As long as no transaction was overlapped, no two entries of the policy  *)
(* start at one time; there is no unique index, only the check inside the  *)
(* transaction.                                                            *)
StartsDistinct ==
    ~raced => \A d, e \in Live(costs) : d # e => costs[d].from # costs[e].from

(* Where users only enter start dates and move none to an earlier one,     *)
(* there is never a gap: from the first start on, every time has an entry  *)
(* that applies, whatever was inserted, postponed or deleted in whatever   *)
(* order.                                                                  *)
Priced ==
    \A e \in Live(costs), t \in Times :
        t >= costs[e].from => Applies(costs, t) # NoEntry

NoGap == ~raced /\ ~limited /\ ~advanced => Priced

=============================================================================
