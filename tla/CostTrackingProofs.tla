------------------------- MODULE CostTrackingProofs -------------------------
(***************************************************************************)
(* What the cost history of a policy keeps, for any entries, requests and  *)
(* days: no two live costs start on one day, each ends where the next      *)
(* begins, and what lies in the past is not repriced.                      *)
(*                                                                         *)
(* Every request checks the entry it is about before it writes; the        *)
(* invariant says what of that check is left when others commit in         *)
(* between, and what the transactions of CostTracking do to the order of   *)
(* the entries. The last part is about the tables shown from the entries:  *)
(* every policy's periods start a billing step apart (PeriodsAligned).     *)
(***************************************************************************)
EXTENDS CostTracking, CostSchedule, TLAPS, FiniteSetTheorems, NaturalsInduction,
        WellFoundedInduction

(* Rows are numbered in the order they were inserted (createdAt), with no  *)
(* number used twice.                                                      *)
MadeApart ==
    /\ \A e \in Entries : costs[e].live # "unused" => costs[e].made < Made
    /\ \A d, e \in Entries :
          d # e /\ costs[d].live # "unused" /\ costs[e].live # "unused" =>
              costs[d].made # costs[e].made

\* A create that has picked its row is the only one to know it.
FreshId(w) ==
    booking[w].phase = "picked" /\ booking[w].op = "create" =>
        /\ booking[w].id \in Entries /\ costs[booking[w].id].live = "unused"
        /\ \A v \in Bookers \ {w} : booking[v].id # booking[w].id

\* What the checks of the start leave of a request, whoever commits meanwhile.
Bounded(b) ==
    /\ b.phase = "idle" <=> b.op = "none"
    /\ b.phase # "idle" /\ b.op # "create" => b.id \in Entries
    /\ b.phase = "picked" => b.id \in Entries
    /\ b.op = "create" => b.old = b.from /\ b.to > b.from
    /\ b.op = "remove" => b.old = b.from
    /\ b.op = "update" => b.to = Same \/ b.to > b.from
    /\ ~limited => b.to \in {Same, Forever}
    /\ ~advanced => b.from >= b.old

\* What a transaction nobody overlapped has read is still so.
Current(b) ==
    b.phase # "idle" /\ b.alone =>
        /\ b.op = "create" => NoCollision(b.from, {})
        /\ b.op \in {"update", "remove"} => b.id \in Live(costs) /\ costs[b.id].from = b.old
        /\ b.op = "update" =>
              /\ b.from # b.old => NoCollision(b.from, {b.id})
              /\ b.to = Same => costs[b.id].to > b.from
        /\ b.phase = "picked" => b.reopen \in Reopens(b) /\ b.close = Closes(b, b.reopen)

\* The rows of a book end where another starts, each at a time of its own.
Chained(book) ==
    /\ \A d, e \in Live(book) : d # e /\ book[d].to # Forever => book[d].to # book[e].to
    /\ \A e \in Live(book) : book[e].to # Forever =>
           \E s \in Live(book) : book[s].from = book[e].to + 1
    /\ \A e \in Live(book) : book[e].from <= book[e].to

(* No two entries of a book start at one time. *)
Apart(book) == \A d, e \in Live(book) : d # e => book[d].from # book[e].from

(* The inductive invariant. *)
CostInv ==
    /\ CostTypeOK
    /\ MadeApart
    /\ \A w \in Bookers : FreshId(w) /\ Bounded(booking[w]) /\ Current(booking[w])
    /\ StartsDistinct
    /\ ~raced /\ ~limited /\ ~advanced => Chained(costs)

-----------------------------------------------------------------------------

(* A bounded set of numbers that is not empty has a greatest element. *)
LEMMA MaxExists ==
  ASSUME NEW S \in SUBSET Nat, S # {}, NEW n \in Nat, \A s \in S : s <= n
  PROVE  \E m \in S : \A s \in S : s <= m
  <1> DEFINE T == {n - s : s \in S}
  <1>1. T \subseteq Nat /\ T # {}
    <2>1. \A s \in S : n - s \in Nat
      OBVIOUS
    <2>2. PICK s \in S : TRUE
      OBVIOUS
    <2>3. n - s \in T
      BY <2>2
    <2> QED  BY <2>1, <2>3
  <1>2. PICK x \in T : \A y \in T : ~(<<y, x>> \in OpToRel(<, Nat))
    <2> HIDE DEF T
    <2> QED  BY <1>1, NatLessThanWellFounded, WFMin
  <1>3. \A y \in T : ~(y < x)
    BY <1>1, <1>2 DEF OpToRel
  <1>4. PICK m \in S : x = n - m
    OBVIOUS
  <1>5. \A s \in S : n - s \in T
    OBVIOUS
  <1> QED  BY <1>3, <1>4, <1>5

(* The bounds and the marks Forever and Same are numbers. *)
LEMMA Numbers ==
  /\ LastTime \in Nat /\ Forever = LastTime + 1 /\ Same = -2 /\ Times = 0..LastTime
  /\ Cardinality(Entries) \in Nat
  BY CostAssumption, FS_CardinalityType DEF Forever, Same, Times

(* As many rows are made as there are ids, at most. *)
LEMMA MadeType == Made \in 0..Cardinality(Entries)
  BY CostAssumption, FS_CardinalityType, FS_Subset DEF Made

(* A book of typed rows in which the order of insertion tells entries      *)
(* apart.                                                                  *)
BookOK(book) ==
    /\ book \in [Entries -> Cost]
    /\ \A d, e \in Live(book) : d # e => book[d].made # book[e].made

(* Among some entries of a book there is one that starts latest, by the    *)
(* order that findFirst uses: the start, then the time of insertion.       *)
LEMMA LatestExists ==
  ASSUME NEW book, BookOK(book), NEW found \in SUBSET Live(book), found # {}
  PROVE  \E e \in found : \A d \in found \ {e} : StartsAfter(book[e], book[d])
  <1> DEFINE F == {book[e].from : e \in found}
  <1>0. \A e \in found : /\ e \in Entries /\ book[e].from \in 0..LastTime
                         /\ book[e].made \in 0..Cardinality(Entries)
    BY DEF BookOK, Live, Cost, Times
  <1>1. F \in SUBSET Nat /\ F # {} /\ \A s \in F : s <= LastTime
    BY <1>0, Numbers
  <1>2. PICK m \in F : \A s \in F : s <= m
    <2> HIDE DEF F
    <2> QED  BY <1>1, MaxExists, Numbers
  <1> DEFINE S == {e \in found : book[e].from = m}
             M == {book[e].made : e \in S}
  <1>3. M \in SUBSET Nat /\ M # {} /\ \A s \in M : s <= Cardinality(Entries)
    <2>1. m \in {book[e].from : e \in found}
      BY <1>2
    <2>2. PICK e \in found : book[e].from = m
      BY <2>1
    <2>3. e \in S
      BY <2>2
    <2>4. book[e].made \in M
      BY <2>3
    <2>5. \A d \in S : book[d].made \in Nat /\ book[d].made <= Cardinality(Entries)
      BY <1>0, Numbers
    <2> QED  BY <2>4, <2>5
  <1>4. PICK k \in M : \A s \in M : s <= k
    <2> HIDE DEF M
    <2> QED  BY <1>3, MaxExists, Numbers
  <1>5. PICK e \in S : book[e].made = k
    BY <1>4
  <1>6. ASSUME NEW d \in found \ {e} PROVE StartsAfter(book[e], book[d])
    <2>1. book[d].from <= m /\ book[e].from = m /\ m \in Nat /\ book[d].from \in Nat
      BY <1>0, <1>1, <1>2, <1>5, <1>6
    <2>2. CASE book[d].from < m
      BY <2>1, <2>2 DEF StartsAfter
    <2>3. CASE book[d].from = m
      <3>1. book[d].made <= k
        BY <1>4, <1>6, <2>3
      <3>2. book[d].made # book[e].made
        BY <1>5, <1>6 DEF BookOK
      <3>3. book[d].made \in Nat /\ book[e].made \in Nat
        BY <1>0, <1>5, <1>6
      <3> QED  BY <1>5, <2>1, <2>3, <3>1, <3>2, <3>3 DEF StartsAfter
    <2> QED  BY <2>1, <2>2, <2>3
  <1> QED  BY <1>5, <1>6

(* What EntryForPeriod returns: nothing if nothing covers t, and otherwise *)
(* the latest start of what covers it.                                     *)
LEMMA EntryFound ==
  ASSUME NEW book, BookOK(book), NEW among \in SUBSET Live(book), NEW t
  PROVE  LET p == EntryForPeriod(book, among, t)
         IN  \/ p = NoEntry /\ \A e \in among : ~Covers(book[e], t)
             \/ /\ p \in among /\ Covers(book[p], t)
                /\ \A d \in among \ {p} : Covers(book[d], t) => StartsAfter(book[p], book[d])
  <1> DEFINE found == {e \in among : Covers(book[e], t)}
             p == EntryForPeriod(book, among, t)
  <1>1. CASE found = {}
    BY <1>1 DEF EntryForPeriod
  <1>2. CASE found # {}
    <2>1. \E e \in found : \A d \in found \ {e} : StartsAfter(book[e], book[d])
      <3> HIDE DEF p
      <3>1. found \in SUBSET Live(book)
        OBVIOUS
      <3> HIDE DEF found
      <3> QED  BY <1>2, <3>1, LatestExists
    <2>2. p = CHOOSE e \in found : \A d \in found \ {e} : StartsAfter(book[e], book[d])
      BY <1>2 DEF EntryForPeriod
    <2>3. p \in found /\ \A d \in found \ {p} : StartsAfter(book[p], book[d])
      <3> HIDE DEF p, found
      <3> QED  BY <2>1, <2>2
    <2> QED  BY <2>3
  <1> QED  BY <1>1, <1>2

-----------------------------------------------------------------------------
(* The books a transaction writes, row by row.                             *)

(* Typed rows, and the changes of a row that keep its type. *)
LEMMA CostFields ==
  ASSUME NEW c \in Cost
  PROVE  /\ c.from \in 0..LastTime /\ c.to \in -1..(LastTime + 1)
         /\ c.made \in 0..Cardinality(Entries) /\ c.live \in {"unused", "live", "deleted"}
         /\ \A f \in Times : [c EXCEPT !.from = f] \in Cost
         /\ \A t \in -1..Forever : [c EXCEPT !.to = t] \in Cost
         /\ \A l \in {"unused", "live", "deleted"} : [c EXCEPT !.live = l] \in Cost
  BY DEF Cost, Times, Forever

(* The fields of a request. *)
LEMMA BookingFields ==
  ASSUME NEW b \in Booking
  PROVE  /\ b.op \in {"none", "create", "update", "remove"}
         /\ b.phase \in {"idle", "checked", "picked"}
         /\ b.id \in Entries \cup {NoEntry}
         /\ b.old \in 0..LastTime /\ b.from \in 0..LastTime
         /\ b.to \in {-2} \cup (-1..(LastTime + 1))
         /\ b.reopen \in Entries \cup {NoEntry} /\ b.close \in Entries \cup {NoEntry}
         /\ b.alone \in BOOLEAN
  BY DEF Booking, Times, Forever, Same

(* A request that names its row and enters no end before its start. *)
Usable(b) ==
    /\ b \in Booking
    /\ b.op # "none"
    /\ b.id \in Entries
    /\ b.op = "create" => b.to > b.from

(* The entry itself is inserted, changed or deleted; all others stay. *)
LEMMA WrittenShape ==
  ASSUME costs \in [Entries -> Cost], NEW b, Usable(b)
  PROVE  LET seen == Written(costs, b) IN
         /\ seen \in [Entries -> Cost]
         /\ \A e \in Entries \ {b.id} : seen[e] = costs[e]
         /\ b.op = "create" => /\ seen[b.id].from = b.from /\ seen[b.id].to = b.to
                               /\ seen[b.id].made = Made /\ seen[b.id].live = "live"
         /\ b.op = "update" =>
               /\ seen[b.id].from = IF b.from = b.old THEN costs[b.id].from ELSE b.from
               /\ seen[b.id].to = IF b.to = Same THEN costs[b.id].to ELSE b.to
               /\ seen[b.id].made = costs[b.id].made /\ seen[b.id].live = costs[b.id].live
         /\ b.op = "remove" =>
               /\ seen[b.id].from = costs[b.id].from /\ seen[b.id].to = costs[b.id].to
               /\ seen[b.id].made = costs[b.id].made /\ seen[b.id].live = "deleted"
  <1> DEFINE seen == Written(costs, b)
             c == costs[b.id]
  <1>1. b \in Booking /\ b.id \in Entries /\ c \in Cost
    BY DEF Usable
  <1>2. b.op \in {"create", "update", "remove"} /\ b.from \in Times
    BY <1>1, BookingFields DEF Usable, Times
  <1>3. CASE b.op = "create"
    <2> DEFINE row == [from |-> b.from, to |-> b.to, made |-> Made, live |-> "live"]
    <2>1. b.to \in -1..Forever
      BY <1>1, <1>3, BookingFields, Numbers DEF Usable
    <2>2. row \in Cost
      BY <1>2, <2>1, MadeType DEF Cost
    <2>3. seen = [costs EXCEPT ![b.id] = row]
      BY <1>3 DEF Written
    <2>4. row.from = b.from /\ row.to = b.to /\ row.made = Made /\ row.live = "live"
      OBVIOUS
    <2> HIDE DEF row
    <2>5. seen[b.id] = row
      BY <1>1, <2>3
    <2> QED  BY <1>1, <1>3, <2>2, <2>3, <2>4, <2>5
  <1>4. CASE b.op = "update"
    <2> DEFINE f == IF b.from = b.old THEN c.from ELSE b.from
               t == IF b.to = Same THEN c.to ELSE b.to
               mid == [c EXCEPT !.from = f]
               row == [mid EXCEPT !.to = t]
    <2>1. f \in Times /\ t \in -1..Forever
      BY <1>1, <1>2, BookingFields, CostFields, Numbers
    <2>2. mid \in Cost /\ row \in Cost
      <3> HIDE DEF f, t
      <3>1. mid \in Cost
        BY <1>1, <2>1, CostFields
      <3> HIDE DEF mid
      <3> QED  BY <2>1, <3>1, CostFields
    <2>3. row.from = f /\ row.to = t /\ row.made = c.made /\ row.live = c.live
      <3> HIDE DEF f, t, c
      <3> QED  BY <1>1 DEF Cost
    <2>4. seen = [costs EXCEPT ![b.id] = row]
      BY <1>1, <1>4 DEF Written, Cost
    <2> HIDE DEF row
    <2>5. seen[b.id] = row
      BY <1>1, <2>4
    <2> QED  BY <1>1, <1>4, <2>2, <2>3, <2>4, <2>5
  <1>5. CASE b.op = "remove"
    <2> DEFINE row == [c EXCEPT !.live = "deleted"]
    <2>1. row \in Cost
      BY <1>1, CostFields
    <2>2. row.from = c.from /\ row.to = c.to /\ row.made = c.made /\ row.live = "deleted"
      BY <1>1 DEF Cost
    <2>3. seen = [costs EXCEPT ![b.id] = row]
      BY <1>5 DEF Written
    <2> HIDE DEF row
    <2>4. seen[b.id] = row
      BY <1>1, <2>3
    <2> QED  BY <1>1, <1>5, <2>1, <2>2, <2>3, <2>4
  <1> QED  BY <1>2, <1>3, <1>4, <1>5

(* Writing an end date changes the end of one row and nothing else. *)
LEMMA EndsShape ==
  ASSUME NEW book \in [Entries -> Cost], NEW r \in Entries \cup {NoEntry},
         NEW t \in -1..Forever, NEW new,
         new = IF r = NoEntry THEN book ELSE [book EXCEPT ![r].to = t]
  PROVE  /\ new \in [Entries -> Cost]
         /\ \A e \in Entries : /\ new[e].from = book[e].from
                               /\ new[e].made = book[e].made
                               /\ new[e].live = book[e].live
                               /\ new[e].to = IF e = r THEN t ELSE book[e].to
  <1>1. CASE r = NoEntry
    BY <1>1, CostAssumption
  <1>2. CASE r # NoEntry
    <2> DEFINE row == [book[r] EXCEPT !.to = t]
    <2>1. r \in Entries /\ book[r] \in Cost
      BY <1>2
    <2>2. row \in Cost
      BY <2>1, CostFields
    <2>3. row.from = book[r].from /\ row.made = book[r].made /\ row.live = book[r].live /\ row.to = t
      BY <2>1 DEF Cost
    <2>4. new = [book EXCEPT ![r] = row]
      BY <1>2
    <2> HIDE DEF row
    <2> QED  BY <2>1, <2>2, <2>3, <2>4
  <1> QED  BY <1>1, <1>2

(* Reopening a predecessor sets its end to Forever. *)
LEMMA ReopenedShape ==
  ASSUME NEW book \in [Entries -> Cost], NEW r \in Entries \cup {NoEntry}
  PROVE  /\ Reopened(book, r) \in [Entries -> Cost]
         /\ \A e \in Entries : /\ Reopened(book, r)[e].from = book[e].from
                               /\ Reopened(book, r)[e].made = book[e].made
                               /\ Reopened(book, r)[e].live = book[e].live
                               /\ Reopened(book, r)[e].to = IF e = r THEN Forever ELSE book[e].to
  <1>1. Forever \in -1..Forever
    BY Numbers
  <1>2. Reopened(book, r) = IF r = NoEntry THEN book ELSE [book EXCEPT ![r].to = Forever]
    BY DEF Reopened
  <1> QED  BY <1>1, <1>2, EndsShape

(* Ending a predecessor sets its end to the millisecond before. *)
LEMMA ClosedShape ==
  ASSUME NEW book \in [Entries -> Cost], NEW r \in Entries \cup {NoEntry}, NEW from \in Times
  PROVE  /\ Closed(book, r, from) \in [Entries -> Cost]
         /\ \A e \in Entries : /\ Closed(book, r, from)[e].from = book[e].from
                               /\ Closed(book, r, from)[e].made = book[e].made
                               /\ Closed(book, r, from)[e].live = book[e].live
                               /\ Closed(book, r, from)[e].to = IF e = r THEN from - 1 ELSE book[e].to
  <1>1. from - 1 \in -1..Forever
    BY Numbers
  <1>2. Closed(book, r, from) = IF r = NoEntry THEN book ELSE [book EXCEPT ![r].to = from - 1]
    BY DEF Closed
  <1> QED  BY <1>1, <1>2, EndsShape

\* The row an operation acts on is fresh for a create, and there otherwise.
RowFits(b) ==
    /\ b.op = "create" => costs[b.id].live = "unused"
    /\ b.op # "create" => costs[b.id].live = "live"

(* The operations that look for a predecessor to reopen. *)
Reopening(b) == b.op = "remove" \/ (b.op = "update" /\ b.from > b.old)

(* Changes of starts and ends leave the order of insertion alone. *)
LEMMA BookKept ==
  ASSUME NEW book, BookOK(book), NEW new \in [Entries -> Cost],
         \A e \in Entries : new[e].made = book[e].made /\ new[e].live = book[e].live
  PROVE  BookOK(new) /\ Live(new) = Live(book)
  BY DEF BookOK, Live

(* What a transaction sees after its first write is a proper book. *)
LEMMA SeenOK ==
  ASSUME costs \in [Entries -> Cost], MadeApart, NEW b, Usable(b), RowFits(b)
  PROVE  BookOK(Written(costs, b))
  <1> DEFINE seen == Written(costs, b)
  <1>1. b.id \in Entries /\ b.op \in {"create", "update", "remove"}
    BY BookingFields DEF Usable
  <1>2. \A e \in Live(seen) \ {b.id} : e \in Entries /\ costs[e].live = "live" /\ seen[e].made = costs[e].made
    BY WrittenShape DEF Live
  <1>3. \A e \in Live(seen) \ {b.id} : costs[e].made # Made /\ costs[e].made \in Nat
    <2> SUFFICES ASSUME NEW e \in Live(seen) \ {b.id}
                 PROVE  costs[e].made # Made /\ costs[e].made \in Nat
      OBVIOUS
    <2>1. e \in Entries /\ costs[e].live = "live"
      BY <1>2
    <2>2. costs[e].made \in Nat
      <3>1. costs[e] \in Cost
        BY <2>1
      <3>2. costs[e].made \in 0..Cardinality(Entries)
        BY <3>1, CostFields
      <3> QED  BY <3>2, Numbers
    <2>3. costs[e].made < Made /\ Made \in Nat
      BY <2>1, MadeType, Numbers DEF MadeApart
    <2> QED  BY <2>2, <2>3
  <1>4. CASE b.op = "create"
    <2>1. seen[b.id].made = Made
      BY <1>4, WrittenShape
    <2> HIDE DEF seen
    <2>2. \A d, e \in Live(seen) : d # e => seen[d].made # seen[e].made
      BY <1>2, <1>3, <2>1 DEF MadeApart
    <2> QED  BY <2>2, WrittenShape DEF BookOK, seen
  <1>5. CASE b.op # "create"
    <2>1. seen[b.id].made = costs[b.id].made /\ costs[b.id].live # "unused"
      BY <1>1, <1>5, WrittenShape DEF RowFits
    <2> HIDE DEF seen
    <2>2. \A d, e \in Live(seen) : d # e => seen[d].made # seen[e].made
      BY <1>1, <1>2, <2>1 DEF MadeApart
    <2> QED  BY <2>2, WrittenShape DEF BookOK, seen
  <1> QED  BY <1>4, <1>5

(* Which rows the search of a transaction finds.                           *)
LEMMA PickedShape ==
  ASSUME costs \in [Entries -> Cost], MadeApart, NEW b, Usable(b), RowFits(b),
         NEW r \in Reopens(b)
  PROVE  LET seen == Written(costs, b)
             c == Closes(b, r)
         IN  /\ r \in Entries \cup {NoEntry} /\ c \in Entries \cup {NoEntry}
             /\ r # NoEntry => Reopening(b) /\ r \in Live(seen) /\ seen[r].to = b.old - 1
             /\ r = NoEntry /\ Reopening(b) => \A e \in Live(seen) : seen[e].to # b.old - 1
             /\ c # NoEntry => /\ Moves(b) /\ c \in Live(seen) \ {b.id}
                               /\ seen[c].from <= b.from
                               /\ c = r \/ seen[c].to >= b.from
  <1> DEFINE seen == Written(costs, b)
             c == Closes(b, r)
             ended == {e \in Live(seen) : seen[e].to = b.old - 1}
             again == Reopened(seen, r)
             p == EntryForPeriod(again, Live(again) \ {b.id}, b.from)
  <1>1. \A e \in Live(seen) : e \in Entries /\ e # NoEntry
    BY CostAssumption DEF Live
  <1>2. /\ r \in Entries \cup {NoEntry}
        /\ r # NoEntry => Reopening(b) /\ r \in Live(seen) /\ seen[r].to = b.old - 1
        /\ r = NoEntry /\ Reopening(b) => \A e \in Live(seen) : seen[e].to # b.old - 1
    <2>1. CASE ~Reopening(b)
      BY <2>1 DEF Reopening, Reopens
    <2>2. CASE Reopening(b)
      <3>1. r \in IF ended = {} THEN {NoEntry} ELSE ended
        BY <2>2 DEF Reopening, Reopens
      <3> HIDE DEF seen
      <3> QED  BY <1>1, <2>2, <3>1
    <2> QED  BY <2>1, <2>2
  <1>3. seen \in [Entries -> Cost] /\ BookOK(seen)
    BY WrittenShape, SeenOK
  <1>4. /\ again \in [Entries -> Cost]
        /\ \A e \in Entries : /\ again[e].from = seen[e].from /\ again[e].made = seen[e].made
                              /\ again[e].live = seen[e].live
                              /\ again[e].to = IF e = r THEN Forever ELSE seen[e].to
    <2> HIDE DEF seen
    <2> QED  BY <1>2, <1>3, ReopenedShape
  <1>5. BookOK(again) /\ Live(again) = Live(seen)
    <2> HIDE DEF seen, again
    <2> QED  BY <1>3, <1>4, BookKept
  <1>6. p = NoEntry \/ (p \in Live(seen) \ {b.id} /\ Covers(again[p], b.from))
    <2> HIDE DEF again, seen
    <2>1. Live(again) \ {b.id} \in SUBSET Live(again)
      OBVIOUS
    <2> QED  BY <1>5, <2>1, EntryFound
  <1>7. ~Moves(b) => c = NoEntry
    BY DEF Closes
  <1>8. Moves(b) => c = IF p = NoEntry THEN NoEntry ELSE IF again[p].to <= b.from - 1 THEN NoEntry ELSE p
    BY DEF Closes
  <1>9. c # NoEntry => Moves(b) /\ c = p /\ p # NoEntry
    <2> HIDE DEF c, p
    <2> QED  BY <1>7, <1>8
  <1>10. c # NoEntry => /\ Moves(b) /\ c \in Live(seen) \ {b.id} /\ seen[c].from <= b.from
                        /\ c = r \/ seen[c].to >= b.from
    <2> HIDE DEF c, p, again, seen
    <2> QED  BY <1>1, <1>4, <1>6, <1>9 DEF Covers
  <1>11. c \in Entries \cup {NoEntry}
    <2> HIDE DEF c
    <2> QED  BY <1>1, <1>10
  <1> QED  BY <1>2, <1>10, <1>11

-----------------------------------------------------------------------------
(* A commit, row by row.                                                   *)

(* A commit is the write of the entry, then the reopening, then the        *)
(* ending.                                                                 *)
LEMMA ResultShape ==
  ASSUME costs \in [Entries -> Cost], NEW b, Usable(b)
  PROVE  LET seen == Written(costs, b) IN
         /\ Result(b) \in [Entries -> Cost]
         /\ \A e \in Entries :
               /\ Result(b)[e].from = seen[e].from /\ Result(b)[e].made = seen[e].made
               /\ Result(b)[e].live = seen[e].live
               /\ Result(b)[e].to = IF e = b.close THEN b.from - 1
                                    ELSE IF e = b.reopen THEN Forever ELSE seen[e].to
  <1> DEFINE seen == Written(costs, b)
             again == Reopened(seen, b.reopen)
  <1>1. /\ b.reopen \in Entries \cup {NoEntry} /\ b.close \in Entries \cup {NoEntry}
        /\ b.from \in Times
    BY BookingFields DEF Usable, Times
  <1>2. seen \in [Entries -> Cost]
    BY WrittenShape
  <1>3. Result(b) = Closed(again, b.close, b.from)
    BY DEF Result
  <1>4. /\ again \in [Entries -> Cost]
        /\ \A e \in Entries : /\ again[e].from = seen[e].from /\ again[e].made = seen[e].made
                              /\ again[e].live = seen[e].live
                              /\ again[e].to = IF e = b.reopen THEN Forever ELSE seen[e].to
    <2> HIDE DEF seen
    <2> QED  BY <1>1, <1>2, ReopenedShape
  <1> HIDE DEF seen, again
  <1>5. /\ Result(b) \in [Entries -> Cost]
        /\ \A e \in Entries : /\ Result(b)[e].from = again[e].from /\ Result(b)[e].made = again[e].made
                              /\ Result(b)[e].live = again[e].live
                              /\ Result(b)[e].to = IF e = b.close THEN b.from - 1 ELSE again[e].to
    <2>1. again \in [Entries -> Cost]
      BY <1>4
    <2>2. /\ Closed(again, b.close, b.from) \in [Entries -> Cost]
          /\ \A e \in Entries :
                /\ Closed(again, b.close, b.from)[e].from = again[e].from
                /\ Closed(again, b.close, b.from)[e].made = again[e].made
                /\ Closed(again, b.close, b.from)[e].live = again[e].live
                /\ Closed(again, b.close, b.from)[e].to =
                      IF e = b.close THEN b.from - 1 ELSE again[e].to
      BY <1>1, <2>1, ClosedShape
    <2> QED  BY <1>3, <2>2
  <1> QED  BY <1>4, <1>5 DEF seen

(* The entries that are there after a commit. *)
LEMMA LiveAfter ==
  ASSUME costs \in [Entries -> Cost], NEW b, Usable(b), RowFits(b)
  PROVE  /\ Live(Result(b)) = IF b.op = "remove" THEN Live(costs) \ {b.id}
                              ELSE Live(costs) \cup {b.id}
         /\ Live(Written(costs, b)) = Live(Result(b))
         /\ \A e \in Entries : costs[e].live # "unused" => Result(b)[e].live # "unused"
         /\ \A e \in Entries \ {b.id} : Result(b)[e].live = costs[e].live
         /\ Result(b)[b.id].live # "unused"
         /\ Live(costs) \subseteq Entries
  <1> DEFINE seen == Written(costs, b)
  <1>1. \A e \in Entries : Result(b)[e].live = seen[e].live
    BY ResultShape
  <1>2. b.id \in Entries /\ b.op \in {"create", "update", "remove"}
    BY BookingFields DEF Usable
  <1>3. \A e \in Entries \ {b.id} : seen[e] = costs[e]
    BY WrittenShape
  <1>4. /\ b.op \in {"create", "update"} => seen[b.id].live = "live"
        /\ b.op = "remove" => seen[b.id].live = "deleted" /\ costs[b.id].live = "live"
    BY WrittenShape DEF RowFits
  <1> HIDE DEF seen
  <1>5. \A e \in Entries : Result(b)[e].live = IF e = b.id THEN IF b.op = "remove" THEN "deleted" ELSE "live"
                                                 ELSE costs[e].live
    BY <1>1, <1>2, <1>3, <1>4
  <1>6. Live(Result(b)) = IF b.op = "remove" THEN Live(costs) \ {b.id} ELSE Live(costs) \cup {b.id}
    BY <1>2, <1>5 DEF Live
  <1>7. Live(seen) = Live(Result(b))
    BY <1>1 DEF Live
  <1>8. Live(costs) \subseteq Entries
    BY DEF Live
  <1> QED  BY <1>2, <1>5, <1>6, <1>7, <1>8 DEF seen

\* What the transaction knows of the book it commits to.
Known(b) ==
    /\ Usable(b) /\ RowFits(b)
    /\ b.op = "create" => b.old = b.from /\ NoCollision(b.from, {})
    /\ b.op # "create" => costs[b.id].from = b.old
    /\ b.op = "remove" => b.from = b.old
    /\ b.op = "update" => /\ b.from # b.old => NoCollision(b.from, {b.id})
                          /\ b.to = Same \/ b.to > b.from
                          /\ b.to = Same => costs[b.id].to > b.from
    /\ b.reopen \in Reopens(b)
    /\ b.close = Closes(b, b.reopen)

(* The commit of a transaction whose knowledge is current: which entries   *)
(* are there afterwards, and from when to when.                            *)
LEMMA CommitShape ==
  ASSUME costs \in [Entries -> Cost], MadeApart, NEW b, Known(b)
  PROVE  LET new == Result(b) IN
         /\ \A e \in Live(new) \ {b.id} :
               /\ e \in Live(costs) /\ new[e].from = costs[e].from /\ new[e].made = costs[e].made
               /\ new[e].to = IF e = b.close THEN b.from - 1
                              ELSE IF e = b.reopen THEN Forever ELSE costs[e].to
         /\ \A e \in Live(costs) \ {b.id} : e \in Live(new)
         /\ b.id \in Live(new) => /\ b.op # "remove" /\ new[b.id].from = b.from
                                  /\ new[b.id].to > b.from
                                  /\ new[b.id].to = IF b.op = "update" /\ b.to = Same
                                                    THEN costs[b.id].to ELSE b.to
         /\ b.op # "remove" => b.id \in Live(new)
         /\ b.id \in Live(costs) => b.op # "create" /\ costs[b.id].from = b.old
         /\ b.close # NoEntry => /\ Moves(b) /\ b.close \in Live(costs) \ {b.id}
                                 /\ costs[b.close].from <= b.from
                                 /\ b.close = b.reopen \/ costs[b.close].to >= b.from
         /\ b.reopen # NoEntry => /\ Reopening(b) /\ b.reopen \in Live(costs) \ {b.id}
                                  /\ costs[b.reopen].to = b.old - 1
         /\ b.reopen = NoEntry /\ Reopening(b) =>
               \A e \in Live(costs) \ {b.id} : costs[e].to # b.old - 1
  <1> DEFINE seen == Written(costs, b)
             new == Result(b)
  <1>1. /\ Usable(b) /\ RowFits(b) /\ b \in Booking /\ b.id \in Entries
        /\ b.op \in {"create", "update", "remove"}
    BY BookingFields DEF Known, Usable
  <1>2. /\ b.from \in Nat /\ b.old \in Nat /\ b.to \in Int
    BY <1>1, BookingFields, Numbers
  <1>3. \A e \in Entries \ {b.id} : seen[e] = costs[e]
    BY <1>1, WrittenShape
  <1>4. /\ Live(new) = (IF b.op = "remove" THEN Live(costs) \ {b.id} ELSE Live(costs) \cup {b.id})
        /\ Live(seen) = Live(new)
        /\ Live(costs) \subseteq Entries
    BY <1>1, LiveAfter
  <1>5. \A e \in Entries :
           /\ new[e].from = seen[e].from /\ new[e].made = seen[e].made
           /\ new[e].to = IF e = b.close THEN b.from - 1
                          ELSE IF e = b.reopen THEN Forever ELSE seen[e].to
    BY <1>1, ResultShape
  <1>6. /\ b.close # NoEntry => /\ Moves(b) /\ b.close \in Live(seen) \ {b.id}
                                /\ seen[b.close].from <= b.from
                                /\ b.close = b.reopen \/ seen[b.close].to >= b.from
        /\ b.reopen # NoEntry => Reopening(b) /\ b.reopen \in Live(seen) /\ seen[b.reopen].to = b.old - 1
        /\ b.reopen = NoEntry /\ Reopening(b) => \A e \in Live(seen) : seen[e].to # b.old - 1
    BY <1>1, PickedShape DEF Known
  <1>7. b.op = "update" => /\ seen[b.id].from = b.from
                           /\ seen[b.id].to = IF b.to = Same THEN costs[b.id].to ELSE b.to
    BY <1>1, WrittenShape DEF Known
  <1>8. b.op = "create" => seen[b.id].from = b.from /\ seen[b.id].to = b.to
    BY <1>1, WrittenShape
  <1>9. b.op # "remove" => seen[b.id].to > b.from
    BY <1>1, <1>7, <1>8 DEF Known, Usable
  <1>10. b.reopen # b.id \/ b.reopen = NoEntry
    <2> SUFFICES ASSUME b.reopen = b.id, b.reopen # NoEntry PROVE FALSE
      OBVIOUS
    <2>1. Reopening(b) /\ b.id \in Live(seen) /\ seen[b.id].to = b.old - 1
      BY <1>6
    <2>2. b.op = "update" /\ b.from > b.old
      BY <1>4, <2>1 DEF Reopening
    <2> HIDE DEF seen
    <2> QED  BY <1>2, <1>9, <2>1, <2>2
  <1>11. b.id # NoEntry
    BY <1>1, CostAssumption
  <1>12. b.id \in Live(costs) => b.op # "create" /\ costs[b.id].from = b.old
    BY DEF Known, RowFits, Live
  <1> HIDE DEF seen, new
  <1>13. \A e \in Live(new) \ {b.id} :
               /\ e \in Live(costs) /\ new[e].from = costs[e].from /\ new[e].made = costs[e].made
               /\ new[e].to = IF e = b.close THEN b.from - 1
                              ELSE IF e = b.reopen THEN Forever ELSE costs[e].to
    BY <1>3, <1>4, <1>5
  <1>14. b.id \in Live(new) => /\ b.op # "remove" /\ new[b.id].from = b.from
                               /\ new[b.id].to > b.from
                               /\ new[b.id].to = IF b.op = "update" /\ b.to = Same
                                                 THEN costs[b.id].to ELSE b.to
    <2>1. b.id # b.close
      BY <1>6, <1>11
    <2>2. new[b.id].from = seen[b.id].from /\ new[b.id].to = seen[b.id].to
      BY <1>1, <1>5, <1>10, <1>11, <2>1
    <2> QED  BY <1>1, <1>4, <1>7, <1>8, <1>9, <2>2
  <1>15. b.close # NoEntry => /\ Moves(b) /\ b.close \in Live(costs) \ {b.id}
                              /\ costs[b.close].from <= b.from
                              /\ b.close = b.reopen \/ costs[b.close].to >= b.from
    BY <1>3, <1>4, <1>6
  <1>16. /\ b.reopen # NoEntry => /\ Reopening(b) /\ b.reopen \in Live(costs) \ {b.id}
                                  /\ costs[b.reopen].to = b.old - 1
         /\ b.reopen = NoEntry /\ Reopening(b) =>
               \A e \in Live(costs) \ {b.id} : costs[e].to # b.old - 1
    BY <1>3, <1>4, <1>6, <1>10
  <1> QED  BY <1>4, <1>12, <1>13, <1>14, <1>15, <1>16 DEF new

(* A commit that knows the rows adds no second start at one time. *)
LEMMA CommitApart ==
  ASSUME costs \in [Entries -> Cost], MadeApart, NEW b, Known(b), Apart(costs)
  PROVE  Apart(Result(b))
  <1> DEFINE new == Result(b)
  <1>1. \A e \in Live(new) \ {b.id} : e \in Live(costs) /\ new[e].from = costs[e].from
    BY CommitShape
  <1>2. b.id \in Live(new) => b.op # "remove" /\ new[b.id].from = b.from
    BY CommitShape
  <1>3. b.op # "remove" => \A e \in Live(costs) \ {b.id} : costs[e].from # b.from
    <2>1. b.op \in {"none", "create", "update", "remove"}
      BY BookingFields DEF Known, Usable
    <2>2. CASE b.op = "create"
      BY <2>2 DEF Known, NoCollision
    <2>3. CASE b.op = "update" /\ b.from # b.old
      BY <2>3 DEF Known, NoCollision
    <2>4. CASE b.op = "update" /\ b.from = b.old
      <3>1. b.id \in Live(costs) /\ costs[b.id].from = b.from
        BY <2>4 DEF Known, Usable, RowFits, Live
      <3> QED  BY <3>1 DEF Apart
    <2>5. b.op # "none"
      BY DEF Known, Usable
    <2> QED  BY <2>1, <2>2, <2>3, <2>4, <2>5
  <1> HIDE DEF new
  <1>4. Apart(new)
    BY <1>1, <1>2, <1>3 DEF Apart
  <1> QED  BY <1>4 DEF new

(* Where nobody enters an end or moves a start to an earlier date, a       *)
(* commit leaves each ended entry with a successor right after it: a       *)
(* create ends its predecessor, a removal reopens it, a postponement does  *)
(* both.                                                                   *)
LEMMA CommitChained ==
  ASSUME costs \in [Entries -> Cost], MadeApart, NEW b, Known(b), Chained(costs),
         b.to \in {Same, Forever}, b.from >= b.old
  PROVE  Chained(Result(b))
  <1> DEFINE new == Result(b)
  <1>others. \A e \in Live(new) \ {b.id} :
               /\ e \in Live(costs) /\ new[e].from = costs[e].from
               /\ new[e].to = IF e = b.close THEN b.from - 1
                              ELSE IF e = b.reopen THEN Forever ELSE costs[e].to
    BY CommitShape
  <1>kept. \A e \in Live(costs) \ {b.id} : e \in Live(new)
    BY CommitShape
  <1>id. b.id \in Live(new) => /\ b.op # "remove" /\ new[b.id].from = b.from
                               /\ new[b.id].to > b.from
                               /\ new[b.id].to = IF b.op = "update" /\ b.to = Same
                                                 THEN costs[b.id].to ELSE b.to
    BY CommitShape
  <1>there. b.op # "remove" => b.id \in Live(new)
    BY CommitShape
  <1>was. b.id \in Live(costs) => b.op # "create" /\ costs[b.id].from = b.old
    BY CommitShape
  <1>close. b.close # NoEntry => /\ Moves(b) /\ b.close \in Live(costs) \ {b.id}
                                 /\ costs[b.close].from <= b.from
    BY CommitShape
  <1>reopen. b.reopen # NoEntry => /\ Reopening(b) /\ b.reopen \in Live(costs) \ {b.id}
                                   /\ costs[b.reopen].to = b.old - 1
    BY CommitShape
  <1>none. b.reopen = NoEntry /\ Reopening(b) =>
               \A e \in Live(costs) \ {b.id} : costs[e].to # b.old - 1
    BY CommitShape
  <1>2. /\ b \in Booking /\ b.op \in {"create", "update", "remove"}
        /\ b.from \in 0..LastTime /\ b.old \in 0..LastTime /\ b.id \in Entries
        /\ b.to > b.from \/ b.op # "create"
        /\ b.op = "remove" => b.from = b.old
        /\ b.op = "create" => b.old = b.from
        /\ b.op # "create" => b.id \in Live(costs) /\ costs[b.id].from = b.old
    BY BookingFields DEF Known, Usable, RowFits, Live
  <1>3. \A e \in Live(costs) : /\ costs[e].from \in 0..LastTime /\ costs[e].to \in -1..(LastTime + 1)
                               /\ e \in Entries /\ e # NoEntry
    <2> TAKE e \in Live(costs)
    <2>1. e \in Entries /\ costs[e] \in Cost
      BY DEF Live
    <2> QED  BY <2>1, CostFields, CostAssumption
  <1>4. Moves(b) => \A e \in Live(costs) \ {b.id} : costs[e].from # b.from
    BY DEF Known, NoCollision, Moves
  <1>5. b.id # NoEntry
    BY <1>2, CostAssumption
  <1>6. b.op = "create" => b.to = Forever
    BY <1>2, Numbers
  <1> HIDE DEF new
  \* Whoever ended where the entry started is the one that is reopened.
  <1>7. ASSUME NEW e \in Live(costs) \ {b.id}, Reopening(b), costs[e].to = b.old - 1
        PROVE  e = b.reopen
    <2>1. b.reopen # NoEntry /\ b.reopen \in Live(costs) /\ costs[b.reopen].to = b.old - 1
      BY <1>none, <1>reopen, <1>7
    <2>2. costs[b.reopen].to # Forever
      BY <1>2, <2>1, Numbers
    <2> QED  BY <1>7, <2>1, <2>2 DEF Chained
  \* Nobody ended where the entry starts now.
  <1>8. ASSUME NEW e \in Live(costs), Moves(b), costs[e].to = b.from - 1
        PROVE  FALSE
    <2>1. costs[e].to # Forever
      BY <1>2, <1>8, Numbers
    <2>2. PICK s \in Live(costs) : costs[s].from = costs[e].to + 1
      BY <2>1 DEF Chained
    <2>3. costs[s].from = b.from
      BY <1>2, <1>8, <2>2
    <2>4. s = b.id
      BY <1>4, <1>8, <2>3
    <2> QED  BY <1>was, <1>8, <2>3, <2>4 DEF Moves
  <1>9. ASSUME NEW d \in Live(new), NEW e \in Live(new), d # e,
               new[d].to # Forever, new[d].to = new[e].to
        PROVE  FALSE
    <2>1. ASSUME NEW x \in Live(new), x # b.close, new[x].to # Forever
          PROVE  x \in Live(costs) /\ new[x].to = costs[x].to
      <3>1. CASE x = b.id
        <4>1. ~(b.op = "update" /\ b.to = Same) => new[x].to = Forever
          BY <1>id, <1>2, <1>6, <2>1, <3>1
        <4>2. b.op = "update" /\ b.to = Same
          BY <2>1, <4>1
        <4>3. new[x].to = costs[x].to
          BY <1>id, <2>1, <3>1, <4>2
        <4>4. x \in Live(costs)
          BY <1>2, <3>1, <4>2
        <4> QED  BY <4>3, <4>4
      <3>2. CASE x # b.id
        BY <1>others, <2>1, <3>2
      <3> QED  BY <3>1, <3>2
    <2>2. ASSUME b.close \in Live(new) PROVE Moves(b) /\ new[b.close].to = b.from - 1
      <3>1. b.close # NoEntry
        <4>1. CASE b.close = b.id
          BY <1>5, <4>1
        <4>2. CASE b.close # b.id
          BY <1>others, <1>3, <2>2, <4>2
        <4> QED  BY <4>1, <4>2
      <3> QED  BY <1>close, <1>others, <2>2, <3>1
    <2>3. CASE d = b.close
      BY <1>8, <1>9, <2>1, <2>2, <2>3
    <2>4. CASE e = b.close
      BY <1>8, <1>9, <2>1, <2>2, <2>4
    <2>5. CASE d # b.close /\ e # b.close
      BY <1>9, <2>1, <2>5 DEF Chained
    <2> QED  BY <2>3, <2>4, <2>5
  <1>10. ASSUME NEW e \in Live(new), new[e].to # Forever
         PROVE  \E s \in Live(new) : new[s].from = new[e].to + 1
    <2>1. CASE e = b.close
      <3>1. e # b.id /\ Moves(b)
        <4>1. e # NoEntry
          BY <1>others, <1>3, <1>5, <1>10
        <4> QED  BY <1>close, <2>1, <4>1
      <3>2. new[e].to = b.from - 1
        BY <1>others, <1>10, <2>1, <3>1
      <3>3. b.id \in Live(new) /\ new[b.id].from = b.from
        BY <1>there, <1>id, <3>1 DEF Moves
      <3> QED  BY <1>2, <3>2, <3>3
    <2>2. CASE e # b.close
      <3>1. e \in Live(costs) /\ new[e].to = costs[e].to /\ (e # b.id => e # b.reopen)
        <4>1. CASE e = b.id
          <5>1. ~(b.op = "update" /\ b.to = Same) => new[e].to = Forever
            BY <1>id, <1>2, <1>6, <1>10, <4>1
          <5>2. b.op = "update" /\ b.to = Same
            BY <1>10, <5>1
          <5>3. new[e].to = costs[e].to
            BY <1>id, <1>10, <4>1, <5>2
          <5>4. e \in Live(costs)
            BY <1>2, <4>1, <5>2
          <5> QED  BY <4>1, <5>3, <5>4
        <4>2. CASE e # b.id
          BY <1>others, <1>10, <2>2, <4>2
        <4> QED  BY <4>1, <4>2
      <3>2. PICK s \in Live(costs) : costs[s].from = costs[e].to + 1
        BY <1>10, <3>1 DEF Chained
      <3>3. CASE s # b.id
        <4>1. s \in Live(new) /\ new[s].from = costs[s].from
          BY <1>kept, <1>others, <3>2, <3>3
        <4> QED  BY <3>1, <3>2, <4>1
      <3>4. CASE s = b.id
        <4>1. b.op # "create" /\ costs[e].to = b.old - 1
          <5>1. b.op # "create" /\ costs[b.id].from = b.old
            BY <1>was, <3>2, <3>4
          <5> QED  BY <1>2, <1>3, <3>1, <3>2, <3>4, <5>1
        <4>2. e # b.id
          <5>1. costs[e].from <= costs[e].to
            BY <3>1 DEF Chained
          <5> QED  BY <1>2, <1>3, <3>1, <4>1, <5>1
        <4>3. ~Reopening(b)
          BY <1>7, <3>1, <4>1, <4>2
        <4>4. b.op = "update" /\ b.from = b.old
          BY <1>2, <4>1, <4>3 DEF Reopening
        <4>5. b.id \in Live(new) /\ new[b.id].from = b.from
          BY <1>there, <1>id, <4>4
        <4> QED  BY <1>2, <3>1, <4>1, <4>4, <4>5
      <3> QED  BY <3>3, <3>4
    <2> QED  BY <2>1, <2>2
  <1>11. ASSUME NEW e \in Live(new) PROVE new[e].from <= new[e].to
    <2>1. CASE e = b.id
      <3>1. b.from \in Int /\ new[e].from = b.from /\ new[e].to > b.from
        BY <1>id, <1>2, <1>11, <2>1
      <3>2. new[e].to \in Int
        <4>1. new[e].to \in {costs[b.id].to, Same, Forever} /\ (b.op = "create" => new[e].to = Forever)
          BY <1>id, <1>2, <1>6, <1>11, <2>1
        <4>2. CASE b.op = "create"
          BY <4>1, <4>2, Numbers
        <4>3. CASE b.op # "create"
          BY <1>2, <1>3, <4>1, <4>3, Numbers
        <4> QED  BY <4>2, <4>3
      <3> QED  BY <3>1, <3>2
    <2>2. CASE e # b.id
      <3>1. e \in Live(costs) /\ costs[e].from <= costs[e].to /\ new[e].from = costs[e].from
        BY <1>others, <1>11, <2>2 DEF Chained
      <3>2. CASE e = b.close
        <4>1. e # NoEntry
          BY <1>3, <3>1
        <4>2. costs[e].from <= b.from /\ costs[e].from # b.from /\ new[e].to = b.from - 1
          <5>1. Moves(b) /\ costs[e].from <= b.from
            BY <1>close, <3>2, <4>1
          <5>2. costs[e].from # b.from
            BY <1>4, <2>2, <3>1, <5>1
          <5>3. new[e].to = b.from - 1
            BY <1>others, <1>11, <2>2, <3>2
          <5> QED  BY <5>1, <5>2, <5>3
        <4> QED  BY <1>2, <1>3, <3>1, <4>2
      <3>3. CASE e # b.close
        <4>1. new[e].to = IF e = b.reopen THEN Forever ELSE costs[e].to
          BY <1>others, <1>11, <2>2, <3>3
        <4> QED  BY <1>3, <3>1, <4>1, Numbers
      <3> QED  BY <3>2, <3>3
    <2> QED  BY <2>1, <2>2
  <1>12. Chained(new)
    BY <1>9, <1>10, <1>11 DEF Chained
  <1> QED  BY <1>12 DEF new

(* Before the earlier of its two dates, a commit moves nothing.            *)
LEMMA CommitKeepsPast ==
  ASSUME costs \in [Entries -> Cost], MadeApart, NEW b, Known(b), BookOK(Result(b)),
         NEW t \in Times, t < b.old, t < b.from
  PROVE  Applies(Result(b), t) = Applies(costs, t)
  <1> DEFINE new == Result(b)
             p == Applies(costs, t)
             q == Applies(new, t)
  <1>others. \A e \in Live(new) \ {b.id} :
               /\ e \in Live(costs) /\ new[e].from = costs[e].from /\ new[e].made = costs[e].made
               /\ new[e].to = IF e = b.close THEN b.from - 1
                              ELSE IF e = b.reopen THEN Forever ELSE costs[e].to
    BY CommitShape
  <1>kept. \A e \in Live(costs) \ {b.id} : e \in Live(new)
    BY CommitShape
  <1>id. b.id \in Live(new) => new[b.id].from = b.from
    BY CommitShape
  <1>was. b.id \in Live(costs) => costs[b.id].from = b.old
    BY CommitShape
  <1>close. b.close # NoEntry => b.close = b.reopen \/ costs[b.close].to >= b.from
    BY CommitShape
  <1>reopen. b.reopen # NoEntry => costs[b.reopen].to = b.old - 1
    BY CommitShape
  <1>1. b.from \in 0..LastTime /\ b.old \in 0..LastTime /\ t \in 0..LastTime /\ LastTime \in Nat
    BY BookingFields, Numbers DEF Known, Usable
  <1>2. \A e \in Live(costs) : /\ costs[e].from \in Nat /\ costs[e].to \in Int
                               /\ costs[e].made \in Nat /\ e # NoEntry
    <2> TAKE e \in Live(costs)
    <2>1. e \in Entries /\ costs[e] \in Cost /\ e # NoEntry
      BY CostAssumption DEF Live
    <2>2. costs[e].from \in 0..LastTime /\ costs[e].to \in -1..(LastTime + 1)
          /\ costs[e].made \in 0..Cardinality(Entries)
      BY <2>1, CostFields
    <2> QED  BY <2>1, <2>2, Numbers
  <1>3. BookOK(costs)
    BY DEF BookOK, MadeApart, Live
  <1>4. \/ p = NoEntry /\ \A e \in Live(costs) : ~Covers(costs[e], t)
        \/ /\ p \in Live(costs) /\ Covers(costs[p], t)
           /\ \A d \in Live(costs) \ {p} : Covers(costs[d], t) => StartsAfter(costs[p], costs[d])
    BY <1>3, EntryFound DEF Applies
  <1>5. \/ q = NoEntry /\ \A e \in Live(new) : ~Covers(new[e], t)
        \/ /\ q \in Live(new) /\ Covers(new[q], t)
           /\ \A d \in Live(new) \ {q} : Covers(new[d], t) => StartsAfter(new[q], new[d])
    BY EntryFound DEF Applies
  <1> HIDE DEF new, p, q
  <1>6. ASSUME NEW e \in Live(new), Covers(new[e], t)
        PROVE  /\ e \in Live(costs) /\ Covers(costs[e], t)
               /\ new[e].from = costs[e].from /\ new[e].made = costs[e].made
    <2>1. e # b.id
      BY <1>id, <1>1, <1>6 DEF Covers
    <2>2. e \in Live(costs) /\ new[e].from = costs[e].from /\ new[e].made = costs[e].made
      BY <1>others, <1>6, <2>1
    <2>3. t <= costs[e].to
      <3>1. CASE e = b.close /\ e # b.reopen
        BY <1>close, <1>1, <1>2, <2>2, <3>1
      <3>2. CASE e = b.reopen
        BY <1>reopen, <1>1, <1>2, <2>2, <3>2
      <3>3. CASE e # b.close /\ e # b.reopen
        BY <1>others, <1>6, <2>1, <3>3 DEF Covers
      <3> QED  BY <3>1, <3>2, <3>3
    <2> QED  BY <1>6, <2>2, <2>3 DEF Covers
  <1>7. ASSUME NEW e \in Live(costs), Covers(costs[e], t)
        PROVE  e \in Live(new) /\ Covers(new[e], t)
    <2>1. e # b.id
      BY <1>was, <1>1, <1>7 DEF Covers
    <2>2. e \in Live(new)
      BY <1>kept, <1>7, <2>1
    <2>3. new[e].from = costs[e].from /\ new[e].to \in {b.from - 1, Forever, costs[e].to}
      BY <1>others, <2>1, <2>2
    <2> QED  BY <1>1, <1>2, <1>7, <2>2, <2>3, Numbers DEF Covers
  <1>8. p = q
    <2>1. CASE p = NoEntry
      BY <1>2, <1>4, <1>5, <1>6, <2>1
    <2>2. CASE q = NoEntry
      BY <1>2, <1>4, <1>5, <1>6, <1>7, <2>2
    <2>3. CASE p # NoEntry /\ q # NoEntry
      <3>1. p \in Live(new) /\ Covers(new[p], t) /\ new[p].from = costs[p].from /\ new[p].made = costs[p].made
        BY <1>4, <1>6, <1>7, <2>3
      <3>2. q \in Live(costs) /\ Covers(costs[q], t) /\ new[q].from = costs[q].from /\ new[q].made = costs[q].made
        BY <1>5, <1>6, <2>3
      <3>3. p # q => StartsAfter(costs[p], costs[q]) /\ StartsAfter(new[q], new[p])
        BY <1>4, <1>5, <2>3, <3>1, <3>2
      <3>4. p \in Live(costs)
        BY <1>4, <2>3
      <3> QED  BY <1>2, <3>1, <3>2, <3>3, <3>4 DEF StartsAfter
    <2> QED  BY <2>1, <2>2, <2>3
  <1> QED  BY <1>8 DEF p, q, new

-----------------------------------------------------------------------------
(* The steps.                                                              *)

(* Changes of a request that keep its type. *)
LEMMA BookingChanges ==
  ASSUME NEW b \in Booking
  PROVE  /\ [b EXCEPT !.alone = FALSE] \in Booking
         /\ \A e \in Entries \cup {NoEntry} : [b EXCEPT !.id = e] \in Booking
         /\ \A r, c \in Entries \cup {NoEntry} :
               [b EXCEPT !.phase = "picked", !.reopen = r, !.close = c] \in Booking
  BY DEF Booking

(* A request that is over is typed. *)
LEMMA IdleType == Idle \in Booking
  BY Numbers DEF Idle, Booking, Times

(* What a request knows depends on the rows alone.                         *)
LEMMA CurrentStays ==
  ASSUME NEW v, NEW b, booking'[v] = b, costs' = costs, Current(b)
  PROVE  Current(booking[v])'
  <1>1. Live(costs)' = Live(costs) /\ Made' = Made
    BY DEF Live, Made
  <1>2. Reopens(booking[v])' = Reopens(b)
    BY <1>1 DEF Reopens, Written, Live
  <1>3. Closes(booking[v], booking[v].reopen)' = Closes(b, b.reopen)
    BY <1>1 DEF Closes, Moves, Written, Reopened, Live
  <1> QED  BY <1>1, <1>2, <1>3 DEF Current, NoCollision

(* A step that changes the request of w only.                              *)
LEMMA RequestStep ==
  ASSUME CostInv, NEW w \in Bookers, NEW b \in Booking,
         booking' = [booking EXCEPT ![w] = b], costs' = costs, raced' = raced,
         booked' \in 0..MaxBookings,
         limited' \in BOOLEAN, advanced' \in BOOLEAN,
         limited => limited', advanced => advanced',
         Bounded(booking[w])', Current(b), FreshId(w)',
         b.id \in Entries /\ b.id # booking[w].id =>
            costs[b.id].live = "live" \/ \A v \in Bookers : booking[v].id # b.id
  PROVE  CostInv'
  <1>1. /\ costs \in [Entries -> Cost] /\ booking \in [Bookers -> Booking]
        /\ \A v \in Bookers : FreshId(v) /\ Bounded(booking[v]) /\ Current(booking[v])
    BY DEF CostInv, CostTypeOK
  <1>2. booking'[w] = b /\ \A v \in Bookers \ {w} : booking'[v] = booking[v]
    BY <1>1
  <1>3. CostTypeOK'
    BY <1>1 DEF CostInv, CostTypeOK
  <1>4. MadeApart'
    BY DEF CostInv, MadeApart, Made
  <1>5. StartsDistinct'
    BY DEF CostInv, StartsDistinct, Live
  <1>6. (~raced /\ ~limited /\ ~advanced => Chained(costs))'
    BY DEF CostInv, Chained, Live
  <1>7. ASSUME NEW v \in Bookers \ {w}
        PROVE  FreshId(v)' /\ Bounded(booking[v])' /\ Current(booking[v])'
    <2>1. booking'[v] = booking[v] /\ FreshId(v) /\ Bounded(booking[v]) /\ Current(booking[v])
      BY <1>1, <1>2
    <2>2. Current(booking[v])'
      BY <2>1, CurrentStays
    <2>3. Bounded(booking[v])'
      BY <2>1 DEF Bounded
    <2>4. FreshId(v)'
      <3> SUFFICES ASSUME booking'[v].phase = "picked", booking'[v].op = "create"
                   PROVE  /\ booking'[v].id \in Entries /\ costs'[booking'[v].id].live = "unused"
                          /\ \A u \in Bookers \ {v} : booking'[u].id # booking'[v].id
        BY DEF FreshId
      <3>1. /\ booking[v].id \in Entries /\ costs[booking[v].id].live = "unused"
            /\ \A u \in Bookers \ {v} : booking[u].id # booking[v].id
        BY <2>1 DEF FreshId
      <3>2. b.id # booking[v].id
        BY <1>7, <3>1
      <3> QED  BY <1>2, <2>1, <3>1, <3>2
    <2> QED  BY <2>2, <2>3, <2>4
  <1>8. Current(booking[w])'
    BY <1>2, CurrentStays
  <1> QED  BY <1>3, <1>4, <1>5, <1>6, <1>7, <1>8 DEF CostInv

(* The start of a create keeps the invariant: no live entry starts where   *)
(* it will.                                                                *)
LEMMA BeginCreateStep ==
  ASSUME CostInv, NEW w \in Bookers, BeginCreate(w)
  PROVE  CostInv'
  <1>1. PICK from \in Times, to \in Times \cup {Forever} :
           /\ to > from
           /\ NoCollision(from, {})
           /\ booking' = [booking EXCEPT ![w] =
                 [Idle EXCEPT !.op = "create", !.phase = "checked", !.old = from,
                              !.from = from, !.to = to]]
           /\ limited' = (limited \/ to # Forever)
    BY DEF BeginCreate
  <1> DEFINE b == [Idle EXCEPT !.op = "create", !.phase = "checked", !.old = from,
                               !.from = from, !.to = to]
  <1>2. /\ b.op = "create" /\ b.phase = "checked" /\ b.old = from /\ b.from = from /\ b.to = to
        /\ b.id = NoEntry /\ b.alone = TRUE
    BY DEF Idle
  <1>3. b \in Booking
    <2>1. from \in Times /\ to \in -1..Forever
      BY Numbers
    <2> QED  BY <2>1 DEF Idle, Booking
  <1>4. booking'[w] = b /\ booking' = [booking EXCEPT ![w] = b]
    BY <1>1 DEF CostInv, CostTypeOK
  <1> HIDE DEF b
  <1>5. Bounded(booking[w])'
    <2>1. ~limited' => to = Forever
      BY <1>1
    <2>2. from >= from
      BY Numbers
    <2> QED  BY <1>1, <1>2, <1>4, <2>1, <2>2 DEF Bounded
  <1>6. Current(b)
    BY <1>1, <1>2 DEF Current
  <1>7. FreshId(w)'
    BY <1>2, <1>4 DEF FreshId
  <1>8. /\ costs' = costs /\ raced' = raced /\ advanced' = advanced /\ booked' \in 0..MaxBookings
        /\ limited' \in BOOLEAN /\ advanced' \in BOOLEAN /\ (limited => limited')
    BY <1>1, CostAssumption DEF BeginCreate, Begin, CostInv, CostTypeOK
  <1>9. b.id \notin Entries
    BY <1>2, CostAssumption
  <1> QED  BY <1>3, <1>4, <1>5, <1>6, <1>7, <1>8, <1>9, RequestStep

(* The start of an update keeps the invariant, whether it moves the start, *)
(* the end or clamps an end that the start passes.                         *)
LEMMA BeginUpdateStep ==
  ASSUME CostInv, NEW w \in Bookers, BeginUpdate(w)
  PROVE  CostInv'
  <1>1. PICK e \in Live(costs), from \in Times, to \in Times \cup {Forever, Same} :
           /\ from # costs[e].from => NoCollision(from, {e})
           /\ booking' = [booking EXCEPT ![w] =
                 [Idle EXCEPT !.op = "update", !.phase = "checked", !.id = e,
                              !.old = costs[e].from, !.from = from,
                              !.to = WrittenTo(costs[e], from, to)]]
           /\ limited' = (limited \/ to \in Times)
           /\ advanced' = (advanced \/ from < costs[e].from)
    BY DEF BeginUpdate
  <1> DEFINE c == costs[e]
             b == [Idle EXCEPT !.op = "update", !.phase = "checked", !.id = e,
                               !.old = costs[e].from, !.from = from,
                               !.to = WrittenTo(costs[e], from, to)]
  <1>2. /\ b.op = "update" /\ b.phase = "checked" /\ b.old = costs[e].from /\ b.from = from
        /\ b.to = WrittenTo(costs[e], from, to) /\ b.id = e /\ b.alone = TRUE
    BY DEF Idle
  <1>3. /\ e \in Entries /\ c \in Cost /\ costs[e].live = "live"
    BY DEF Live, CostInv, CostTypeOK
  <1>4. /\ costs[e].from \in 0..LastTime /\ costs[e].to \in -1..(LastTime + 1)
    BY <1>3, CostFields
  <1>5. /\ b.to \in {Same, Forever} \cup Times
        /\ b.to = Same \/ b.to > b.from
        /\ b.to = Same => costs[e].to > from
        /\ to \notin Times => b.to \in {Same, Forever}
    <2> DEFINE x == WrittenTo(costs[e], from, to)
               y == FinalTo(costs[e], from, to)
    <2>1. x = IF y <= from THEN Forever ELSE to
      BY DEF WrittenTo
    <2>2. y = IF to = Same THEN costs[e].to ELSE to
      BY DEF FinalTo
    <2> HIDE DEF x, y, b
    <2>3. x \in {Same, Forever} \cup Times /\ (x = Same \/ x > from) /\ (x = Same => costs[e].to > from)
      BY <1>4, <2>1, <2>2, Numbers
    <2>4. to \notin Times => x \in {Same, Forever}
      BY <1>1, <2>1
    <2> QED  BY <1>2, <2>3, <2>4 DEF x
  <1>6. b \in Booking
    <2>1. costs[e].from \in Times /\ b.to \in {Same} \cup (-1..Forever)
      BY <1>4, <1>5, Numbers
    <2> QED  BY <1>2, <1>3, <2>1 DEF Idle, Booking
  <1>7. booking'[w] = b /\ booking' = [booking EXCEPT ![w] = b]
    BY <1>1 DEF CostInv, CostTypeOK
  <1> HIDE DEF b, c
  <1>8. Bounded(booking[w])'
    <2>1. ~limited' => b.to \in {Same, Forever}
      BY <1>1, <1>5
    <2>2. ~advanced' => b.from >= b.old
      <3>1. ~advanced' => ~(from < costs[e].from)
        BY <1>1
      <3> QED  BY <1>2, <1>4, <3>1, Numbers
    <2> QED  BY <1>2, <1>3, <1>5, <1>7, <2>1, <2>2 DEF Bounded
  <1>9. Current(b)
    BY <1>1, <1>2, <1>5 DEF Current
  <1>10. FreshId(w)'
    BY <1>2, <1>7 DEF FreshId
  <1>11. /\ costs' = costs /\ raced' = raced /\ booked' \in 0..MaxBookings
         /\ limited' \in BOOLEAN /\ advanced' \in BOOLEAN
         /\ (limited => limited') /\ (advanced => advanced')
    BY <1>1, CostAssumption DEF BeginUpdate, Begin, CostInv, CostTypeOK
  <1>12. costs[b.id].live = "live"
    BY <1>2, <1>3
  <1> QED  BY <1>6, <1>7, <1>8, <1>9, <1>10, <1>11, <1>12, RequestStep

(* The start of a removal keeps the invariant. *)
LEMMA BeginRemoveStep ==
  ASSUME CostInv, NEW w \in Bookers, BeginRemove(w)
  PROVE  CostInv'
  <1>1. PICK e \in Live(costs) :
          booking' = [booking EXCEPT ![w] =
            [Idle EXCEPT !.op = "remove", !.phase = "checked", !.id = e,
                         !.old = costs[e].from, !.from = costs[e].from]]
    BY DEF BeginRemove
  <1> DEFINE b == [Idle EXCEPT !.op = "remove", !.phase = "checked", !.id = e,
                               !.old = costs[e].from, !.from = costs[e].from]
  <1>2. /\ b.op = "remove" /\ b.phase = "checked" /\ b.old = costs[e].from /\ b.from = costs[e].from
        /\ b.to = Same /\ b.id = e /\ b.alone = TRUE
    BY DEF Idle
  <1>3. e \in Entries /\ costs[e] \in Cost /\ costs[e].live = "live"
    BY DEF Live, CostInv, CostTypeOK
  <1>4. costs[e].from \in 0..LastTime
    BY <1>3, CostFields
  <1>5. b \in Booking
    BY <1>3, <1>4, Numbers DEF Idle, Booking
  <1>6. booking'[w] = b /\ booking' = [booking EXCEPT ![w] = b]
    BY <1>1 DEF CostInv, CostTypeOK
  <1> HIDE DEF b
  <1>7. Bounded(booking[w])'
    BY <1>2, <1>3, <1>4, <1>6, Numbers DEF Bounded
  <1>8. Current(b)
    BY <1>2 DEF Current
  <1>9. FreshId(w)'
    BY <1>2, <1>6 DEF FreshId
  <1>10. /\ costs' = costs /\ raced' = raced /\ booked' \in 0..MaxBookings
         /\ limited' = limited /\ advanced' = advanced
         /\ limited' \in BOOLEAN /\ advanced' \in BOOLEAN
    BY CostAssumption DEF BeginRemove, Begin, CostInv, CostTypeOK
  <1>11. costs[b.id].live = "live"
    BY <1>2, <1>3
  <1> QED  BY <1>5, <1>6, <1>7, <1>8, <1>9, <1>10, <1>11, RequestStep

(* A transaction that fails leaves no trace. *)
LEMMA RollbackStep ==
  ASSUME CostInv, NEW w \in Bookers, Rollback(w)
  PROVE  CostInv'
  <1>1. booking'[w] = Idle /\ booking' = [booking EXCEPT ![w] = Idle]
    BY DEF Rollback, CostInv, CostTypeOK
  <1>2. /\ costs' = costs /\ raced' = raced /\ booked' = booked /\ limited' = limited
        /\ advanced' = advanced /\ limited' \in BOOLEAN /\ advanced' \in BOOLEAN
        /\ booked' \in 0..MaxBookings
    BY DEF Rollback, CostInv, CostTypeOK
  <1>3. Bounded(booking[w])' /\ Current(Idle) /\ FreshId(w)'
    BY <1>1, Numbers DEF Bounded, Current, FreshId, Idle
  <1>4. Idle.id \notin Entries
    BY CostAssumption DEF Idle
  <1> QED  BY <1>1, <1>2, <1>3, <1>4, IdleType, RequestStep

(* The first write and the search for predecessors keep the invariant: the *)
(* row lock makes the picked row the request's own.                        *)
LEMMA PickStep ==
  ASSUME CostInv, NEW w \in Bookers, Pick(w)
  PROVE  CostInv'
  <1> DEFINE b0 == booking[w]
  <1>1. /\ b0.phase = "checked" /\ b0 \in Booking /\ Bounded(b0) /\ Current(b0)
        /\ costs \in [Entries -> Cost] /\ MadeApart
    BY DEF Pick, CostInv, CostTypeOK
  <1>2. PICK e \in RowsFor(b0) :
          LET b == [b0 EXCEPT !.id = e] IN
          /\ b.op # "create" => costs[e].live = "live"
          /\ \E r \in Reopens(b) :
                booking' = [booking EXCEPT ![w] =
                    [b EXCEPT !.phase = "picked", !.reopen = r, !.close = Closes(b, r)]]
    BY DEF Pick
  <1> DEFINE b == [b0 EXCEPT !.id = e]
  <1>3. PICK r \in Reopens(b) :
           booking' = [booking EXCEPT ![w] =
                    [b EXCEPT !.phase = "picked", !.reopen = r, !.close = Closes(b, r)]]
    BY <1>2
  <1> DEFINE n == [b EXCEPT !.phase = "picked", !.reopen = r, !.close = Closes(b, r)]
  <1>4. /\ b0.op # "create" => e = b0.id /\ e \in Entries
        /\ b0.op = "create" => e \in Entries /\ costs[e].live = "unused"
                               /\ \A v \in Bookers : booking[v].id # e
    BY <1>1 DEF RowsFor, Bounded
  <1>5. /\ b \in Booking /\ b.id = e /\ b.op = b0.op /\ b.old = b0.old /\ b.from = b0.from
        /\ b.to = b0.to /\ b.alone = b0.alone
    <2> HIDE DEF b0
    <2> QED  BY <1>1, <1>4 DEF Booking
  <1>6. b.op # "create" => costs[e].live = "live"
    BY <1>2
  <1> HIDE DEF b
  <1>7. Usable(b)
    BY <1>1, <1>4, <1>5 DEF Usable, Bounded
  <1>8. RowFits(b)
    BY <1>4, <1>5, <1>6 DEF RowFits
  <1>9. r \in Entries \cup {NoEntry} /\ Closes(b, r) \in Entries \cup {NoEntry}
    BY <1>1, <1>7, <1>8, PickedShape
  <1>10. /\ n \in Booking /\ n.id = e /\ n.op = b0.op /\ n.old = b0.old /\ n.from = b0.from
         /\ n.to = b0.to /\ n.alone = b0.alone /\ n.phase = "picked" /\ n.reopen = r
         /\ n.close = Closes(b, r)
    <2> DEFINE c == Closes(b, r)
    <2> HIDE DEF c, b0
    <2>1. n \in Booking
      BY <1>5, <1>9, BookingChanges DEF c
    <2> QED  BY <1>5, <2>1 DEF Booking, c
  <1>11. booking'[w] = n /\ booking' = [booking EXCEPT ![w] = n]
    BY <1>3 DEF CostInv, CostTypeOK
  <1> HIDE DEF n
  \* The search does not look at what it fills in.
  <1>12. Reopens(n) = Reopens(b) /\ Closes(n, r) = Closes(b, r)
    <2>1. Written(costs, n) = Written(costs, b)
      BY <1>5, <1>10 DEF Written
    <2> QED  BY <1>5, <1>10, <2>1 DEF Reopens, Closes, Moves
  <1>13. Bounded(booking[w])'
    <2>1. /\ limited' = limited /\ advanced' = advanced /\ booking'[w] = n
      BY <1>11 DEF Pick
    <2> QED  BY <1>1, <1>4, <1>10, <2>1 DEF Bounded
  <1>14. Current(n)
    BY <1>1, <1>4, <1>10, <1>12 DEF Current
  <1>15. FreshId(w)'
    <2>1. costs' = costs /\ \A v \in Bookers \ {w} : booking'[v] = booking[v]
      BY <1>11 DEF Pick, CostInv, CostTypeOK
    <2> QED  BY <1>4, <1>10, <1>11, <2>1 DEF FreshId
  <1>16. /\ costs' = costs /\ raced' = raced /\ booked' = booked /\ limited' = limited
         /\ advanced' = advanced /\ limited' \in BOOLEAN /\ advanced' \in BOOLEAN
         /\ booked' \in 0..MaxBookings
    BY DEF Pick, CostInv, CostTypeOK
  <1>17. n.id # booking[w].id => \A v \in Bookers : booking[v].id # n.id
    BY <1>4, <1>10
  <1> QED  BY <1>10, <1>11, <1>13, <1>14, <1>15, <1>16, <1>17, RequestStep

\* A transaction that may commit fits the book, whoever committed meanwhile.
LEMMA CommitFits ==
  ASSUME CostInv, NEW w \in Bookers, booking[w].phase = "picked", RowsThere(booking[w])
  PROVE  Usable(booking[w]) /\ RowFits(booking[w])
  <1> DEFINE b == booking[w]
  <1>1. b \in Booking /\ Bounded(b) /\ FreshId(w) /\ b.id \in Entries /\ b.id # NoEntry
    BY CostAssumption DEF CostInv, CostTypeOK, Bounded
  <1>2. Usable(b)
    BY <1>1 DEF Usable, Bounded
  <1>3. RowFits(b)
    BY <1>1 DEF RowFits, RowsThere, FreshId
  <1> QED  BY <1>2, <1>3

(* A transaction that nobody overlapped commits to the book it has read. *)
LEMMA CommitKnows ==
  ASSUME CostInv, NEW w \in Bookers, booking[w].phase = "picked", booking[w].alone,
         RowsThere(booking[w])
  PROVE  Known(booking[w])
  <1>1. Bounded(booking[w]) /\ Current(booking[w]) /\ booking[w] \in Booking
    BY DEF CostInv, CostTypeOK
  <1>2. booking[w].op \in {"none", "create", "update", "remove"}
    BY <1>1, BookingFields
  <1> QED  BY <1>1, <1>2, CommitFits DEF Known, Bounded, Current, Usable

(* A commit keeps the types and the order of insertion, overlapped or not. *)
LEMMA CommitMakes ==
  ASSUME CostInv, NEW w \in Bookers, Commit(w)
  PROVE  /\ costs' \in [Entries -> Cost]
         /\ MadeApart'
  <1> DEFINE b == booking[w]
  <1>1. /\ Usable(b) /\ RowFits(b) /\ costs \in [Entries -> Cost] /\ MadeApart /\ costs' = Result(b)
        /\ b.id \in Entries /\ b.op \in {"create", "update", "remove"}
    BY CommitFits, BookingFields DEF Commit, CostInv, CostTypeOK, Usable
  <1>2. costs' \in [Entries -> Cost]
    BY <1>1, ResultShape
  <1>3. \A e \in Entries \ {b.id} : costs'[e].made = costs[e].made /\ costs'[e].live = costs[e].live
    BY <1>1, ResultShape, WrittenShape
  <1>4. costs'[b.id].live # "unused"
    BY <1>1, LiveAfter
  <1>5. /\ b.op = "create" => costs'[b.id].made = Made /\ costs[b.id].live = "unused"
        /\ b.op # "create" => costs'[b.id].made = costs[b.id].made /\ costs[b.id].live # "unused"
    BY <1>1, ResultShape, WrittenShape DEF RowFits
  <1> DEFINE used == {e \in Entries : costs[e].live # "unused"}
             usedNow == {e \in Entries : costs'[e].live # "unused"}
  <1>6. IsFiniteSet(used) /\ Made = Cardinality(used) /\ Made' = Cardinality(usedNow)
    BY CostAssumption, FS_Subset DEF Made
  <1>7. Made \in Nat
    BY MadeType, Numbers
  <1>8. \A e \in Entries : costs[e].live # "unused" => costs[e].made \in Nat
    <2> TAKE e \in Entries
    <2>1. costs[e] \in Cost
      BY <1>1
    <2>2. costs[e].made \in 0..Cardinality(Entries)
      BY <2>1, CostFields
    <2> QED  BY <2>2, Numbers
  <1>9. MadeApart'
    <2>1. CASE b.op = "create"
      <3>1. usedNow = used \cup {b.id} /\ b.id \notin used
        BY <1>1, <1>3, <1>4, <1>5, <2>1
      <3> HIDE DEF used, usedNow
      <3>2. Made' = Made + 1
        BY <1>6, <3>1, FS_AddElement
      <3> QED  BY <1>1, <1>3, <1>4, <1>5, <1>7, <1>8, <2>1, <3>2 DEF MadeApart
    <2>2. CASE b.op # "create"
      <3>1. usedNow = used
        BY <1>1, <1>3, <1>4, <1>5, <2>2
      <3> HIDE DEF used, usedNow
      <3>2. Made' = Made
        BY <1>6, <3>1
      <3> QED  BY <1>1, <1>3, <1>4, <1>5, <1>7, <1>8, <2>2, <3>2 DEF MadeApart
    <2> QED  BY <2>1, <2>2
  <1> QED  BY <1>2, <1>9

(* A commit keeps the invariant and makes the knowledge of all others old. *)
LEMMA CommitStep ==
  ASSUME CostInv, NEW w \in Bookers, Commit(w)
  PROVE  CostInv'
  <1> DEFINE b == booking[w]
  <1>1. /\ costs' = Result(b) /\ raced' = (raced \/ ~b.alone) /\ b.phase = "picked" /\ RowsThere(b)
        /\ booking' = [v \in Bookers |-> IF v = w THEN Idle ELSE [booking[v] EXCEPT !.alone = FALSE]]
        /\ booked' = booked /\ limited' = limited /\ advanced' = advanced
    BY DEF Commit
  <1>2. /\ costs \in [Entries -> Cost] /\ booking \in [Bookers -> Booking] /\ MadeApart
        /\ b \in Booking /\ Bounded(b) /\ Usable(b) /\ RowFits(b)
    BY <1>1, CommitFits DEF CostInv, CostTypeOK
  <1>3. costs' \in [Entries -> Cost] /\ MadeApart'
    BY CommitMakes
  <1>4. CostTypeOK'
    <2>1. booking' \in [Bookers -> Booking]
      BY <1>1, <1>2, IdleType, BookingChanges
    <2>2. raced' \in BOOLEAN
      BY <1>1, <1>2, BookingFields DEF CostInv, CostTypeOK
    <2> QED  BY <1>1, <1>3, <2>1, <2>2 DEF CostInv, CostTypeOK
  <1>5. ~raced' => ~raced /\ b.alone /\ Known(b)
    BY <1>1, <1>2, CommitKnows, BookingFields
  <1>6. StartsDistinct'
    <2> SUFFICES ASSUME ~raced' PROVE Apart(costs)'
      BY DEF StartsDistinct, Apart
    <2>1. Apart(costs)
      BY <1>5 DEF CostInv, StartsDistinct, Apart
    <2>2. Apart(Result(b))
      BY <1>2, <1>5, <2>1, CommitApart
    <2> QED  BY <1>1, <2>2
  <1>7. (~raced /\ ~limited /\ ~advanced => Chained(costs))'
    <2> SUFFICES ASSUME ~raced', ~limited', ~advanced' PROVE Chained(costs)'
      OBVIOUS
    <2>1. Chained(costs) /\ Known(b)
      BY <1>1, <1>5 DEF CostInv
    <2>2. b.to \in {Same, Forever} /\ b.from >= b.old
      BY <1>1, <1>2 DEF Bounded
    <2>3. Chained(Result(b))
      BY <1>2, <2>1, <2>2, CommitChained
    <2> QED  BY <1>1, <2>3
  <1>8. ASSUME NEW v \in Bookers
        PROVE  FreshId(v)' /\ Bounded(booking[v])' /\ Current(booking[v])'
    <2>1. CASE v = w
      <3>1. booking'[v] = Idle
        BY <1>1, <2>1
      <3> QED  BY <3>1, Numbers DEF FreshId, Bounded, Current, Idle
    <2>2. CASE v # w
      <3> DEFINE o == booking[v]
      <3>1. o \in Booking /\ booking'[v] = [o EXCEPT !.alone = FALSE]
        BY <1>1, <1>2, <2>2
      <3>2. FreshId(v) /\ Bounded(o)
        BY DEF CostInv
      <3> HIDE DEF o
      <3>3. /\ booking'[v].op = o.op /\ booking'[v].phase = o.phase /\ booking'[v].id = o.id
            /\ booking'[v].old = o.old /\ booking'[v].from = o.from /\ booking'[v].to = o.to
            /\ booking'[v].alone = FALSE
        BY <3>1 DEF Booking
      <3>4. Current(booking[v])'
        BY <3>3 DEF Current
      <3>5. Bounded(booking[v])'
        BY <1>1, <3>2, <3>3 DEF Bounded
      <3>6. FreshId(v)'
        <4> SUFFICES ASSUME booking'[v].phase = "picked", booking'[v].op = "create"
                     PROVE  /\ booking'[v].id \in Entries /\ costs'[booking'[v].id].live = "unused"
                            /\ \A u \in Bookers \ {v} : booking'[u].id # booking'[v].id
          BY DEF FreshId
        <4>1. /\ o.id \in Entries /\ costs[o.id].live = "unused"
              /\ \A u \in Bookers \ {v} : booking[u].id # o.id
          BY <3>2, <3>3 DEF FreshId, o
        <4>2. costs'[o.id].live = "unused"
          BY <1>1, <1>2, <2>2, <4>1, LiveAfter
        <4>3. ASSUME NEW u \in Bookers \ {v} PROVE booking'[u].id # o.id
          <5>1. CASE u = w
            BY <1>1, <4>1, <5>1, CostAssumption DEF Idle
          <5>2. CASE u # w
            <6>1. booking'[u] = [booking[u] EXCEPT !.alone = FALSE] /\ booking[u] \in Booking
              BY <1>1, <1>2, <5>2
            <6>2. booking'[u].id = booking[u].id
              BY <6>1 DEF Booking
            <6> QED  BY <4>1, <6>2
          <5> QED  BY <5>1, <5>2
        <4> QED  BY <3>3, <4>1, <4>2, <4>3
      <3> QED  BY <3>4, <3>5, <3>6
    <2> QED  BY <2>1, <2>2
  <1> QED  BY <1>3, <1>4, <1>6, <1>7, <1>8 DEF CostInv

-----------------------------------------------------------------------------

(* The first state satisfies the invariant. *)
LEMMA CostInitially == CostInit => CostInv
  <1> SUFFICES ASSUME CostInit PROVE CostInv
    OBVIOUS
  <1>1. \A e \in Entries : costs[e].live = "unused"
    BY DEF CostInit
  <1>2. Live(costs) = {}
    BY <1>1 DEF Live
  <1>3. CostTypeOK
    <2>1. [from |-> 0, to |-> Forever, made |-> 0, live |-> "unused"] \in Cost
      BY Numbers DEF Cost, Times
    <2>2. 0 \in 0..MaxBookings
      BY CostAssumption
    <2>3. costs \in [Entries -> Cost] /\ booking \in [Bookers -> Booking]
      BY <2>1, IdleType DEF CostInit
    <2> QED  BY <2>2, <2>3 DEF CostInit, CostTypeOK
  <1>4. \A w \in Bookers : FreshId(w) /\ Bounded(booking[w]) /\ Current(booking[w])
    BY Numbers DEF CostInit, FreshId, Bounded, Current, Idle
  <1> QED  BY <1>1, <1>2, <1>3, <1>4 DEF CostInv, MadeApart, StartsDistinct, Chained

(* Every step keeps the invariant. *)
LEMMA CostStep == CostInv /\ [CostNext]_costVars => CostInv'
  <1> SUFFICES ASSUME CostInv, [CostNext]_costVars PROVE CostInv'
    OBVIOUS
  <1>1. CASE UNCHANGED costVars
    <2>1. CostTypeOK' /\ MadeApart' /\ StartsDistinct' /\ (~raced /\ ~limited /\ ~advanced => Chained(costs))'
      BY <1>1 DEF CostInv, costVars, CostTypeOK, MadeApart, Made, StartsDistinct, Live, Chained
    <2>2. ASSUME NEW w \in Bookers PROVE FreshId(w)' /\ Bounded(booking[w])' /\ Current(booking[w])'
      <3>1. FreshId(w) /\ Bounded(booking[w]) /\ Current(booking[w])
        BY DEF CostInv
      <3>2. Current(booking[w])'
        BY <1>1, <3>1, CurrentStays DEF costVars
      <3> QED  BY <1>1, <3>1, <3>2 DEF costVars, FreshId, Bounded
    <2> QED  BY <2>1, <2>2 DEF CostInv
  <1>2. ASSUME NEW w \in Bookers, BeginCreate(w) PROVE CostInv'
    BY <1>2, BeginCreateStep
  <1>3. ASSUME NEW w \in Bookers, BeginUpdate(w) PROVE CostInv'
    BY <1>3, BeginUpdateStep
  <1>4. ASSUME NEW w \in Bookers, BeginRemove(w) PROVE CostInv'
    BY <1>4, BeginRemoveStep
  <1>5. ASSUME NEW w \in Bookers, Pick(w) PROVE CostInv'
    BY <1>5, PickStep
  <1>6. ASSUME NEW w \in Bookers, Commit(w) PROVE CostInv'
    BY <1>6, CommitStep
  <1>7. ASSUME NEW w \in Bookers, Rollback(w) PROVE CostInv'
    BY <1>7, RollbackStep
  <1> QED  BY <1>1, <1>2, <1>3, <1>4, <1>5, <1>6, <1>7 DEF CostNext

(* For any number of entries, requests and dates: the invariant holds in   *)
(* every reachable state.                                                  *)
THEOREM CostInvariance == CostSpec => []CostInv
  BY CostInitially, CostStep, PTL DEF CostSpec

(* Rows, requests and dates stay in their types: no automatic ending or    *)
(* reopening writes a time outside the range a user can reach.             *)
THEOREM CostTypes == CostSpec => []CostTypeOK
  <1>1. CostInv => CostTypeOK
    BY DEF CostInv
  <1> QED  BY <1>1, CostInvariance, PTL

(* As long as no transaction was overlapped, no two entries of a policy    *)
(* start at one time, although only a read inside the transaction          *)
(* (assertNoValidFromCollision) forbids it.                                *)
THEOREM NoTwoStartTogether == CostSpec => []StartsDistinct
  <1>1. CostInv => StartsDistinct
    BY DEF CostInv
  <1> QED  BY <1>1, CostInvariance, PTL

(* In a chained book every time from the first start on has an entry. *)
LEMMA ChainedIsPriced ==
  ASSUME CostInv, Chained(costs)
  PROVE  Priced
  <1> SUFFICES ASSUME NEW x \in Live(costs), NEW t \in Times, t >= costs[x].from
               PROVE  Applies(costs, t) # NoEntry
    BY DEF Priced
  <1>1. \A e \in Live(costs) : /\ costs[e].from \in 0..LastTime /\ costs[e].to \in -1..(LastTime + 1)
                               /\ e # NoEntry
    <2> TAKE e \in Live(costs)
    <2>1. e \in Entries /\ costs[e] \in Cost
      BY DEF Live, CostInv, CostTypeOK
    <2> QED  BY <2>1, CostFields, CostAssumption
  <1> DEFINE S == {costs[e].from : e \in {d \in Live(costs) : costs[d].from <= t}}
  <1>2. S \in SUBSET Nat /\ S # {} /\ t \in Nat /\ \A s \in S : s <= t
    <2>1. costs[x].from \in S
      <3>1. costs[x].from <= t
        BY <1>1, Numbers
      <3> QED  BY <3>1
    <2>2. \A s \in S : s \in Nat /\ s <= t
      BY <1>1, Numbers
    <2>3. t \in Nat
      BY Numbers
    <2> HIDE DEF S
    <2> QED  BY <2>1, <2>2, <2>3
  <1>3. PICK m \in S : \A s \in S : s <= m
    <2> HIDE DEF S
    <2> QED  BY <1>2, MaxExists
  <1>4. PICK e \in Live(costs) : costs[e].from = m /\ costs[e].from <= t
    BY <1>3
  <1>5. \A d \in Live(costs) : costs[d].from <= t => costs[d].from <= m
    BY <1>3
  <1> HIDE DEF S
  <1>6. t <= costs[e].to
    <2> SUFFICES ASSUME ~(t <= costs[e].to) PROVE FALSE
      OBVIOUS
    <2>1. costs[e].to < t /\ costs[e].to # Forever
      BY <1>1, <1>4, Numbers
    <2>2. PICK s \in Live(costs) : costs[s].from = costs[e].to + 1
      BY <1>4, <2>1 DEF Chained
    <2>3. costs[e].from <= costs[e].to
      BY <1>4 DEF Chained
    <2>4. costs[s].from <= t /\ costs[s].from > costs[e].from
      BY <1>1, <1>4, <2>1, <2>2, <2>3, Numbers
    <2> QED  BY <1>1, <1>4, <1>5, <2>4
  <1>7. Covers(costs[e], t)
    BY <1>4, <1>6 DEF Covers
  <1>8. BookOK(costs)
    BY DEF BookOK, CostInv, CostTypeOK, MadeApart, Live
  <1>9. \/ Applies(costs, t) = NoEntry /\ \A d \in Live(costs) : ~Covers(costs[d], t)
        \/ Applies(costs, t) \in Live(costs)
    BY <1>8, EntryFound DEF Applies
  <1> QED  BY <1>1, <1>4, <1>7, <1>9

(* Where users enter only starts and move none to an earlier date,         *)
(* automatic ending and reopening leave no time without an entry, whatever *)
(* is inserted, postponed or deleted in whatever order.                    *)
THEOREM NoGapEver == CostSpec => []NoGap
  <1>1. CostInv => NoGap
    BY ChainedIsPriced DEF CostInv, NoGap
  <1> QED  BY <1>1, CostInvariance, PTL

(* Only a commit ends a picked request with changes, and it moves nothing  *)
(* before its dates; a failed transaction moves nothing at all.            *)
LEMMA HistoryStep ==
  ASSUME CostInv, [CostNext]_costVars, NEW w \in Bookers, booking[w].phase = "picked",
         booking[w].alone, booking'[w].phase = "idle",
         NEW t \in Times, t < booking[w].old, t < booking[w].from
  PROVE  Applies(costs', t) = Applies(costs, t)
  <1>1. booking \in [Bookers -> Booking]
    BY DEF CostInv, CostTypeOK
  <1>2. CASE costs' = costs
    BY <1>2 DEF Applies
  <1>3. CASE Commit(w)
    <2>1. costs' = Result(booking[w]) /\ Known(booking[w])
      BY <1>3, CommitKnows DEF Commit
    <2>2. costs \in [Entries -> Cost] /\ MadeApart
      BY DEF CostInv, CostTypeOK
    <2>3. BookOK(Result(booking[w]))
      <3>1. costs' \in [Entries -> Cost] /\ MadeApart'
        BY <1>3, CommitMakes
      <3> QED  BY <2>1, <3>1 DEF BookOK, MadeApart, Live
    <2> QED  BY <2>1, <2>2, <2>3, CommitKeepsPast
  <1>4. ASSUME NEW v \in Bookers, Commit(v), v # w PROVE FALSE
    <2>1. booking'[w] = [booking[w] EXCEPT !.alone = FALSE] /\ booking[w] \in Booking
      BY <1>1, <1>4 DEF Commit
    <2>2. booking'[w].phase = booking[w].phase
      BY <2>1 DEF Booking
    <2> QED  BY <2>2
  <1> QED  BY <1>2, <1>3, <1>4 DEF CostNext, costVars, BeginCreate, BeginUpdate, BeginRemove, Pick, Rollback

(* A transaction that nobody overlapped leaves what applied before the     *)
(* earlier of its two dates as it was.                                     *)
THEOREM PastNeverRepriced == CostSpec => HistoryKept
  <1>1. CostInv /\ [CostNext]_costVars =>
          [\A w \in Bookers :
              booking[w].phase = "picked" /\ booking[w].alone /\ booking'[w].phase = "idle" =>
                  \A t \in Times :
                      t < booking[w].old /\ t < booking[w].from =>
                          Applies(costs', t) = Applies(costs, t)]_costVars
    BY HistoryStep
  <1> QED  BY <1>1, CostInvariance, PTL DEF CostSpec, HistoryKept

-----------------------------------------------------------------------------
(* The cost tables: every month has its period.                            *)

\* Any set of numbers has a least one, and a bounded one a greatest.
LEMMA LeastExists ==
    ASSUME NEW S \in SUBSET Nat, S # {}
    PROVE  Min(S) \in S /\ \A x \in S : Min(S) <= x
<1>1. PICK m \in S : \A x \in S : ~(<<x, m>> \in OpToRel(<, Nat))
  BY NatLessThanWellFounded, WFMin
<1>2. \A x \in S : m <= x
  <2>1. SUFFICES ASSUME NEW x \in S PROVE m <= x
    OBVIOUS
  <2>2. m \in Nat /\ x \in Nat
    OBVIOUS
  <2>3. ~(x < m)
    BY <1>1, <2>2 DEF OpToRel
  <2>. QED BY <2>2, <2>3
<1>. QED BY <1>2 DEF Min

\* A function to bounded numbers has an argument where it is greatest.
LEMMA GreatestOf ==
    ASSUME NEW T, T # {}, NEW f, \A t \in T : f[t] \in Nat, NEW n \in Nat,
           \A t \in T : f[t] <= n
    PROVE  \E t \in T : \A u \in T : f[u] <= f[t]
<1> DEFINE S == {n - f[t] : t \in T}
<1>1. S \in SUBSET Nat /\ S # {}
  <2>1. \A t \in T : n - f[t] \in Nat
    OBVIOUS
  <2>2. PICK t \in T : TRUE
    OBVIOUS
  <2>3. n - f[t] \in S
    BY <2>2
  <2>. QED BY <2>1, <2>3
<1>2. Min(S) \in S /\ \A x \in S : Min(S) <= x
  <2> HIDE DEF S
  <2>. QED BY <1>1, LeastExists
<1>3. PICK t \in T : Min(S) = n - f[t]
  BY <1>2
<1>4. \A u \in T : n - f[u] \in S
  OBVIOUS
<1> HIDE DEF S
<1>5. ASSUME NEW u \in T PROVE f[u] <= f[t]
  <2>1. n - f[t] <= n - f[u]
    BY <1>2, <1>3, <1>4
  <2>2. f[u] \in Nat /\ f[t] \in Nat
    OBVIOUS
  <2>. QED BY <2>1, <2>2
<1>. QED BY <1>5

-----------------------------------------------------------------------------
(* Dates.                                                                  *)

\* A month and a day are read back from their date.
LEMMA DateParts ==
    ASSUME NEW m \in Nat, NEW d \in 0..31
    PROVE  MonthOf(m * 32 + d) = m /\ DayOf(m * 32 + d) = d /\ m * 32 + d \in Nat
BY DEF MonthOf, DayOf

\* A date is its month and its day.
LEMMA DateSplit ==
    ASSUME NEW x \in Nat
    PROVE  MonthOf(x) \in Nat /\ DayOf(x) \in 0..31 /\ x = MonthOf(x) * 32 + DayOf(x)
BY DEF MonthOf, DayOf

\* Months have 28 to 31 days.
LEMMA MonthLengths == ASSUME NEW m \in Nat PROVE LastDay(m) \in 28..31
<1>1. CASE m % 12 = 1
  BY <1>1 DEF LastDay
<1>2. CASE m % 12 # 1
  BY <1>2 DEF LastDay
<1>. QED BY <1>1, <1>2

\* A date some months on is in that month, on the same day or the month's last.
LEMMA MonthsOn ==
    ASSUME NEW x \in Nat, DayOf(x) \in 1..31, NEW n \in Nat
    PROVE  /\ AddMonthsClamped(x, n) \in Nat
           /\ MonthOf(AddMonthsClamped(x, n)) = MonthOf(x) + n
           /\ DayOf(AddMonthsClamped(x, n)) = Lesser(DayOf(x), LastDay(MonthOf(x) + n))
           /\ DayOf(AddMonthsClamped(x, n)) \in 1..31
<1> DEFINE m == MonthOf(x) + n
           d == Lesser(DayOf(x), LastDay(m))
<1>1. m \in Nat
  BY DateSplit
<1>2. LastDay(m) \in 28..31
  BY <1>1, MonthLengths
<1>3. d \in 1..31
  <2> HIDE DEF m
  <2>. QED BY <1>2 DEF Lesser
<1>4. AddMonthsClamped(x, n) = m * 32 + d
  BY DEF AddMonthsClamped
<1> HIDE DEF m, d
<1>5. MonthOf(m * 32 + d) = m /\ DayOf(m * 32 + d) = d /\ m * 32 + d \in Nat
  <2>1. d \in 0..31
    BY <1>3
  <2>. QED BY <1>1, <2>1, DateParts
<1>. QED BY <1>3, <1>4, <1>5 DEF m, d

\* A date is not after the end of a year just when its month is not.
LEMMA NotAfter ==
    ASSUME NEW x \in Nat, NEW y \in Nat
    PROVE  /\ EndOfYear(y) \in Nat /\ MonthOf(EndOfYear(y)) = y * 12 + 11
           /\ x \in 0..EndOfYear(y) <=> MonthOf(x) <= y * 12 + 11
<1>1. x = MonthOf(x) * 32 + DayOf(x) /\ MonthOf(x) \in Nat /\ DayOf(x) \in 0..31
  BY DateSplit
<1> DEFINE m == y * 12 + 11
<1>2. m \in Nat
  OBVIOUS
<1>3. MonthOf(m * 32 + 31) = m /\ m * 32 + 31 \in Nat
  BY <1>2, DateParts
<1>4. EndOfYear(y) = m * 32 + 31
  BY DEF EndOfYear
<1> HIDE DEF m
<1>5. x <= m * 32 + 31 <=> MonthOf(x) <= m
  BY <1>1, <1>2
<1>. QED BY <1>3, <1>4, <1>5 DEF m

\* A month that lies a whole number of steps after the first one, and how many
\* steps Starts tries up to the last: names for the provers, which lose a
\* quotient by a step they do not know.
OnStep(m, first, step) == (m - first) % step = 0
StepsTried(first, last, step) == ((last - first) \div step) + 1

\* Counting months by steps: every step's month once, up to the last.
LEMMA StepsOn ==
    ASSUME NEW first \in Nat, NEW last \in Nat, NEW step \in {1, 3, 6, 12}
    PROVE  /\ StepsTried(first, last, step) \in Int
           /\ \A k \in Nat : k * step \in Nat /\ OnStep(first + k * step, first, step)
                             /\ first <= first + k * step
           /\ \A m \in first..last : OnStep(m, first, step) =>
                 \E k \in 0..StepsTried(first, last, step) : m = first + k * step
<1>1. \A k \in Nat : k * step \in Nat /\ OnStep(first + k * step, first, step)
                     /\ first <= first + k * step
  <2>1. SUFFICES ASSUME NEW k \in Nat
                 PROVE  k * step \in Nat /\ (first + k * step - first) % step = 0
                        /\ first <= first + k * step
    BY DEF OnStep
  <2>2. CASE step = 1
    BY <2>2
  <2>3. CASE step = 3
    BY <2>3
  <2>4. CASE step = 6
    BY <2>4
  <2>5. CASE step = 12
    BY <2>5
  <2>. QED BY <2>2, <2>3, <2>4, <2>5
<1>2. ASSUME NEW m \in first..last, OnStep(m, first, step)
      PROVE  \E k \in 0..StepsTried(first, last, step) : m = first + k * step
  <2> DEFINE k == (m - first) \div step
  <2>1. k \in 0..StepsTried(first, last, step) /\ m = first + k * step
    <3>1. CASE step = 1
      BY <1>2, <3>1 DEF OnStep, StepsTried
    <3>2. CASE step = 3
      BY <1>2, <3>2 DEF OnStep, StepsTried
    <3>3. CASE step = 6
      BY <1>2, <3>3 DEF OnStep, StepsTried
    <3>4. CASE step = 12
      BY <1>2, <3>4 DEF OnStep, StepsTried
    <3>. QED BY <3>1, <3>2, <3>3, <3>4
  <2> HIDE DEF k
  <2>. QED BY <2>1
<1>3. StepsTried(first, last, step) \in Int
  <2>1. CASE step = 1
    BY <2>1 DEF StepsTried
  <2>2. CASE step = 3
    BY <2>2 DEF StepsTried
  <2>3. CASE step = 6
    BY <2>3 DEF StepsTried
  <2>4. CASE step = 12
    BY <2>4 DEF StepsTried
  <2>. QED BY <2>1, <2>2, <2>3, <2>4
<1>. QED BY <1>1, <1>2, <1>3

\* Its last part alone.
LEMMA StepReached ==
    ASSUME NEW first \in Nat, NEW last \in Nat, NEW step \in {1, 3, 6, 12}
    PROVE  \A m \in first..last : OnStep(m, first, step) =>
              \E k \in 0..StepsTried(first, last, step) : m = first + k * step
BY StepsOn

-----------------------------------------------------------------------------
(* A policy and its rows.                                                  *)

\* What LedgersAssumption says of each policy.
IsPolicy(policy) ==
    /\ policy.start = NoDate \/ IsDate(policy.start)
    /\ policy.frequency \in Frequencies \cup {"none"}
    /\ policy.rows \in Seq(CostRow)
    /\ \A i \in DOMAIN policy.rows :
          IsDate(policy.rows[i].from) /\ policy.rows[i].made \in 1..Len(policy.rows)
    /\ \A i, j \in DOMAIN policy.rows : policy.rows[i].made = policy.rows[j].made => i = j

\* The row of a period is one of those that cover it.
LEMMA RowFound ==
    ASSUME NEW policy, IsPolicy(policy), NEW t,
           NEW found, found = {e \in DOMAIN policy.rows : Covers(policy.rows[e], t)}, found # {}
    PROVE  EntryForPeriod(policy.rows, DOMAIN policy.rows, t) \in found
<1> DEFINE rows == policy.rows
           froms == [e \in found |-> rows[e].from]
<1>1. \A e \in found : rows[e].from \in 0..EndOfYear(LastYear) /\ rows[e].made \in 1..Len(rows)
  BY DEF IsPolicy, IsDate
<1>2. EndOfYear(LastYear) \in Nat /\ Len(rows) \in Nat
  BY DEF EndOfYear, LastYear, IsPolicy
<1>3. PICK e \in found : \A d \in found : rows[d].from <= rows[e].from
  <2>1. \A d \in found : froms[d] \in Nat /\ froms[d] <= EndOfYear(LastYear)
    BY <1>1, <1>2
  <2>2. \E e \in found : \A d \in found : froms[d] <= froms[e]
    <3> HIDE DEF froms
    <3>. QED BY <1>2, <2>1, GreatestOf
  <2>. QED BY <2>2
<1> DEFINE last == {d \in found : rows[d].from = rows[e].from}
           mades == [d \in last |-> rows[d].made]
<1>4. PICK g \in last : \A d \in last : rows[d].made <= rows[g].made
  <2>1. \A d \in last : mades[d] \in Nat /\ mades[d] <= Len(rows)
    BY <1>1, <1>2
  <2>2. last # {}
    OBVIOUS
  <2>3. \E g \in last : \A d \in last : mades[d] <= mades[g]
    <3> HIDE DEF mades, last
    <3>. QED BY <1>2, <2>1, <2>2, GreatestOf
  <2>. QED BY <2>3
<1>5. g \in found /\ \A d \in found \ {g} : StartsAfter(rows[g], rows[d])
  <2>1. SUFFICES ASSUME NEW d \in found \ {g} PROVE StartsAfter(rows[g], rows[d])
    OBVIOUS
  <2>2. rows[d].from \in Nat /\ rows[g].from \in Nat /\ rows[d].from <= rows[g].from
    BY <1>1, <1>3
  <2>3. CASE rows[d].from = rows[g].from
    <3>1. d \in last
      BY <2>3
    <3>2. rows[d].made <= rows[g].made /\ rows[d].made # rows[g].made
      BY <1>4, <3>1 DEF IsPolicy
    <3>3. rows[d].made \in Nat /\ rows[g].made \in Nat
      BY <1>1
    <3>. QED BY <2>3, <3>2, <3>3 DEF StartsAfter
  <2>4. CASE rows[d].from # rows[g].from
    BY <2>2, <2>4 DEF StartsAfter
  <2>. QED BY <2>3, <2>4
<1>6. EntryForPeriod(rows, DOMAIN rows, t)
        = CHOOSE h \in found : \A d \in found \ {h} : StartsAfter(rows[h], rows[d])
  BY DEF EntryForPeriod
<1>. QED BY <1>5, <1>6

\* A policy with rows is billed at a step of whole months, from a date.
LEMMA StepAndAnchor ==
    ASSUME NEW policy, IsPolicy(policy), DOMAIN policy.rows # {}, NEW day
    PROVE  /\ FrequencyMonths[Frequency(policy, day)] \in {1, 3, 6, 12}
           /\ IsDate(Anchor(policy)) /\ Anchor(policy) \in Nat
<1> DEFINE rows == policy.rows
<1>1. ActiveOrLatest(rows, day) \in DOMAIN rows
  <2> DEFINE found == {e \in DOMAIN rows : Covers(rows[e], day)}
             active == EntryForPeriod(rows, DOMAIN rows, day)
  <2>1. CASE active # NoEntry
    <3>1. found # {}
      BY <2>1 DEF EntryForPeriod
    <3>2. active \in found
      <4> HIDE DEF found
      <4>. QED BY <3>1, RowFound DEF found
    <3>. QED BY <2>1, <3>2 DEF ActiveOrLatest
  <2>2. CASE active = NoEntry
    <3> DEFINE froms == [e \in DOMAIN rows |-> rows[e].from]
    <3>1. EndOfYear(LastYear) \in Nat
      BY DEF EndOfYear, LastYear
    <3>2. \A e \in DOMAIN rows : froms[e] \in Nat /\ froms[e] <= EndOfYear(LastYear)
      BY <3>1 DEF IsPolicy, IsDate
    <3>3. \E e \in DOMAIN rows : \A d \in DOMAIN rows : froms[d] <= froms[e]
      <4> HIDE DEF froms, rows
      <4>1. DOMAIN rows # {}
        BY DEF rows
      <4>. QED BY <3>1, <3>2, <4>1, GreatestOf
    <3>4. \E e \in DOMAIN rows : \A d \in DOMAIN rows : rows[d].from <= rows[e].from
      BY <3>3
    <3>. QED BY <2>2, <3>4 DEF ActiveOrLatest
  <2>. QED BY <2>1, <2>2
<1>2. Frequency(policy, day) \in Frequencies
  <2>1. policy.rows[ActiveOrLatest(policy.rows, day)] \in CostRow
    BY <1>1 DEF IsPolicy
  <2>2. policy.rows[ActiveOrLatest(policy.rows, day)].frequency \in Frequencies
    BY <2>1 DEF CostRow
  <2>. QED BY <2>2 DEF Frequency, IsPolicy
<1>3. \A f \in Frequencies : FrequencyMonths[f] \in {1, 3, 6, 12}
  BY DEF Frequencies, FrequencyMonths
<1> DEFINE S == {rows[e].from : e \in DOMAIN rows} \cup ({policy.start} \ {NoDate})
<1>4. \A x \in S : IsDate(x)
  BY DEF IsPolicy
<1>5. S \in SUBSET Nat /\ S # {}
  <2>1. \A x : IsDate(x) => x \in Nat
    BY DEF IsDate
  <2>2. PICK e \in DOMAIN rows : TRUE
    OBVIOUS
  <2>3. rows[e].from \in S
    OBVIOUS
  <2>. QED BY <1>4, <2>1, <2>3
<1>6. Anchor(policy) = Min(S)
  BY DEF Anchor
<1> HIDE DEF S
<1>7. Min(S) \in S
  BY <1>5, LeastExists
<1>. QED BY <1>2, <1>3, <1>4, <1>5, <1>6, <1>7

\* The starts of the periods of one policy, read on any day.
LEMMA PolicyAligned ==
    ASSUME NEW policy, IsPolicy(policy), DOMAIN policy.rows # {}, NEW day \in Nat,
           NEW starts, starts = DOMAIN GetSchedule(policy, day).periods,
           NEW anchor, anchor = Anchor(policy),
           NEW step, step = FrequencyMonths[Frequency(policy, day)]
    PROVE  /\ {MonthOf(s) : s \in starts} =
                 {m \in MonthOf(anchor)..(YearOf(day) + 2) * 12 - 1 :
                     (m - MonthOf(anchor)) % step = 0}
           /\ \A s \in starts : DayOf(s) < DayOf(anchor) => DayOf(s) = LastDay(MonthOf(s))
<1> DEFINE y == YearOf(day) + 1
           last == y * 12 + 11
           first == MonthOf(anchor)
           count == StepsTried(first, last, step)
<1>1. y \in Nat
  <2>1. YearOf(day) \in Nat
    BY DEF YearOf, MonthOf
  <2>. QED BY <2>1
<1>2. step \in {1, 3, 6, 12} /\ anchor \in Nat /\ DayOf(anchor) \in 1..31 /\ first \in Nat
  <2>1. step \in {1, 3, 6, 12} /\ anchor \in Nat /\ IsDate(anchor)
    BY StepAndAnchor
  <2>2. first \in Nat
    BY <2>1, DateSplit
  <2>3. DayOf(anchor) \in 1..31
    BY <2>1, <2>2, MonthLengths DEF IsDate
  <2>. QED BY <2>1, <2>2, <2>3
<1>3. last \in Nat /\ (YearOf(day) + 2) * 12 - 1 = last
  <2>1. YearOf(day) \in Nat
    BY DEF YearOf, MonthOf
  <2>. QED BY <2>1
<1>4. MonthOf(EndOfYear(y)) = last /\ \A x \in Nat : x \in 0..EndOfYear(y) <=> MonthOf(x) <= last
  BY <1>1, NotAfter
<1>5. starts = {PeriodStart(anchor, step, k) : k \in 0..count} \cap 0..EndOfYear(y)
  <2>1. starts = Starts(policy, day, EndOfYear(y))
    BY DEF GetSchedule, Schedule, Periods
  <2>2. Starts(policy, day, EndOfYear(y))
          = {PeriodStart(anchor, step, k) : k \in 0..StepsTried(first, MonthOf(EndOfYear(y)), step)}
              \cap 0..EndOfYear(y)
    BY DEF Starts, StepsTried
  <2>. QED BY <1>4, <2>1, <2>2
<1> HIDE DEF y, last, first, count
<1>6. ASSUME NEW k \in Nat
      PROVE  /\ PeriodStart(anchor, step, k) \in Nat
             /\ MonthOf(PeriodStart(anchor, step, k)) = first + k * step
             /\ DayOf(PeriodStart(anchor, step, k))
                   = Lesser(DayOf(anchor), LastDay(first + k * step))
  <2>1. k * step \in Nat
    BY <1>2, <1>3, StepsOn
  <2>. QED BY <1>2, <2>1, MonthsOn DEF PeriodStart, first
<1>7. count \in Int /\ \A k \in 0..count : k \in Nat
  <2>1. StepsTried(first, last, step) \in Int
    BY <1>2, <1>3, StepsOn
  <2>. QED BY <2>1 DEF count
<1>8. ASSUME NEW s \in starts
      PROVE  /\ MonthOf(s) \in first..last /\ OnStep(MonthOf(s), first, step)
             /\ DayOf(s) < DayOf(anchor) => DayOf(s) = LastDay(MonthOf(s))
  <2>1. PICK k \in 0..count : s = PeriodStart(anchor, step, k) /\ s \in 0..EndOfYear(y)
    BY <1>5
  <2>2. k \in Nat
    BY <1>7
  <2>3. /\ s \in Nat /\ MonthOf(s) = first + k * step
        /\ DayOf(s) = Lesser(DayOf(anchor), LastDay(MonthOf(s)))
    BY <1>6, <2>1, <2>2
  <2>4. MonthOf(s) <= last
    BY <1>4, <2>1, <2>3
  <2>5. k * step \in Nat /\ OnStep(first + k * step, first, step) /\ first <= first + k * step
    BY <1>2, <1>3, <2>2, StepsOn
  <2>6. MonthOf(s) \in first..last
    BY <1>2, <1>3, <2>3, <2>4, <2>5
  <2>7. DayOf(s) < DayOf(anchor) => DayOf(s) = LastDay(MonthOf(s))
    <3>1. DayOf(anchor) \in Nat /\ LastDay(MonthOf(s)) \in Nat
      <4>1. MonthOf(s) \in Nat
        BY <1>2, <2>6
      <4>. QED BY <1>2, <4>1, MonthLengths
    <3>. QED BY <2>3, <3>1 DEF Lesser
  <2>8. MonthOf(s) = first + k * step
    BY <2>3
  <2>9. OnStep(MonthOf(s), first, step)
    BY <2>5, <2>8
  <2>. QED BY <2>6, <2>7, <2>9
<1>9. ASSUME NEW m \in first..last, OnStep(m, first, step)
      PROVE  \E s \in starts : m = MonthOf(s)
  <2>7. \E k \in 0..count : m = first + k * step
    <3>1. \A x \in first..last : OnStep(x, first, step) =>
             \E k \in 0..StepsTried(first, last, step) : x = first + k * step
      BY <1>2, <1>3, StepReached
    <3>2. \E k \in 0..StepsTried(first, last, step) : m = first + k * step
      BY <1>9, <3>1
    <3>. QED BY <3>2 DEF count
  <2>1. PICK k \in 0..count : m = first + k * step
    BY <2>7
  <2>2. k \in Nat
    BY <1>7
  <2>3. PeriodStart(anchor, step, k) \in Nat /\ MonthOf(PeriodStart(anchor, step, k)) = m
    BY <1>6, <2>1, <2>2
  <2>4. m <= last
    BY <1>2, <1>3
  <2>5. PeriodStart(anchor, step, k) \in 0..EndOfYear(y)
    BY <1>4, <2>3, <2>4
  <2>6. PeriodStart(anchor, step, k) \in starts
    BY <1>5, <2>5
  <2>. QED BY <2>3, <2>6
<1>10. {MonthOf(s) : s \in starts} = {m \in first..last : OnStep(m, first, step)}
  BY <1>8, <1>9
<1>. QED BY <1>3, <1>8, <1>10 DEF first, OnStep

\* The days pass, the ledger stays.
ScheduleTypeOK == ledger \in Ledgers /\ today \in Days

\* The ledger and the day are always among those of LedgersAssumption.
LEMMA ScheduleTyped == ScheduleSpec => []ScheduleTypeOK
<1>1. ASSUME ScheduleInit PROVE ScheduleTypeOK
  BY <1>1, ScheduleAssumption, LeastExists DEF ScheduleInit, ScheduleTypeOK
<1>2. ASSUME ScheduleTypeOK, [ScheduleNext]_scheduleVars PROVE ScheduleTypeOK'
  <2>1. CASE DayPasses
    <3> DEFINE S == {d \in Days : d > today}
    <3>1. S \in SUBSET Nat /\ S # {} /\ today' = Min(S)
      BY <2>1, ScheduleAssumption DEF DayPasses
    <3>2. Min(S) \in S
      <4> HIDE DEF S
      <4>. QED BY <3>1, LeastExists
    <3>. QED BY <1>2, <2>1, <3>1, <3>2 DEF DayPasses, ScheduleTypeOK
  <2>2. CASE UNCHANGED scheduleVars
    BY <1>2, <2>2 DEF scheduleVars, ScheduleTypeOK
  <2>. QED BY <1>2, <2>1, <2>2 DEF ScheduleNext
<1>. QED BY <1>1, <1>2, PTL DEF ScheduleSpec

\* The periods of every policy start exactly the billing step apart, without drift, on the
\* day of the first or on the last day of a shorter month, up to the end of next year, for
\* any dates and frequencies (addMonthsClamped and buildCostPeriods of cost-schedule.ts).
THEOREM PeriodsAligned == ScheduleSpec => []StartsAligned
<1>1. ASSUME ScheduleTypeOK PROVE StartsAligned
  <2>1. SUFFICES ASSUME NEW p \in DOMAIN ledger, ledger[p].rows # << >>
                 PROVE  LET policy == ledger[p]
                            starts == DOMAIN GetSchedule(policy, today).periods
                            anchor == Anchor(policy)
                            step == FrequencyMonths[Frequency(policy, today)]
                        IN  /\ {MonthOf(s) : s \in starts} =
                                  {m \in MonthOf(anchor)..(YearOf(today) + 2) * 12 - 1 :
                                      (m - MonthOf(anchor)) % step = 0}
                            /\ \A s \in starts :
                                  DayOf(s) < DayOf(anchor) => DayOf(s) = LastDay(MonthOf(s))
    BY DEF StartsAligned
  <2>2. IsPolicy(ledger[p]) /\ today \in Nat
    BY <1>1, LedgersAssumption, ScheduleAssumption DEF ScheduleTypeOK, IsPolicy
  <2>3. DOMAIN ledger[p].rows # {}
    BY <2>1, <2>2 DEF IsPolicy
  <2>. QED BY <2>2, <2>3, PolicyAligned
<1>. QED BY <1>1, ScheduleTyped, PTL

=============================================================================
