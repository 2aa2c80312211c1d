------------------------- MODULE UserAccountsProofs -------------------------
(***************************************************************************)
(* An active administrator remains, and a session is its user's, for any   *)
(* number of accounts, requests and attempts.                              *)
(*                                                                         *)
(* UserAccounts: a request between its reads and its commit still has the  *)
(* facts its reads established: a serializable one unless it is doomed, a  *)
(* rejection and a deletion because nothing overlaps them.                 *)
(*                                                                         *)
(* LoginSession: a request works on a copy of its session, which another   *)
(* request may have renewed or emptied meanwhile. The link mode of a       *)
(* single sign-on is safe wherever it is, in the store or in a copy,       *)
(* because the flow of the session's own user goes with it; and what the   *)
(* rate limiter has counted, together with the guesses it has let pass, is *)
(* bounded.                                                                *)
(***************************************************************************)
EXTENDS MCUserAccounts, FiniteSetTheorems, TLAPS

\* Rejections and deletions are not overlapped.
NotOverlapped == {"reject", "deleteAccount"} \subseteq Alone

(* An active administrator besides u. *)
OtherAdmin(u) == \E v \in Users : v # u /\ ActiveAdmin(v)

\* Idle requests have no operation; the others know their account.
CallKnown(c) ==
    /\ Idle(c) <=> call[c].op = "none"
    /\ call[c].op \notin {"none", "bootstrap"} => call[c].user \in Users
    /\ call[c].phase = "household" => call[c].user \in Users

\* A request in Alone is the only one.
AloneIsAlone == \A c, d \in Calls : call[c].op \in Alone /\ d # c => Idle(d)

\* What the snapshot of a serializable transaction established.
ChangeSafe(c) ==
    call[c].op \in Serializable /\ call[c].phase = "read" /\ ~call[c].stale =>
        /\ users[call[c].user].status # "absent"
        /\ IF call[c].checked THEN OtherAdmin(call[c].user)
                              ELSE users[call[c].user].role # "ADMIN"

(* A rejection still finds its account waiting. *)
RejectSafe(c) ==
    call[c].op = "reject" /\ call[c].phase = "read" =>
        users[call[c].user].status = "PENDING_APPROVAL"

(* A deletion still finds what its checks found: the account as it was,    *)
(* another administrator, and nobody in a household it drops.              *)
DeleteSafe(c) ==
    call[c].op = "deleteAccount" =>
        /\ users[call[c].user].status = "ACTIVE"
        /\ users[call[c].user].role = call[c].role
        /\ call[c].phase \in {"count", "read"} /\ call[c].role = "ADMIN" =>
              OtherAdmin(call[c].user)
        /\ call[c].drop => members \subseteq {call[c].user}

(* What each request may still rely on. *)
CallSafe(c) == ChangeSafe(c) /\ RejectSafe(c) /\ DeleteSafe(c)

(* The inductive invariant. *)
AccountInv ==
    /\ TypeOK
    /\ AdminRemains
    /\ AloneIsAlone
    /\ \A c \in Calls : CallKnown(c) /\ CallSafe(c)

-----------------------------------------------------------------------------
(* Helpers.                                                                *)

(* With more than one active administrator there is another one than u.    *)
LEMMA MoreThanOne ==
  ASSUME NEW u, Cardinality(ActiveAdmins) > 1 PROVE OtherAdmin(u)
  <1>1. CASE ActiveAdmins \subseteq {u}
    <2>1. IsFiniteSet({u}) /\ Cardinality({u}) = 1
      BY FS_Singleton
    <2>2. Cardinality(ActiveAdmins) <= 1
      BY <1>1, <2>1, FS_Subset
    <2>3. Cardinality(ActiveAdmins) \in Nat
      BY <1>1, <2>1, FS_Subset, FS_CardinalityType
    <2> QED  BY <2>2, <2>3
  <1>2. CASE ~(ActiveAdmins \subseteq {u})
    BY <1>2 DEF ActiveAdmins, OtherAdmin
  <1> QED  BY <1>1, <1>2

(* The fields of a record of type Call that the steps change, one by one.  *)
LEMMA CallFields ==
  ASSUME NEW r \in Call
  PROVE  /\ \A p \in {"idle", "entered", "read", "count", "create", "household"} :
               [r EXCEPT !.phase = p] \in Call
         /\ \A b \in BOOLEAN : /\ [r EXCEPT !.checked = b] \in Call
                               /\ [r EXCEPT !.stale = b] \in Call
                               /\ [r EXCEPT !.drop = b] \in Call
         /\ \A u \in Users \cup {None} : [r EXCEPT !.user = u] \in Call
         /\ \A o \in Operations : [r EXCEPT !.op = o] \in Call
         /\ \A x \in Roles : [r EXCEPT !.role = x] \in Call
         /\ \A n \in 1..MaxAttempts : [r EXCEPT !.attempt = n] \in Call
  BY DEF Call

(* No request is a request. *)
LEMMA NoCallType == NoCall \in Call
  BY AccountsAssumption DEF NoCall, Call, Roles

(* A commit dooms the requests it conflicts with. *)
LEMMA CommittedType ==
  ASSUME TypeOK, NEW c \in Calls, NEW u \in Users
  PROVE  Committed(c, u) \in [Calls -> Call]
  BY NoCallType, CallFields DEF Committed, TypeOK

(* A user row with another status or another role.                         *)
LEMMA UserFields ==
  ASSUME NEW r \in User
  PROVE  /\ \A s \in {"absent", "PENDING_APPROVAL", "ACTIVE", "DISABLED", "deleted"} :
               [r EXCEPT !.status = s] \in User
         /\ \A x \in Roles : [r EXCEPT !.role = x] \in User
  BY DEF User

(* A request that is under way is not overlapped by one in Alone.          *)
LEMMA NoneAlone ==
  ASSUME AccountInv, NEW c \in Calls, ~Idle(c), NEW d \in Calls, d # c
  PROVE  /\ call[d].op \notin Alone
         /\ call[c].op \in Alone => Idle(d)
  BY DEF AccountInv, AloneIsAlone

-----------------------------------------------------------------------------
(* Steps that change requests only.                                        *)

(* A request that moves on without writing has to keep its own facts only. *)
LEMMA CallMoves ==
  ASSUME AccountInv, NEW c \in Calls, ~Idle(c), NEW r \in Call,
         call' = [call EXCEPT ![c] = r], UNCHANGED <<users, local, household, members>>,
         r = NoCall \/ (r.op = call[c].op /\ r.phase # "idle"),
         CallKnown(c)', CallSafe(c)'
  PROVE  AccountInv'
  <1>1. TypeOK'
    BY DEF AccountInv, TypeOK
  <1>2. AdminRemains'
    BY DEF AccountInv, AdminRemains, ActiveAdmins, ActiveAdmin
  <1>3. call'[c] = r /\ \A d \in Calls \ {c} : call'[d] = call[d]
    BY DEF AccountInv, TypeOK
  <1>4. r.op \in Alone => r.op = call[c].op
    BY AccountsAssumption DEF NoCall, Operations, Serializable, Decisions
  <1>5. AloneIsAlone'
    BY <1>3, <1>4, NoneAlone DEF AloneIsAlone, Idle
  <1>6. ASSUME NEW d \in Calls, d # c PROVE (CallKnown(d) /\ CallSafe(d))'
    BY <1>3, <1>6 DEF AccountInv, CallKnown, CallSafe, ChangeSafe, RejectSafe, DeleteSafe,
                      Idle, OtherAdmin, ActiveAdmin
  <1> QED  BY <1>1, <1>2, <1>5, <1>6 DEF AccountInv

(* A request that ends or fails has no facts left.                         *)
LEMMA GiveUpKeepsInv ==
  ASSUME AccountInv, NEW c \in Calls, GiveUp(c) PROVE AccountInv'
  <1>1. call' = [call EXCEPT ![c] = NoCall] /\ UNCHANGED <<users, local, household, members>>
    BY DEF GiveUp
  <1>2. ~Idle(c)
    BY DEF GiveUp
  <1>3. call'[c] = NoCall
    BY <1>1 DEF AccountInv, TypeOK
  <1>4. CallKnown(c)' /\ CallSafe(c)'
    BY <1>3 DEF NoCall, CallKnown, CallSafe, ChangeSafe, RejectSafe, DeleteSafe, Idle,
                Serializable
  <1> QED  BY <1>1, <1>2, <1>4, NoCallType, CallMoves

(* A request enters with no facts but, for a deletion, the role just read. *)
LEMMA EnterKeepsInv ==
  ASSUME AccountInv, NEW c \in Calls, NEW op \in Operations, NEW u \in Users \cup {None},
         NEW role \in Roles, Enter(c, op, u, role), op # "bootstrap" => u \in Users,
         op = "deleteAccount" => users[u].status = "ACTIVE" /\ users[u].role = role
  PROVE  AccountInv'
  <1> DEFINE r == [NoCall EXCEPT !.op = op, !.user = u, !.role = role, !.phase = "entered"]
  <1>1. call' = [call EXCEPT ![c] = r] /\ UNCHANGED <<users, local, household, members>>
    BY DEF Enter
  <1>2. r \in Call
    <2>1. [NoCall EXCEPT !.op = op] \in Call
      BY NoCallType, CallFields
    <2>2. [[NoCall EXCEPT !.op = op] EXCEPT !.user = u] \in Call
      BY <2>1, CallFields
    <2>3. [[[NoCall EXCEPT !.op = op] EXCEPT !.user = u] EXCEPT !.role = role] \in Call
      BY <2>2, CallFields
    <2> QED  BY <2>3, CallFields
  <1>3. TypeOK'
    BY <1>1, <1>2 DEF AccountInv, TypeOK
  <1>4. AdminRemains'
    BY <1>1 DEF AccountInv, AdminRemains, ActiveAdmins, ActiveAdmin
  <1>5. /\ call'[c] = r /\ r.op = op /\ r.phase = "entered" /\ r.user = u /\ r.role = role
        /\ r.drop = FALSE /\ op # "none"
    BY <1>1 DEF AccountInv, TypeOK, NoCall, Operations, Serializable, Decisions
  <1>6. \A d \in Calls \ {c} : call'[d] = call[d]
    BY <1>1 DEF AccountInv, TypeOK
  <1>7. AloneIsAlone'
    BY <1>5, <1>6 DEF AloneIsAlone, Enter, MayEnter, Idle
  <1>8. (CallKnown(c) /\ CallSafe(c))'
    BY <1>1, <1>5 DEF CallKnown, CallSafe, ChangeSafe, RejectSafe, DeleteSafe, Idle
  <1>9. ASSUME NEW d \in Calls, d # c PROVE (CallKnown(d) /\ CallSafe(d))'
    BY <1>1, <1>6, <1>9 DEF AccountInv, CallKnown, CallSafe, ChangeSafe, RejectSafe,
                            DeleteSafe, Idle, OtherAdmin, ActiveAdmin
  <1> QED  BY <1>3, <1>4, <1>7, <1>8, <1>9 DEF AccountInv

(* A request that arrives has read nothing. *)
LEMMA ArriveKeepsInv == ASSUME AccountInv, NEW c \in Calls, Arrive(c) PROVE AccountInv'
  <1>1. "USER" \in Roles /\ Assignable \subseteq Roles
    BY AccountsAssumption DEF Roles
  <1>2. ASSUME NEW u \in Users, NEW op \in Decisions, Decide(c, op, u) PROVE AccountInv'
    BY <1>1, <1>2, EnterKeepsInv DEF Decide, Decisions, Operations
  <1>3. ASSUME NEW u \in Users, RequestDisable(c, u) PROVE AccountInv'
    BY <1>1, <1>3, EnterKeepsInv DEF RequestDisable, Serializable, Operations
  <1>4. ASSUME NEW u \in Users, NEW role \in Assignable, RequestRole(c, u, role)
        PROVE  AccountInv'
    BY <1>1, <1>4, EnterKeepsInv DEF RequestRole, Serializable, Operations
  <1>5. ASSUME NEW u \in Users, RequestDeletion(c, u) PROVE AccountInv'
    <2>1. users[u].role \in Roles
      BY <1>5 DEF RequestDeletion, Roles
    <2> QED  BY <1>5, <2>1, EnterKeepsInv DEF RequestDeletion, Operations
  <1>6. ASSUME StartApi(c) PROVE AccountInv'
    BY <1>1, <1>6, EnterKeepsInv DEF StartApi, Operations
  <1> QED  BY <1>2, <1>3, <1>4, <1>5, <1>6 DEF Arrive

-----------------------------------------------------------------------------
(* Requests that read.                                                     *)

(* It reads its account. *)
LEMMA ReadAccountKeepsInv ==
  ASSUME AccountInv, NEW c \in Calls, ReadAccount(c) PROVE AccountInv'
  <1> DEFINE r == [call[c] EXCEPT !.phase = "read"]
  <1>1. call[c] \in Call /\ call \in [Calls -> Call]
    BY DEF AccountInv, TypeOK
  <1>2. call' = [call EXCEPT ![c] = r] /\ UNCHANGED <<users, local, household, members>>
    BY DEF ReadAccount
  <1>a. r \in Call
    BY <1>1, CallFields
  <1>3. /\ r \in Call /\ call'[c] = r /\ r.phase = "read"
        /\ r.op = call[c].op /\ r.user = call[c].user
    BY <1>a, <1>1, <1>2 DEF Call
  <1>4. ~Idle(c) /\ call[c].op \in {"approve", "reject", "enable"} /\ call[c].op # "none"
    BY DEF ReadAccount, Idle, Decisions
  <1>5. call[c].op = "reject" => users[call[c].user].status = "PENDING_APPROVAL"
    BY DEF ReadAccount, Before
  <1>6. CallKnown(c)'
    BY <1>3, <1>4 DEF AccountInv, CallKnown, Idle
  <1>7. CallSafe(c)'
    BY <1>2, <1>3, <1>4, <1>5 DEF CallSafe, ChangeSafe, RejectSafe, DeleteSafe, Serializable
  <1> HIDE DEF r
  <1> QED  BY <1>2, <1>3, <1>4, <1>6, <1>7, CallMoves

(* A serializable one reads what it is to decide by. *)
LEMMA SnapshotKeepsInv ==
  ASSUME AccountInv, NEW c \in Calls, Snapshot(c) PROVE AccountInv'
  <1> DEFINE u == call[c].user
             b == (users[u].role = "ADMIN")
             r == [[call[c] EXCEPT !.phase = "read"] EXCEPT !.checked = b]
  <1>1. call[c] \in Call /\ call \in [Calls -> Call]
    BY DEF AccountInv, TypeOK
  <1>2. call' = [call EXCEPT ![c] = r] /\ UNCHANGED <<users, local, household, members>>
    BY <1>1 DEF Snapshot, Call
  <1>3. [call[c] EXCEPT !.phase = "read"] \in Call /\ b \in BOOLEAN
    BY <1>1, CallFields
  <1>4. r \in Call
    BY <1>3, CallFields
  <1>5. /\ call'[c] = r /\ r.phase = "read"
        /\ r.op = call[c].op /\ r.user = call[c].user /\ r.checked = b
    BY <1>1, <1>2 DEF Call
  <1>6. ~Idle(c) /\ call[c].op \in {"disable", "setRole"}
    BY DEF Snapshot, Idle, Serializable
  <1>7. users[u].status # "absent" /\ (b => OtherAdmin(u))
    BY MoreThanOne DEF Snapshot, Exists, Replaceable
  <1>8. (OtherAdmin(u) => OtherAdmin(u)') /\ users' = users
    BY <1>2 DEF OtherAdmin, ActiveAdmin
  <1>9. CallKnown(c)'
    BY <1>5, <1>6 DEF AccountInv, CallKnown, Idle
  <1>10. CallSafe(c)'
    <2>1. RejectSafe(c)' /\ DeleteSafe(c)'
      BY <1>5, <1>6 DEF RejectSafe, DeleteSafe
    <2>3. ChangeSafe(c)'
      BY <1>5, <1>7, <1>8 DEF ChangeSafe, OtherAdmin, ActiveAdmin
    <2> QED  BY <2>1, <2>3 DEF CallSafe
  <1> HIDE DEF r
  <1> QED  BY <1>2, <1>4, <1>5, <1>6, <1>9, <1>10, CallMoves

(* A doomed one is tried again or fails. *)
LEMMA AbortChangeKeepsInv ==
  ASSUME AccountInv, NEW c \in Calls, AbortChange(c) PROVE AccountInv'
  <1> DEFINE r == [[[[call[c] EXCEPT !.phase = "entered"] EXCEPT !.checked = FALSE]
                       EXCEPT !.stale = FALSE] EXCEPT !.attempt = call[c].attempt + 1]
  <1>1. call[c] \in Call /\ call \in [Calls -> Call]
    BY DEF AccountInv, TypeOK
  <1>2. call' = [call EXCEPT ![c] = r] /\ UNCHANGED <<users, local, household, members>>
    BY <1>1 DEF AbortChange, Call
  <1>3. call[c].attempt + 1 \in 1..MaxAttempts
    BY <1>1, AccountsAssumption DEF AbortChange, Call
  <1>4. [[[call[c] EXCEPT !.phase = "entered"] EXCEPT !.checked = FALSE] EXCEPT !.stale = FALSE]
           \in Call
    BY <1>1, CallFields
  <1>5. r \in Call
    BY <1>3, <1>4, CallFields
  <1>6. /\ call'[c] = r /\ r.phase = "entered" /\ r.op = call[c].op /\ r.user = call[c].user
    BY <1>1, <1>2 DEF Call
  <1>7. ~Idle(c) /\ call[c].op \in {"disable", "setRole"}
    BY DEF AbortChange, Idle, Serializable
  <1>8. CallKnown(c)'
    BY <1>6, <1>7 DEF AccountInv, CallKnown, Idle
  <1>9. CallSafe(c)'
    BY <1>6, <1>7 DEF CallSafe, ChangeSafe, RejectSafe, DeleteSafe
  <1> HIDE DEF r
  <1> QED  BY <1>2, <1>5, <1>6, <1>7, <1>8, <1>9, CallMoves

(* A deletion counts the other administrators. *)
LEMMA CountAdminsKeepsInv ==
  ASSUME AccountInv, NEW c \in Calls, CountAdmins(c) PROVE AccountInv'
  <1> DEFINE r == [call[c] EXCEPT !.phase = "count"]
  <1>1. call[c] \in Call /\ call \in [Calls -> Call]
    BY DEF AccountInv, TypeOK
  <1>2. call' = [call EXCEPT ![c] = r] /\ UNCHANGED <<users, local, household, members>>
    BY DEF CountAdmins
  <1>a. r \in Call
    BY <1>1, CallFields
  <1>3. /\ r \in Call /\ call'[c] = r /\ r.phase = "count" /\ r.op = call[c].op
        /\ r.user = call[c].user /\ r.role = call[c].role /\ r.drop = call[c].drop
    BY <1>a, <1>1, <1>2 DEF Call
  <1>4. ~Idle(c) /\ call[c].op = "deleteAccount"
    BY DEF CountAdmins, Idle
  <1>5. call[c].role = "ADMIN" => OtherAdmin(call[c].user)
    BY MoreThanOne DEF CountAdmins
  <1>6. CallKnown(c)'
    BY <1>3, <1>4 DEF AccountInv, CallKnown, Idle
  <1>7. DeleteSafe(c)'
    BY <1>2, <1>3, <1>4, <1>5 DEF AccountInv, CallSafe, DeleteSafe, OtherAdmin, ActiveAdmin
  <1>8. CallSafe(c)'
    BY <1>3, <1>4, <1>7 DEF CallSafe, ChangeSafe, RejectSafe, Serializable
  <1> HIDE DEF r
  <1> QED  BY <1>2, <1>3, <1>4, <1>6, <1>8, CallMoves

(* It looks for members of its household. *)
LEMMA CountMembersKeepsInv ==
  ASSUME AccountInv, NEW c \in Calls, CountMembers(c) PROVE AccountInv'
  <1>1. PICK b \in BOOLEAN :
          call' = [call EXCEPT ![c].phase = "read",
                               ![c].drop = NobodyElse(call[c].user) /\ ~b]
    BY DEF CountMembers
  <1> DEFINE e == (NobodyElse(call[c].user) /\ ~b)
             r == [[call[c] EXCEPT !.phase = "read"] EXCEPT !.drop = e]
  <1>2. call[c] \in Call /\ call \in [Calls -> Call]
    BY DEF AccountInv, TypeOK
  <1>3. call' = [call EXCEPT ![c] = r] /\ UNCHANGED <<users, local, household, members>>
    BY <1>1, <1>2 DEF CountMembers, Call
  <1>4. [call[c] EXCEPT !.phase = "read"] \in Call /\ e \in BOOLEAN
    BY <1>2, CallFields
  <1>5. r \in Call
    BY <1>4, CallFields
  <1>6. /\ call'[c] = r /\ r.phase = "read" /\ r.op = call[c].op
        /\ r.user = call[c].user /\ r.role = call[c].role /\ r.drop = e
    BY <1>2, <1>3 DEF Call
  <1>7. ~Idle(c) /\ call[c].op = "deleteAccount" /\ call[c].phase = "count"
    BY DEF CountMembers, Idle
  <1>8. e => members \subseteq {call[c].user}
    BY DEF NobodyElse
  <1>9. CallKnown(c)'
    BY <1>6, <1>7 DEF AccountInv, CallKnown, Idle
  <1>10. DeleteSafe(c)'
    <2>1. DeleteSafe(c)
      BY DEF AccountInv, CallSafe
    <2>2. call[c].role = "ADMIN" => OtherAdmin(call[c].user)
      BY <1>7, <2>1 DEF DeleteSafe
    <2>3. /\ users[call[c].user].status = "ACTIVE"
          /\ users[call[c].user].role = call[c].role
      BY <1>7, <2>1 DEF DeleteSafe
    <2> HIDE DEF r, e
    <2> QED  BY <1>3, <1>6, <1>8, <2>2, <2>3 DEF DeleteSafe, OtherAdmin, ActiveAdmin
  <1>11. CallSafe(c)'
    BY <1>6, <1>7, <1>10 DEF CallSafe, ChangeSafe, RejectSafe, Serializable
  <1> HIDE DEF r, e
  <1> QED  BY <1>3, <1>5, <1>6, <1>7, <1>9, <1>11, CallMoves

(* The bootstrap looks for the local administrator. *)
LEMMA FindLocalAdminKeepsInv ==
  ASSUME AccountInv, NEW c \in Calls, FindLocalAdmin(c) PROVE AccountInv'
  <1>1. call[c] \in Call /\ call \in [Calls -> Call]
    BY DEF AccountInv, TypeOK
  <1>2. PICK p \in {"create", "household"}, v \in {call[c].user, local} :
          /\ call' = [call EXCEPT ![c] = [[call[c] EXCEPT !.phase = p] EXCEPT !.user = v]]
          /\ p = "household" => v \in Users
    <2>1. CASE local = None /\ call' = [call EXCEPT ![c].phase = "create"]
      <3>1. [call[c] EXCEPT !.phase = "create"]
               = [[call[c] EXCEPT !.phase = "create"] EXCEPT !.user = call[c].user]
        BY <1>1 DEF Call
      <3> QED  BY <1>1, <2>1, <3>1
    <2>2. CASE /\ local # None /\ ActiveAdmin(local)
               /\ call' = [call EXCEPT ![c].phase = "household", ![c].user = local]
      BY <1>1, <2>2 DEF Call, AccountInv, TypeOK
    <2> QED  BY <2>1, <2>2 DEF FindLocalAdmin
  <1> DEFINE r == [[call[c] EXCEPT !.phase = p] EXCEPT !.user = v]
  <1>b. [call[c] EXCEPT !.phase = p] \in Call
    BY <1>1, <1>2, CallFields
  <1>3. [call[c] EXCEPT !.phase = p] \in Call /\ v \in Users \cup {None}
    BY <1>b, <1>1, <1>2 DEF Call, AccountInv, TypeOK
  <1>4. r \in Call
    BY <1>3, CallFields
  <1>5. /\ call'[c] = r /\ r.phase = p /\ r.op = call[c].op /\ r.user = v
    BY <1>1, <1>2 DEF Call
  <1>6. ~Idle(c) /\ call[c].op = "bootstrap" /\ UNCHANGED <<users, local, household, members>>
    BY DEF FindLocalAdmin, Idle
  <1>7. CallKnown(c)'
    BY <1>2, <1>5, <1>6 DEF CallKnown, Idle
  <1>8. CallSafe(c)'
    BY <1>5, <1>6 DEF CallSafe, ChangeSafe, RejectSafe, DeleteSafe, Serializable
  <1>9. call' = [call EXCEPT ![c] = r] /\ r.phase # "idle"
    BY <1>2, <1>5
  <1> HIDE DEF r
  <1> QED  BY <1>4, <1>5, <1>6, <1>7, <1>8, <1>9, CallMoves

-----------------------------------------------------------------------------
(* Requests that write.                                                    *)

(* What the commit of c leaves to another request that is not idle: the    *)
(* request as it was, or doomed.                                           *)
LEMMA CommittedOthers ==
  ASSUME AccountInv, NEW c \in Calls, NEW u \in Users, call' = Committed(c, u)
  PROVE  /\ call'[c] = NoCall
         /\ \A d \in Calls \ {c} :
               /\ call'[d].op = call[d].op /\ call'[d].user = call[d].user
               /\ call'[d].phase = call[d].phase /\ call'[d].checked = call[d].checked
               /\ call'[d].role = call[d].role /\ call'[d].drop = call[d].drop
               /\ ~call'[d].stale => ~call[d].stale /\ ~Overtakes(c, u, d)
  <1>1. call'[c] = NoCall
    BY DEF Committed
  <1>2. ASSUME NEW d \in Calls, d # c
        PROVE  /\ call'[d].op = call[d].op /\ call'[d].user = call[d].user
               /\ call'[d].phase = call[d].phase /\ call'[d].checked = call[d].checked
               /\ call'[d].role = call[d].role /\ call'[d].drop = call[d].drop
               /\ ~call'[d].stale => ~call[d].stale /\ ~Overtakes(c, u, d)
    <2>1. call[d] \in Call
      BY DEF AccountInv, TypeOK
    <2>2. CASE Overtakes(c, u, d)
      <3>1. call'[d] = [call[d] EXCEPT !.stale = TRUE]
        BY <1>2, <2>2 DEF Committed
      <3> QED  BY <2>1, <3>1 DEF Call
    <2>3. CASE ~Overtakes(c, u, d)
      <3>1. call'[d] = call[d]
        BY <1>2, <2>3 DEF Committed
      <3> QED  BY <2>3, <3>1
    <2> QED  BY <2>2, <2>3
  <1> QED  BY <1>1, <1>2

(* A commit that takes no administrator away, unless it is a serializable  *)
(* one that counted, or no other request is under way.                     *)
LEMMA CommitStep ==
  ASSUME AccountInv, NotOverlapped, NEW c \in Calls, ~Idle(c), NEW u \in Users, NEW x \in User,
         users' = [users EXCEPT ![u] = x], x.status # "absent",
         local' \in Users \cup {None}, household' \in BOOLEAN, members' \subseteq Users,
         call' = Committed(c, u), AdminRemains',
         \/ call[c].op \in Alone
         \/ ActiveAdmin(u) => x.status = "ACTIVE" /\ x.role = "ADMIN"
         \/ call[c].op \in Serializable /\ call[c].checked
  PROVE  AccountInv'
  <1>1. TypeOK'
    BY CommittedType DEF AccountInv, TypeOK
  <1>2. /\ call'[c] = NoCall
        /\ \A d \in Calls \ {c} :
              /\ call'[d].op = call[d].op /\ call'[d].user = call[d].user
              /\ call'[d].phase = call[d].phase /\ call'[d].checked = call[d].checked
              /\ call'[d].role = call[d].role /\ call'[d].drop = call[d].drop
              /\ ~call'[d].stale => ~call[d].stale /\ ~Overtakes(c, u, d)
    BY CommittedOthers
  <1>3. NoCall.op = "none" /\ NoCall.phase = "idle" /\ "none" \notin Alone
    BY AccountsAssumption DEF NoCall, Operations, Serializable, Decisions
  <1>4. AloneIsAlone'
    BY <1>2, <1>3, NoneAlone DEF AloneIsAlone, Idle
  <1>5. \A d \in Calls : CallKnown(d)'
    BY <1>2, <1>3 DEF AccountInv, CallKnown, Idle
  <1>6. CallSafe(c)'
    BY <1>2, <1>3 DEF CallSafe, ChangeSafe, RejectSafe, DeleteSafe, Serializable
  <1>7. ASSUME NEW d \in Calls, d # c PROVE CallSafe(d)'
    <2>1. call[d].op \notin Alone
      BY <1>7, NoneAlone
    <2>2. RejectSafe(d)' /\ DeleteSafe(d)'
      BY <1>2, <1>7, <2>1 DEF RejectSafe, DeleteSafe, NotOverlapped
    <2>3. SUFFICES ASSUME (call[d].op \in Serializable /\ call[d].phase = "read" /\ ~call[d].stale),
                          ~Overtakes(c, u, d)
                   PROVE  /\ users'[call[d].user].status # "absent"
                          /\ call[d].checked =>
                                \E v \in Users : /\ v # call[d].user
                                                 /\ users'[v].status = "ACTIVE"
                                                 /\ users'[v].role = "ADMIN"
                          /\ ~call[d].checked => users'[call[d].user].role # "ADMIN"
      BY <1>2, <1>7, <2>2 DEF CallSafe, ChangeSafe, OtherAdmin, ActiveAdmin
    <2>4. /\ users[call[d].user].status # "absent"
          /\ IF call[d].checked THEN OtherAdmin(call[d].user)
                                ELSE users[call[d].user].role # "ADMIN"
      BY <2>3 DEF AccountInv, CallSafe, ChangeSafe
    <2>5. call[d].user # u /\ ~(call[c].op \in Serializable /\ call[c].checked /\ call[d].checked)
      BY <2>3 DEF Overtakes
    <2>6. \A v \in Users \ {u} : users'[v] = users[v]
      BY DEF AccountInv, TypeOK
    <2>7. call[d].user \in Users
      BY <2>3 DEF AccountInv, CallKnown, Serializable
    <2>8. users'[u] = x
      BY DEF AccountInv, TypeOK
    <2>9. CASE call[d].checked
      <3>1. PICK v \in Users : v # call[d].user /\ ActiveAdmin(v)
        BY <2>4, <2>9 DEF OtherAdmin
      <3>2. ~Idle(d)
        BY <2>3 DEF Idle
      <3>3. call[c].op \notin Alone
        BY <1>7, <3>2, NoneAlone
      <3>4. users'[v].status = "ACTIVE" /\ users'[v].role = "ADMIN"
        BY <2>5, <2>6, <2>8, <2>9, <3>1, <3>3 DEF ActiveAdmin
      <3> QED  BY <2>4, <2>5, <2>6, <2>7, <2>9, <3>1, <3>4
    <2>10. CASE ~call[d].checked
      BY <2>4, <2>5, <2>6, <2>7, <2>10
    <2> QED  BY <2>9, <2>10
  <1> QED  BY <1>1, <1>4, <1>5, <1>6, <1>7 DEF AccountInv

(* approve and enable add administrators; reject finds its account pending *)
(* still, so that the account it disables is not the last administrator.   *)
LEMMA WriteDecisionKeepsInv ==
  ASSUME AccountInv, NotOverlapped, NEW c \in Calls, WriteDecision(c) PROVE AccountInv'
  <1> DEFINE u == call[c].user
             x == [users[u] EXCEPT !.status = After(call[c].op)]
  <1>1. call[c].op \in {"approve", "reject", "enable"} /\ call[c].phase = "read" /\ ~Idle(c)
    BY DEF WriteDecision, Decisions, Idle
  <1>2. u \in Users /\ users \in [Users -> User] /\ users[u] \in User
    BY <1>1 DEF AccountInv, CallKnown, TypeOK
  <1>3. After(call[c].op) \in {"ACTIVE", "DISABLED"}
    BY DEF After
  <1>4. x \in User
    BY <1>2, <1>3, UserFields
  <1>5. x.status = After(call[c].op) /\ x.role = users[u].role
    BY <1>2 DEF User
  <1>6. /\ users' = [users EXCEPT ![u] = x] /\ call' = Committed(c, u)
        /\ UNCHANGED <<local, household>>
    BY DEF WriteDecision
  <1>7. ActiveAdmin(u) => x.status = "ACTIVE" /\ x.role = "ADMIN"
    <2>1. CASE call[c].op = "reject"
      BY <1>1, <2>1 DEF AccountInv, CallSafe, RejectSafe, ActiveAdmin
    <2>2. CASE call[c].op # "reject"
      BY <1>5, <2>2 DEF ActiveAdmin, After
    <2> QED  BY <2>1, <2>2
  <1>8. members' \subseteq Users /\ local' \in Users \cup {None} /\ household' \in BOOLEAN
    BY <1>2, <1>6 DEF AccountInv, TypeOK, WriteDecision
  <1>9. AdminRemains'
    BY <1>2, <1>6, <1>7 DEF AccountInv, AdminRemains, ActiveAdmins, ActiveAdmin
  <1>10. x.status # "absent"
    BY <1>3, <1>5
  <1> HIDE DEF x, u
  <1> QED  BY <1>1, <1>2, <1>4, <1>6, <1>7, <1>8, <1>9, <1>10, CommitStep

(* A transaction that is not doomed either changes no administrator or     *)
(* leaves another one.                                                     *)
LEMMA CommitChangeKeepsInv ==
  ASSUME AccountInv, NotOverlapped, NEW c \in Calls, CommitChange(c) PROVE AccountInv'
  <1> DEFINE u == call[c].user
             x == IF call[c].op = "disable" THEN [users[u] EXCEPT !.status = "DISABLED"]
                                            ELSE [users[u] EXCEPT !.role = call[c].role]
  <1>1. /\ call[c].op \in {"disable", "setRole"} /\ call[c].phase = "read" /\ ~call[c].stale
        /\ ~Idle(c) /\ call[c].op \in Serializable
    BY DEF CommitChange, Serializable, Idle
  <1>2. u \in Users /\ users \in [Users -> User] /\ users[u] \in User /\ call[c].role \in Roles
    BY <1>1 DEF AccountInv, CallKnown, TypeOK, Call
  <1>3. x \in User
    BY <1>2, UserFields
  <1>4. /\ users' = [users EXCEPT ![u] = x] /\ call' = Committed(c, u)
        /\ UNCHANGED <<local, household, members>>
    BY <1>1 DEF CommitChange
  <1>5. /\ users[u].status # "absent"
        /\ IF call[c].checked THEN OtherAdmin(u) ELSE users[u].role # "ADMIN"
    BY <1>1 DEF AccountInv, CallSafe, ChangeSafe
  <1>6. x.status # "absent"
    BY <1>2, <1>5 DEF User
  <1>7. ActiveAdmin(u) => call[c].checked
    BY <1>5 DEF ActiveAdmin
  <1>8. AdminRemains'
    <2>1. CASE call[c].checked
      BY <1>2, <1>4, <1>5, <2>1 DEF OtherAdmin, AdminRemains, ActiveAdmins, ActiveAdmin
    <2>2. CASE ~call[c].checked
      <3>1. PICK v \in Users : ActiveAdmin(v)
        BY DEF AccountInv, AdminRemains, ActiveAdmins
      <3> QED  BY <1>2, <1>4, <1>7, <2>2, <3>1 DEF AdminRemains, ActiveAdmins, ActiveAdmin
    <2> QED  BY <2>1, <2>2
  <1>9. members' \subseteq Users /\ local' \in Users \cup {None} /\ household' \in BOOLEAN
    BY <1>4 DEF AccountInv, TypeOK
  <1> HIDE DEF x, u
  <1> QED  BY <1>1, <1>2, <1>3, <1>4, <1>6, <1>7, <1>8, <1>9, CommitStep

(* Nothing overlaps a deletion, so what it has counted is still there.     *)
LEMMA DeleteAccountKeepsInv ==
  ASSUME AccountInv, NotOverlapped, NEW c \in Calls, DeleteAccount(c) PROVE AccountInv'
  <1> DEFINE u == call[c].user
             x == [users[u] EXCEPT !.status = "deleted"]
  <1>1. call[c].op = "deleteAccount" /\ call[c].phase = "read" /\ ~Idle(c)
    BY DEF DeleteAccount, Idle
  <1>2. u \in Users /\ users \in [Users -> User] /\ users[u] \in User
    BY <1>1 DEF AccountInv, CallKnown, TypeOK
  <1>3. x \in User /\ x.status # "absent"
    <2>1. x.status = "deleted"
      BY <1>2 DEF User
    <2> QED  BY <1>2, <2>1, UserFields
  <1>4. users' = [users EXCEPT ![u] = x] /\ call' = Committed(c, u)
    BY DEF DeleteAccount
  <1>5. users[u].role = "ADMIN" => OtherAdmin(u)
    BY <1>1 DEF AccountInv, CallSafe, DeleteSafe
  <1>6. AdminRemains'
    <2>1. PICK v \in Users : v # u /\ ActiveAdmin(v)
      BY <1>5 DEF AccountInv, AdminRemains, ActiveAdmins, ActiveAdmin, OtherAdmin
    <2> QED  BY <1>2, <1>4, <2>1 DEF AdminRemains, ActiveAdmins, ActiveAdmin
  <1>7. members' \subseteq Users /\ local' \in Users \cup {None} /\ household' \in BOOLEAN
    BY DEF AccountInv, TypeOK, DeleteAccount
  <1>8. call[c].op \in Alone
    BY <1>1 DEF NotOverlapped
  <1> HIDE DEF x, u
  <1> QED  BY <1>1, <1>2, <1>3, <1>4, <1>6, <1>7, <1>8, CommitStep

-----------------------------------------------------------------------------
(* Steps that add a row or a membership.                                   *)

(* A row that was absent is nobody's account yet.                          *)
LEMMA NewRow ==
  ASSUME AccountInv, NEW u \in Users, users[u].status = "absent", NEW x \in User,
         users' = [users EXCEPT ![u] = x], x.status \in {"PENDING_APPROVAL", "ACTIVE"},
         UNCHANGED members
  PROVE  /\ users' \in [Users -> User]
         /\ AdminRemains'
         /\ \A d \in Calls : call'[d] = call[d] => (CallKnown(d) /\ CallSafe(d))'
  <1>1. users \in [Users -> User] /\ users' \in [Users -> User]
    BY DEF AccountInv, TypeOK
  <1>2. \A v \in Users : ActiveAdmin(v) => v # u /\ users'[v] = users[v]
    BY <1>1 DEF ActiveAdmin
  <1>3. AdminRemains'
    BY <1>2 DEF AccountInv, AdminRemains, ActiveAdmins, ActiveAdmin
  <1>4. ASSUME NEW d \in Calls, call'[d] = call[d] PROVE (CallKnown(d) /\ CallSafe(d))'
    <2>1. CallKnown(d) /\ ChangeSafe(d) /\ RejectSafe(d) /\ DeleteSafe(d)
      BY DEF AccountInv, CallSafe
    <2>2. CallKnown(d)'
      BY <1>4, <2>1 DEF CallKnown, Idle
    <2>3. \A v \in Users : v # u => users'[v] = users[v]
      BY <1>1
    <2>4. \A v \in Users : OtherAdmin(v) =>
             \E y \in Users : y # v /\ users'[y].status = "ACTIVE" /\ users'[y].role = "ADMIN"
      BY <1>2 DEF OtherAdmin, ActiveAdmin
    <2>5. ChangeSafe(d)'
      BY <1>4, <2>1, <2>3, <2>4 DEF ChangeSafe, CallKnown, Serializable, OtherAdmin, ActiveAdmin
    <2>6. RejectSafe(d)'
      BY <1>4, <2>1, <2>3 DEF RejectSafe, CallKnown
    <2>7. DeleteSafe(d)'
      BY <1>4, <2>1, <2>3, <2>4 DEF DeleteSafe, CallKnown, OtherAdmin, ActiveAdmin
    <2> QED  BY <2>2, <2>5, <2>6, <2>7 DEF CallSafe
  <1> QED  BY <1>1, <1>3, <1>4

(* A registration adds a waiting account. *)
LEMMA RegisterKeepsInv ==
  ASSUME AccountInv, NEW u \in Users, NEW named \in BOOLEAN, Register(u, named)
  PROVE  AccountInv'
  <1> DEFINE x == [status |-> "PENDING_APPROVAL", role |-> "USER"]
  <1>1. x \in User /\ x.status = "PENDING_APPROVAL"
    BY DEF User, Roles
  <1>2. /\ users[u].status = "absent" /\ users' = [users EXCEPT ![u] = x]
        /\ UNCHANGED <<household, members, call>> /\ local' \in Users \cup {None}
    BY DEF Register, AccountInv, TypeOK
  <1>3. /\ users' \in [Users -> User]
        /\ AdminRemains'
        /\ \A d \in Calls : (CallKnown(d) /\ CallSafe(d))'
    BY <1>1, <1>2, NewRow
  <1>4. TypeOK' /\ AloneIsAlone'
    BY <1>2, <1>3 DEF AccountInv, TypeOK, AloneIsAlone, Idle
  <1> QED  BY <1>3, <1>4 DEF AccountInv

(* The bootstrap creates the administrator, or finds the row there by now. *)
LEMMA CreateLocalAdminKeepsInv ==
  ASSUME AccountInv, NotOverlapped, NEW c \in Calls, CreateLocalAdmin(c) PROVE AccountInv'
  <1> DEFINE r == [[call[c] EXCEPT !.phase = "household"] EXCEPT !.user = local']
  <1>1. call[c].op = "bootstrap" /\ ~Idle(c) /\ UNCHANGED <<household, members>>
    BY DEF CreateLocalAdmin, Idle
  <1>2. call[c] \in Call /\ call \in [Calls -> Call] /\ local \in Users \cup {None}
    BY DEF AccountInv, TypeOK
  <1>3. call' = [call EXCEPT ![c] = r]
    BY <1>2 DEF CreateLocalAdmin, Call
  <1>4. local' \in Users
    BY <1>2 DEF CreateLocalAdmin
  <1>5. [call[c] EXCEPT !.phase = "household"] \in Call
    BY <1>2, CallFields
  <1>6. r \in Call
    BY <1>4, <1>5, CallFields
  <1>7. /\ r.phase = "household" /\ r.op = "bootstrap" /\ r.user = local'
        /\ call'[c] = r /\ \A d \in Calls \ {c} : call'[d] = call[d]
    BY <1>1, <1>2, <1>3 DEF Call
  <1>8. CallKnown(c)'
    BY <1>4, <1>7 DEF CallKnown, Idle
  <1>9. CallSafe(c)'
    BY <1>7 DEF CallSafe, ChangeSafe, RejectSafe, DeleteSafe, Serializable
  <1>10. /\ users' \in [Users -> User]
         /\ AdminRemains'
         /\ \A d \in Calls : call'[d] = call[d] => (CallKnown(d) /\ CallSafe(d))'
    <2>1. CASE UNCHANGED <<users, local>>
      <3>1. users' \in [Users -> User] /\ AdminRemains'
        BY <2>1 DEF AccountInv, TypeOK, AdminRemains, ActiveAdmins, ActiveAdmin
      <3>2. ASSUME NEW d \in Calls, call'[d] = call[d] PROVE (CallKnown(d) /\ CallSafe(d))'
        BY <1>1, <2>1, <3>2 DEF AccountInv, CallKnown, CallSafe, ChangeSafe, RejectSafe,
                                DeleteSafe, Idle, OtherAdmin, ActiveAdmin
      <3> QED  BY <3>1, <3>2
    <2>2. ASSUME NEW u \in Users, users[u].status = "absent",
                 users' = [users EXCEPT ![u] = [status |-> "ACTIVE", role |-> "ADMIN"]]
          PROVE  /\ users' \in [Users -> User]
                 /\ AdminRemains'
                 /\ \A d \in Calls : call'[d] = call[d] => (CallKnown(d) /\ CallSafe(d))'
      <3>1. [status |-> "ACTIVE", role |-> "ADMIN"] \in User
        BY DEF User, Roles
      <3>2. [status |-> "ACTIVE", role |-> "ADMIN"].status = "ACTIVE"
        OBVIOUS
      <3> QED  BY <1>1, <2>2, <3>1, <3>2, NewRow
    <2> QED  BY <2>1, <2>2 DEF CreateLocalAdmin
  <1>11. TypeOK'
    BY <1>1, <1>2, <1>3, <1>4, <1>6, <1>10 DEF AccountInv, TypeOK
  <1>12. ASSUME NEW d \in Calls, NEW e \in Calls, call'[d].op \in Alone, e # d PROVE Idle(e)'
    <2>1. CASE d = c
      <3>1. Idle(e)
        BY <1>1, <1>7, <1>12, <2>1, NoneAlone
      <3> QED  BY <1>7, <1>12, <2>1, <3>1 DEF Idle
    <2>2. CASE d # c
      <3>1. call[d].op \in Alone
        BY <1>7, <1>12, <2>2
      <3> QED  BY <1>1, <2>2, <3>1, NoneAlone
    <2> QED  BY <2>1, <2>2
  <1>13. AloneIsAlone'
    BY <1>12 DEF AloneIsAlone
  <1> QED  BY <1>7, <1>8, <1>9, <1>10, <1>11, <1>13 DEF AccountInv

(* A membership is added while no deletion is under way.                   *)
LEMMA EnsureDefaultHouseholdKeepsInv ==
  ASSUME AccountInv, NotOverlapped, NEW c \in Calls, EnsureDefaultHousehold(c) PROVE AccountInv'
  <1>1. /\ call[c].op = "bootstrap" /\ call[c].phase = "household" /\ ~Idle(c)
        /\ call' = [call EXCEPT ![c] = NoCall] /\ UNCHANGED <<users, local>>
    BY DEF EnsureDefaultHousehold, Idle
  <1>2. members' \subseteq Users /\ household' \in BOOLEAN
    BY <1>1 DEF EnsureDefaultHousehold, AccountInv, TypeOK, CallKnown
  <1>3. call'[c] = NoCall /\ \A d \in Calls \ {c} : call'[d] = call[d]
    BY <1>1 DEF AccountInv, TypeOK
  <1>4. NoCall.op = "none" /\ NoCall.phase = "idle" /\ "none" \notin Alone
    BY AccountsAssumption DEF NoCall, Operations, Serializable, Decisions
  <1>5. TypeOK' /\ AdminRemains'
    BY <1>1, <1>2, NoCallType DEF AccountInv, TypeOK, AdminRemains, ActiveAdmins, ActiveAdmin
  <1>6. AloneIsAlone'
    BY <1>1, <1>3, <1>4, NoneAlone DEF AloneIsAlone, Idle
  <1>7. (CallKnown(c) /\ CallSafe(c))'
    BY <1>3, <1>4 DEF CallKnown, CallSafe, ChangeSafe, RejectSafe, DeleteSafe, Idle,
                      Serializable
  <1>8. ASSUME NEW d \in Calls, d # c PROVE (CallKnown(d) /\ CallSafe(d))'
    <2>1. call[d].op \notin Alone
      BY <1>1, <1>8, NoneAlone
    <2>2. DeleteSafe(d)'
      BY <1>3, <1>8, <2>1 DEF DeleteSafe, NotOverlapped
    <2> QED  BY <1>1, <1>3, <1>8, <2>2 DEF AccountInv, CallKnown, CallSafe, ChangeSafe,
                                           RejectSafe, Idle, OtherAdmin, ActiveAdmin
  <1> QED  BY <1>5, <1>6, <1>7, <1>8 DEF AccountInv

-----------------------------------------------------------------------------
(* The theorems.                                                           *)

(* Any step of a request. *)
LEMMA ProceedKeepsInv ==
  ASSUME AccountInv, NotOverlapped, NEW c \in Calls, Proceed(c) PROVE AccountInv'
  BY ReadAccountKeepsInv, WriteDecisionKeepsInv, SnapshotKeepsInv, CommitChangeKeepsInv,
     AbortChangeKeepsInv, CountAdminsKeepsInv, CountMembersKeepsInv, DeleteAccountKeepsInv,
     FindLocalAdminKeepsInv, CreateLocalAdminKeepsInv, EnsureDefaultHouseholdKeepsInv,
     GiveUpKeepsInv DEF Proceed

(* At the start the local administrator is active and nobody asks. *)
LEMMA InitHoldsInv == ASSUME Init PROVE AccountInv
  <1>1. [status |-> "ACTIVE", role |-> "ADMIN"] \in User /\ NoUser \in User
    BY DEF User, NoUser, Roles
  <1>2. TypeOK
    BY <1>1, NoCallType DEF Init, TypeOK
  <1>3. AdminRemains
    BY DEF Init, AdminRemains, ActiveAdmins, ActiveAdmin
  <1>4. \A c \in Calls : call[c] = NoCall
    BY DEF Init
  <1>5. NoCall.op = "none" /\ NoCall.phase = "idle" /\ "none" \notin Alone
    BY AccountsAssumption DEF NoCall, Operations, Serializable, Decisions
  <1> QED  BY <1>2, <1>3, <1>4, <1>5 DEF AccountInv, AloneIsAlone, CallKnown, CallSafe,
                     ChangeSafe, RejectSafe, DeleteSafe, Idle, Serializable

(* The inductive invariant, when rejections and deletions are not          *)
(* overlapped by other requests.                                           *)
THEOREM AccountInvariance == ASSUME NotOverlapped PROVE Spec => []AccountInv
  <1>1. Init => AccountInv
    BY InitHoldsInv
  <1>2. AccountInv /\ [Next]_vars => AccountInv'
    <2> SUFFICES ASSUME AccountInv, [Next]_vars PROVE AccountInv'
      OBVIOUS
    <2>1. ASSUME NEW c \in Calls, Arrive(c) PROVE AccountInv'
      BY <2>1, ArriveKeepsInv
    <2>2. ASSUME NEW c \in Calls, Proceed(c) PROVE AccountInv'
      BY <2>2, ProceedKeepsInv
    <2>3. ASSUME NEW u \in Users, NEW named \in BOOLEAN, Register(u, named) PROVE AccountInv'
      BY <2>3, RegisterKeepsInv
    <2>4. CASE UNCHANGED vars
      BY <2>4 DEF vars, AccountInv, TypeOK, AdminRemains, ActiveAdmins, ActiveAdmin,
                  AloneIsAlone, CallKnown, CallSafe, ChangeSafe, RejectSafe, DeleteSafe,
                  OtherAdmin, Idle
    <2> QED  BY <2>1, <2>2, <2>3, <2>4 DEF Next
  <1> QED  BY <1>1, <1>2, PTL DEF Spec

(* Account rows, requests and memberships stay in their types.             *)
THEOREM AccountTypes == ASSUME NotOverlapped PROVE Spec => []TypeOK
  <1>1. AccountInv => TypeOK
    BY DEF AccountInv
  <1> QED  BY <1>1, AccountInvariance, PTL

(* An active administrator remains, however many requests approve, enable, *)
(* disable, promote and demote accounts at the same time.                  *)
THEOREM AdminStays == ASSUME NotOverlapped PROVE Spec => []AdminRemains
  <1>1. AccountInv => AdminRemains
    BY DEF AccountInv
  <1> QED  BY <1>1, AccountInvariance, PTL

(* A membership is lost with one's own account only.                       *)
THEOREM MembersStay == ASSUME NotOverlapped PROVE Spec => MembershipKept
  <1>1. AccountInv /\ [Next]_vars =>
          [\A u \in Users : u \in members /\ u \notin members' => users'[u].status = "deleted"]_vars
    <2> SUFFICES ASSUME AccountInv, Next, NEW u \in Users, u \in members, u \notin members'
                 PROVE  users'[u].status = "deleted"
      BY DEF vars
    <2>1. PICK c \in Calls : DeleteAccount(c)
      BY DEF Next, Arrive, Proceed, Decide, RequestDisable, RequestRole, RequestDeletion,
             StartApi, Enter, Register, ReadAccount, WriteDecision, Snapshot, CommitChange,
             AbortChange, CountAdmins, CountMembers, FindLocalAdmin, CreateLocalAdmin,
             EnsureDefaultHousehold, GiveUp
    <2>2. call[c].user = u
      BY <2>1 DEF DeleteAccount, AccountInv, CallSafe, DeleteSafe
    <2> QED  BY <2>1, <2>2 DEF DeleteAccount, AccountInv, TypeOK, User
  <1> QED  BY <1>1, AccountInvariance, PTL DEF Spec, MembershipKept

-----------------------------------------------------------------------------
(* Sessions, linking and the limits on guesses.                            *)

(* Flow f was started in link mode by user u. *)
FlowFor(fl, f, u) ==
    /\ f \in Flows /\ fl[f].state # "none"
    /\ fl[f].link /\ fl[f].starter = u

(* A session in link mode holds a flow that its own user started for       *)
(* linking.                                                                *)
OwnFlow(fl, c) == c.link => FlowFor(fl, c.flow, c.user)

(* A callback under way has taken the link mode out of its copy; if it is  *)
(* to link, the flow of its copy was started by the user it links to.      *)
CallbackFits(fl, q) ==
    q.kind = "callback" =>
        /\ q.flow \in Flows /\ fl[q.flow].state # "none"
        /\ ~q.copy.link
        /\ q.user # NoOne => FlowFor(fl, q.copy.flow, q.user)

(* Why an identity is linked by its owner only: wherever the link mode is, *)
(* in the store or in a copy, the flow of the session's user goes with it. *)
LinkInv ==
    /\ \A s \in 1..MaxSids : OwnFlow(flows, sessions[s])
    /\ \A r \in Requests : OwnFlow(flows, requests[r].copy) /\ CallbackFits(flows, requests[r])
    /\ \A l \in links : FlowFor(flows, l.flow, l.user)

(* Why an id has one user: ids are given out once, and everybody who holds *)
(* a copy under an id holds a copy of its user's session.                  *)
SidInv ==
    /\ \A s \in 1..MaxSids : sessions[s].there => s <= lastSid
    /\ \A r \in Requests : requests[r].sid <= lastSid
    /\ \A r \in Requests :
         requests[r].sid # 0 /\ sessions[requests[r].sid].there =>
             sessions[requests[r].sid].user = requests[r].copy.user
    /\ \A r, q \in Requests :
         requests[r].sid # 0 /\ requests[q].sid = requests[r].sid =>
             requests[q].copy.user = requests[r].copy.user

(* Requests between arrival and answer. *)
Busy == {r \in Requests : requests[r].phase = "work"}

(* Requests that may still turn out to be a wrong guess for scope s. *)
Guessing(s) ==
    {r \in Busy : requests[r].kind \in {"local", "register", "change"}
                  /\ ScopeOf(requests[r].kind) = s}

(* Why guesses are bounded: what is counted and what may still be counted  *)
(* is no more than the limit and one request each that passed the check    *)
(* before.                                                                 *)
CountInv ==
    \A s \in Scopes :
        /\ guesses[s] + Cardinality(Busy) <= served
        /\ counters[s].count <= guesses[s]
        /\ s \notin excused =>
             /\ guesses[s] = counters[s].count
             /\ guesses[s] + Cardinality(Guessing(s)) <= MaxGuesses + Cardinality(Requests) - 1

(* A counter of any height; how high it gets follows from CountInv. *)
CounterSet == [count : Nat, expires : BOOLEAN]

(* Types, with counters of any height. *)
LoginTypes ==
    /\ active \subseteq Accounts
    /\ bound \in [Accounts -> Identities \cup {NoOne}]
    /\ sessions \in [1..MaxSids -> SessionSet]
    /\ cookie \in 0..MaxSids /\ lastSid \in 0..MaxSids
    /\ flows \in [Flows -> FlowSet]
    /\ requests \in [Requests -> RequestSet]
    /\ counters \in [Scopes -> CounterSet]
    /\ guesses \in [Scopes -> Nat]
    /\ excused \subseteq Scopes
    /\ links \subseteq [user : Accounts, flow : Flows]
    /\ served \in 0..MaxRequests /\ changes \in 0..MaxChanges

(* The inductive invariant. *)
LoginInv == LoginTypes /\ LinkInv /\ SidInv /\ CountInv /\ BlocksEnd

-----------------------------------------------------------------------------
(* The fields of a session. *)
LEMMA SessionShape ==
    ASSUME NEW u \in Accounts \cup {NoOne}, NEW f \in Flows \cup {NoOne}, NEW k \in BOOLEAN
    PROVE  /\ Session(u, f, k) \in SessionSet
           /\ Session(u, f, k).user = u /\ Session(u, f, k).flow = f
           /\ Session(u, f, k).link = k /\ Session(u, f, k).there
BY DEF Session, SessionSet

(* A place in the store without a session. *)
LEMMA NoSessionShape ==
    NoSession \in SessionSet /\ ~NoSession.there /\ ~NoSession.link
<1>1. Session(NoOne, NoOne, FALSE) \in SessionSet
  BY SessionShape
<1>. QED BY <1>1 DEF NoSession, Session, SessionSet

(* A place without a request. *)
LEMMA NoRequestShape ==
    ASSUME LoginAssumption
    PROVE  /\ NoRequest \in RequestSet
           /\ NoRequest.kind = "none" /\ NoRequest.phase = "idle" /\ NoRequest.sid = 0
           /\ NoRequest.copy = NoSession
BY NoSessionShape DEF NoRequest, RequestSet, LoginAssumption

(* A request gets a copy of the session its cookie names, or an empty one  *)
(* without an id.                                                          *)
LEMMA LoadedShape ==
    ASSUME LoginAssumption, LoginTypes, NEW kind \in Kinds
    PROVE  /\ Loaded(kind) \in RequestSet
           /\ Loaded(kind).kind = kind /\ Loaded(kind).phase = "work"
           /\ Loaded(kind).user = NoOne
           /\ \/ /\ cookie \in 1..MaxSids /\ sessions[cookie].there
                 /\ Loaded(kind).sid = cookie
                 /\ Loaded(kind).copy = sessions[cookie]
              \/ /\ Loaded(kind).sid = 0
                 /\ Loaded(kind).copy = Session(NoOne, NoOne, FALSE)
<1>1. NoRequest \in RequestSet
  BY NoRequestShape
<1>2. Session(NoOne, NoOne, FALSE) \in SessionSet
  BY SessionShape
<1>3. cookie # 0 => cookie \in 1..MaxSids
  BY DEF LoginTypes, LoginAssumption
<1>4. cookie # 0 => sessions[cookie] \in SessionSet
  BY <1>3 DEF LoginTypes
<1>. DEFINE L(n, c) == [NoRequest EXCEPT !.kind = kind, !.phase = "work",
                                          !.sid = n, !.copy = c]
<1>5. ASSUME NEW n \in 0..MaxSids, NEW c \in SessionSet
      PROVE  /\ L(n, c) \in RequestSet /\ L(n, c).kind = kind /\ L(n, c).phase = "work"
             /\ L(n, c).sid = n /\ L(n, c).copy = c /\ L(n, c).user = NoRequest.user
  BY <1>1 DEF RequestSet
<1>6. NoRequest.user = NoOne
  BY DEF NoRequest
<1>7. CASE cookie # 0 /\ sessions[cookie].there
  <2>1. Loaded(kind) = L(cookie, sessions[cookie])
    BY <1>7 DEF Loaded
  <2>2. cookie \in 0..MaxSids /\ sessions[cookie] \in SessionSet
    BY <1>4, <1>7 DEF LoginTypes
  <2>. HIDE DEF L
  <2>3. /\ L(cookie, sessions[cookie]) \in RequestSet
        /\ L(cookie, sessions[cookie]).kind = kind
        /\ L(cookie, sessions[cookie]).phase = "work"
        /\ L(cookie, sessions[cookie]).sid = cookie
        /\ L(cookie, sessions[cookie]).copy = sessions[cookie]
        /\ L(cookie, sessions[cookie]).user = NoOne
    BY <1>5, <1>6, <2>2
  <2>4. cookie \in 1..MaxSids /\ sessions[cookie].there
    BY <1>3, <1>7
  <2>. QED BY <2>1, <2>3, <2>4
<1>8. CASE ~(cookie # 0 /\ sessions[cookie].there)
  <2>1. Loaded(kind) = L(0, Session(NoOne, NoOne, FALSE))
    BY <1>8 DEF Loaded
  <2>2. 0 \in 0..MaxSids
    BY DEF LoginAssumption
  <2>. HIDE DEF L
  <2>3. /\ L(0, Session(NoOne, NoOne, FALSE)) \in RequestSet
        /\ L(0, Session(NoOne, NoOne, FALSE)).kind = kind
        /\ L(0, Session(NoOne, NoOne, FALSE)).phase = "work"
        /\ L(0, Session(NoOne, NoOne, FALSE)).sid = 0
        /\ L(0, Session(NoOne, NoOne, FALSE)).copy = Session(NoOne, NoOne, FALSE)
        /\ L(0, Session(NoOne, NoOne, FALSE)).user = NoOne
    BY <1>2, <1>5, <1>6, <2>2
  <2>. QED BY <2>1, <2>3
<1>. QED BY <1>7, <1>8

-----------------------------------------------------------------------------
(* What a request may be that arrives.                                     *)

(* What holds of a request when it arrives. *)
Arrived(q) ==
    /\ q \in RequestSet /\ q.phase = "work"
    /\ OwnFlow(flows, q.copy) /\ CallbackFits(flows, q)
    /\ q.sid <= lastSid
    /\ q.sid # 0 => q.sid \in 1..MaxSids /\ sessions[q.sid].there
                    /\ sessions[q.sid].user = q.copy.user

(* The copy of the session is as good as the session. *)
LEMMA LoadedArrived ==
    ASSUME LoginAssumption, LoginTypes, LinkInv, SidInv, NEW kind \in Kinds \ {"callback"}
    PROVE  Arrived(Loaded(kind))
<1>1. kind \in Kinds
  OBVIOUS
<1>2. /\ Loaded(kind) \in RequestSet /\ Loaded(kind).phase = "work"
      /\ Loaded(kind).kind # "callback"
  BY <1>1, LoadedShape
<1>3. CASE /\ cookie \in 1..MaxSids /\ sessions[cookie].there
           /\ Loaded(kind).sid = cookie /\ Loaded(kind).copy = sessions[cookie]
  BY <1>2, <1>3 DEF Arrived, LinkInv, SidInv, CallbackFits
<1>4. CASE /\ Loaded(kind).sid = 0 /\ Loaded(kind).copy = Session(NoOne, NoOne, FALSE)
  BY <1>2, <1>4 DEF Arrived, CallbackFits, OwnFlow, Session, LoginTypes
<1>. QED BY <1>1, <1>3, <1>4, LoadedShape

\* Fields that a request may carry besides do not matter to that.
LEMMA ArrivedWith ==
    ASSUME LoginAssumption, LoginTypes, LinkInv, SidInv, NEW kind \in Kinds \ {"callback"},
           NEW u \in Accounts \cup {NoOne}, NEW right \in BOOLEAN
    PROVE  /\ Arrived([Loaded(kind) EXCEPT !.user = u, !.right = right])
           /\ Arrived([Loaded(kind) EXCEPT !.right = right])
           /\ [Loaded(kind) EXCEPT !.user = u, !.right = right].kind = kind
           /\ [Loaded(kind) EXCEPT !.right = right].kind = kind
<1>. DEFINE l == Loaded(kind)
<1>1. Arrived(l) /\ l.kind = kind
  BY LoadedArrived, LoadedShape
<1>2. l \in RequestSet
  BY <1>1 DEF Arrived
<1>. HIDE DEF l
<1>. DEFINE n == [l EXCEPT !.user = u, !.right = right]
            m == [l EXCEPT !.right = right]
<1>3. /\ n \in RequestSet /\ n.phase = l.phase /\ n.kind = l.kind /\ n.copy = l.copy
      /\ n.sid = l.sid
  BY <1>2 DEF RequestSet
<1>4. /\ m \in RequestSet /\ m.phase = l.phase /\ m.kind = l.kind /\ m.copy = l.copy
      /\ m.sid = l.sid
  BY <1>2 DEF RequestSet
<1>. HIDE DEF n, m
<1>5. Arrived(n) /\ n.kind = kind
  BY <1>1, <1>3 DEF Arrived, CallbackFits
<1>6. Arrived(m) /\ m.kind = kind
  BY <1>1, <1>4 DEF Arrived, CallbackFits
<1>. QED BY <1>5, <1>6 DEF n, m, l

(* A callback in link mode takes the user from the session and the mode    *)
(* out of it.                                                              *)
LEMMA CallbackArrived ==
    ASSUME LoginAssumption, LoginTypes, LinkInv, SidInv,
           NEW f \in Flows, NEW i \in Identities, flows[f].state # "none"
    PROVE  LET l == Loaded("callback")
               q == [l EXCEPT !.flow = f, !.identity = i,
                               !.user = IF l.copy.link THEN l.copy.user ELSE NoOne,
                               !.copy = IF l.copy.link
                                        THEN Session(l.copy.user, l.copy.flow, FALSE)
                                        ELSE l.copy]
           IN  Arrived(q) /\ q.kind = "callback"
<1>. DEFINE l == Loaded("callback")
            c == IF l.copy.link THEN Session(l.copy.user, l.copy.flow, FALSE) ELSE l.copy
            u == IF l.copy.link THEN l.copy.user ELSE NoOne
            q == [l EXCEPT !.flow = f, !.identity = i, !.user = u, !.copy = c]
<1>1. /\ l \in RequestSet /\ l.kind = "callback" /\ l.phase = "work"
      /\ \/ /\ cookie \in 1..MaxSids /\ sessions[cookie].there
            /\ l.sid = cookie /\ l.copy = sessions[cookie]
         \/ l.sid = 0 /\ l.copy = Session(NoOne, NoOne, FALSE)
  BY LoadedShape DEF Kinds
<1>2. l.sid <= lastSid /\ OwnFlow(flows, l.copy)
  BY <1>1 DEF LinkInv, SidInv, OwnFlow, Session, LoginTypes
<1>3. l.sid # 0 => l.sid \in 1..MaxSids /\ sessions[l.sid].there
                   /\ sessions[l.sid].user = l.copy.user
  BY <1>1
<1>4. l.copy \in SessionSet
  BY <1>1 DEF RequestSet
<1>. HIDE DEF l
<1>5. c \in SessionSet /\ c.user = l.copy.user /\ c.flow = l.copy.flow /\ ~c.link
  BY <1>4, SessionShape DEF SessionSet
<1>6. u \in Accounts \cup {NoOne}
  BY <1>4 DEF SessionSet
<1>7. u # NoOne => FlowFor(flows, c.flow, u)
  BY <1>2, <1>5 DEF OwnFlow
<1>. HIDE DEF c, u
<1>8. /\ q \in RequestSet /\ q.phase = l.phase /\ q.kind = l.kind /\ q.copy = c
      /\ q.sid = l.sid /\ q.flow = f /\ q.user = u
  BY <1>1, <1>5, <1>6 DEF RequestSet
<1>. HIDE DEF q
<1>9. Arrived(q) /\ q.kind = "callback"
  BY <1>1, <1>2, <1>3, <1>5, <1>7, <1>8 DEF Arrived, CallbackFits, OwnFlow
<1>. QED BY <1>9 DEF q, c, u, l

-----------------------------------------------------------------------------
(* The session store and the flows.                                        *)

(* Flows are started once, and what they are for does not change. *)
FlowsKept ==
    /\ \A f, u : FlowFor(flows, f, u) => FlowFor(flows', f, u)
    /\ \A f \in Flows : flows[f].state # "none" => flows'[f].state # "none"

(* A session that stays keeps its user. *)
SidKept ==
    \A s \in 1..MaxSids :
        (sessions[s].there /\ sessions'[s].there) => sessions'[s].user = sessions[s].user

(* Types of the store and the requests. *)
StoreTypes ==
    /\ sessions \in [1..MaxSids -> SessionSet]
    /\ cookie \in 0..MaxSids /\ lastSid \in 0..MaxSids
    /\ requests \in [Requests -> RequestSet]

(* Nothing happens to flows. *)
LEMMA SameFlows ==
    ASSUME UNCHANGED flows
    PROVE  FlowsKept
BY DEF FlowsKept

(* A flow that starts was not there before. *)
LEMMA FlowStarts ==
    ASSUME LoginTypes, NEW f \in Flows, NEW x \in FlowSet,
           flows[f].state = "none", flows' = [flows EXCEPT ![f] = x]
    PROVE  FlowsKept
BY DEF FlowsKept, FlowFor, LoginTypes

(* Using a flow keeps who started it for what. *)
LEMMA FlowIsUsed ==
    ASSUME LoginTypes, NEW f \in Flows, flows' = Used(f)
    PROVE  FlowsKept /\ flows' \in [Flows -> FlowSet]
<1>1. \A g \in Flows : /\ flows[g] \in FlowSet /\ flows'[g] \in FlowSet
                       /\ flows'[g].link = flows[g].link
                       /\ flows'[g].starter = flows[g].starter
                       /\ flows'[g].state = IF g = f THEN "used" ELSE flows[g].state
  BY DEF LoginTypes, Used, FlowSet
<1>2. FlowsKept
  BY <1>1 DEF FlowsKept, FlowFor
<1>3. flows' = [g \in Flows |-> flows'[g]]
  BY DEF Used, LoginTypes
<1>. QED BY <1>1, <1>2, <1>3

\* Requests are as they were, or fit the flows in themselves.
LEMMA LinkStep ==
    ASSUME LinkInv, FlowsKept,
           \A s \in 1..MaxSids : sessions'[s] = sessions[s] \/ OwnFlow(flows', sessions'[s]),
           \A r \in Requests : \/ requests'[r] = requests[r]
                               \/ /\ OwnFlow(flows', requests'[r].copy)
                                  /\ CallbackFits(flows', requests'[r]),
           \A l \in links' : l \in links \/ FlowFor(flows', l.flow, l.user)
    PROVE  LinkInv'
<1>1. \A c : OwnFlow(flows, c) => OwnFlow(flows', c)
  BY DEF FlowsKept, OwnFlow
<1>2. \A q : CallbackFits(flows, q) => CallbackFits(flows', q)
  BY DEF FlowsKept, CallbackFits
<1>3. \A s \in 1..MaxSids : OwnFlow(flows', sessions'[s])
  BY <1>1 DEF LinkInv
<1>4. \A r \in Requests : /\ OwnFlow(flows', requests'[r].copy)
                          /\ CallbackFits(flows', requests'[r])
  BY <1>1, <1>2 DEF LinkInv
<1>5. \A l \in links' : FlowFor(flows', l.flow, l.user)
  BY DEF LinkInv, FlowsKept
<1>. QED BY <1>3, <1>4, <1>5 DEF LinkInv

(* A session or a request that is not there has no flow to account for. *)
LEMMA GoneFits ==
    \A fl : OwnFlow(fl, NoSession) /\ OwnFlow(fl, NoRequest.copy) /\ CallbackFits(fl, NoRequest)
BY NoSessionShape DEF OwnFlow, CallbackFits, NoRequest

(* A request ends and the others go on. *)
LEMMA RequestEnds ==
    ASSUME LoginAssumption, LoginTypes, NEW r \in Requests,
           requests' = [requests EXCEPT ![r] = NoRequest]
    PROVE  /\ requests' \in [Requests -> RequestSet]
           /\ \A q \in Requests : requests'[q] = IF q = r THEN NoRequest ELSE requests[q]
BY NoRequestShape DEF LoginTypes

(* The answer of a request is typed. *)
LEMMA AnswerTypes ==
    ASSUME LoginAssumption, LoginTypes, NEW r \in Requests, NEW sid \in 0..MaxSids,
           NEW copy \in SessionSet, NEW changed \in BOOLEAN,
           Answer(r, sid, copy, changed)
    PROVE  StoreTypes'
<1>1. requests' \in [Requests -> RequestSet]
  BY RequestEnds DEF Answer
<1>2. CASE ~changed
  BY <1>1, <1>2 DEF Answer, StoreTypes, LoginTypes
<1>3. CASE changed
  <2>. DEFINE s == IF sid = 0 THEN lastSid + 1 ELSE sid
  <2>1. /\ s <= MaxSids /\ sessions' = [sessions EXCEPT ![s] = copy]
        /\ cookie' = s /\ lastSid' = IF sid = 0 THEN s ELSE lastSid
    BY <1>3 DEF Answer
  <2>2. s \in 1..MaxSids
    BY <2>1 DEF LoginTypes, LoginAssumption
  <2>. HIDE DEF s
  <2>3. sessions' \in [1..MaxSids -> SessionSet]
    BY <2>1 DEF LoginTypes
  <2>4. cookie' \in 0..MaxSids /\ lastSid' \in 0..MaxSids
    BY <2>1, <2>2 DEF LoginTypes
  <2>. QED BY <1>1, <2>3, <2>4 DEF StoreTypes
<1>. QED BY <1>2, <1>3

(* An answer that stores a copy with its own flow keeps LinkInv. *)
LEMMA AnswerLinks ==
    ASSUME LoginAssumption, LoginTypes, LinkInv, NEW r \in Requests, NEW sid \in 0..MaxSids,
           NEW copy \in SessionSet, NEW changed \in BOOLEAN,
           Answer(r, sid, copy, changed), FlowsKept,
           changed => OwnFlow(flows', copy),
           \A l \in links' : l \in links \/ FlowFor(flows', l.flow, l.user)
    PROVE  LinkInv'
<1>1. \A q \in Requests : requests'[q] = IF q = r THEN NoRequest ELSE requests[q]
  BY RequestEnds DEF Answer
<1>2. \A q \in Requests : \/ requests'[q] = requests[q]
                          \/ /\ OwnFlow(flows', requests'[q].copy)
                             /\ CallbackFits(flows', requests'[q])
  BY <1>1, GoneFits
<1>3. \A s \in 1..MaxSids : sessions'[s] = sessions[s] \/ OwnFlow(flows', sessions'[s])
  <2>1. CASE ~changed
    BY <2>1 DEF Answer
  <2>2. CASE changed
    BY <2>2 DEF Answer, LoginTypes
  <2>. QED BY <2>1, <2>2
<1>. QED BY <1>2, <1>3, LinkStep

(* An answer under the request's id stores that id's user, so SidInv       *)
(* stays.                                                                  *)
LEMMA AnswerSids ==
    ASSUME LoginAssumption, LoginTypes, SidInv, NEW r \in Requests,
           NEW copy \in SessionSet, NEW changed \in BOOLEAN,
           Answer(r, requests[r].sid, copy, changed),
           changed => copy.user = requests[r].copy.user
    PROVE  SidInv' /\ SidKept
<1>1. /\ \A q \in Requests : requests'[q] = IF q = r THEN NoRequest ELSE requests[q]
      /\ NoRequest.sid = 0
  BY RequestEnds, NoRequestShape DEF Answer
<1>2. \A q \in Requests : requests[q].sid \in 0..MaxSids
  BY DEF LoginTypes, RequestSet
<1>3. lastSid \in 0..MaxSids /\ MaxSids \in Nat /\ sessions \in [1..MaxSids -> SessionSet]
  BY DEF LoginTypes, LoginAssumption
<1>4. CASE ~changed
  <2>1. sessions' = sessions /\ lastSid' = lastSid
    BY <1>4 DEF Answer
  <2>2. SidKept
    BY <2>1 DEF SidKept
  <2>3. /\ \A s \in 1..MaxSids : sessions'[s].there => s <= lastSid'
        /\ \A q \in Requests : requests'[q].sid <= lastSid'
    BY <1>1, <1>3, <2>1 DEF SidInv
  <2>4. \A q \in Requests :
          requests'[q].sid # 0 /\ sessions'[requests'[q].sid].there =>
              sessions'[requests'[q].sid].user = requests'[q].copy.user
    BY <1>1, <2>1 DEF SidInv
  <2>5. \A p, q \in Requests : requests'[p].sid # 0 /\ requests'[q].sid = requests'[p].sid =>
                                   requests'[q].copy.user = requests'[p].copy.user
    BY <1>1 DEF SidInv
  <2>. QED BY <2>2, <2>3, <2>4, <2>5 DEF SidInv
<1>5. CASE changed /\ requests[r].sid = 0
  <2>1. /\ lastSid' = lastSid + 1 /\ lastSid' \in 1..MaxSids
        /\ \A s \in 1..MaxSids : sessions'[s] = IF s = lastSid' THEN copy ELSE sessions[s]
    BY <1>3, <1>5 DEF Answer
  <2>2. ~sessions[lastSid'].there
    BY <1>3, <2>1 DEF SidInv
  <2>3. \A q \in Requests : requests[q].sid # lastSid'
    BY <1>2, <1>3, <2>1 DEF SidInv
  <2>4. SidKept
    BY <2>1, <2>2 DEF SidKept
  <2>5. \A s \in 1..MaxSids : sessions'[s].there => s <= lastSid'
    BY <1>3, <2>1 DEF SidInv
  <2>6. \A q \in Requests : requests'[q].sid <= lastSid'
    BY <1>1, <1>2, <1>3, <2>1 DEF SidInv
  <2>7. \A q \in Requests :
          requests'[q].sid # 0 /\ sessions'[requests'[q].sid].there =>
              sessions'[requests'[q].sid].user = requests'[q].copy.user
    BY <1>1, <1>2, <2>1, <2>3 DEF SidInv
  <2>8. \A p, q \in Requests : requests'[p].sid # 0 /\ requests'[q].sid = requests'[p].sid =>
                                   requests'[q].copy.user = requests'[p].copy.user
    BY <1>1 DEF SidInv
  <2>. QED BY <2>4, <2>5, <2>6, <2>7, <2>8 DEF SidInv
<1>6. CASE changed /\ requests[r].sid # 0
  <2>. DEFINE sid == requests[r].sid
  <2>1. /\ lastSid' = lastSid /\ sid \in 1..MaxSids /\ sid <= lastSid
        /\ \A s \in 1..MaxSids : sessions'[s] = IF s = sid THEN copy ELSE sessions[s]
    BY <1>2, <1>3, <1>6 DEF Answer, SidInv
  <2>2. \A q \in Requests : requests[q].sid = sid => requests[q].copy.user = copy.user
    BY <1>6 DEF SidInv
  <2>3. sessions[sid].there => sessions[sid].user = copy.user
    BY <1>6 DEF SidInv
  <2>4. SidKept
    BY <2>1, <2>3 DEF SidKept
  <2>5. \A s \in 1..MaxSids : sessions'[s].there => s <= lastSid'
    BY <1>3, <2>1 DEF SidInv
  <2>6. \A q \in Requests : requests'[q].sid <= lastSid'
    BY <1>1, <1>3, <2>1 DEF SidInv
  <2>7. \A q \in Requests :
          requests'[q].sid # 0 /\ sessions'[requests'[q].sid].there =>
              sessions'[requests'[q].sid].user = requests'[q].copy.user
    BY <1>1, <1>2, <2>1, <2>2 DEF SidInv
  <2>8. \A p, q \in Requests : requests'[p].sid # 0 /\ requests'[q].sid = requests'[p].sid =>
                                   requests'[q].copy.user = requests'[p].copy.user
    BY <1>1 DEF SidInv
  <2>. QED BY <2>4, <2>5, <2>6, <2>7, <2>8 DEF SidInv
<1>. QED BY <1>4, <1>5, <1>6

(* Signing in under a new id keeps both: nobody holds a copy under the new *)
(* id.                                                                     *)
LEMMA RenewedStep ==
    ASSUME LoginAssumption, LoginTypes, LinkInv, SidInv, NEW r \in Requests, NEW u \in Accounts,
           Renewed(r, u), FlowsKept, UNCHANGED links
    PROVE  StoreTypes' /\ LinkInv' /\ SidInv' /\ SidKept
<1>. DEFINE new == Session(u, NoOne, FALSE)
<1>1. new \in SessionSet /\ new.user = u /\ ~new.link
  BY SessionShape
<1>. HIDE DEF new
<1>2. /\ requests' \in [Requests -> RequestSet]
      /\ \A q \in Requests : requests'[q] = IF q = r THEN NoRequest ELSE requests[q]
      /\ NoRequest.sid = 0
  BY RequestEnds, NoRequestShape DEF Renewed
<1>3. /\ lastSid' = lastSid + 1 /\ lastSid' \in 1..MaxSids /\ lastSid \in 0..MaxSids
      /\ cookie' = lastSid' /\ MaxSids \in Nat
  BY DEF Renewed, LoginTypes, LoginAssumption
<1>4. /\ sessions' = [s \in 1..MaxSids |->
            IF s = lastSid' THEN new ELSE IF s = requests[r].sid THEN NoSession ELSE sessions[s]]
      /\ \A s \in 1..MaxSids : sessions'[s] =
            IF s = lastSid' THEN new ELSE IF s = requests[r].sid THEN NoSession ELSE sessions[s]
  BY <1>3 DEF Renewed, new
<1>5. StoreTypes'
  <2>1. sessions' \in [1..MaxSids -> SessionSet]
    BY <1>1, <1>4, NoSessionShape DEF LoginTypes
  <2>. QED BY <1>2, <1>3, <2>1 DEF StoreTypes
<1>6. LinkInv'
  <2>1. \A s \in 1..MaxSids : sessions'[s] = sessions[s] \/ OwnFlow(flows', sessions'[s])
    BY <1>1, <1>4, GoneFits DEF OwnFlow
  <2>2. \A q \in Requests : \/ requests'[q] = requests[q]
                            \/ /\ OwnFlow(flows', requests'[q].copy)
                               /\ CallbackFits(flows', requests'[q])
    BY <1>2, GoneFits
  <2>. QED BY <2>1, <2>2, LinkStep
<1>7. \A q \in Requests : requests[q].sid \in 0..MaxSids /\ requests[q].sid # lastSid'
  BY <1>3 DEF LoginTypes, RequestSet, SidInv
<1>8. ~sessions[lastSid'].there
  BY <1>3 DEF SidInv
<1>9. SidKept
  BY <1>4, <1>8, NoSessionShape DEF SidKept
<1>10. \A s \in 1..MaxSids : sessions'[s].there => s <= lastSid'
  BY <1>3, <1>4, NoSessionShape DEF SidInv
<1>11. \A q \in Requests : requests'[q].sid <= lastSid'
  BY <1>2, <1>3, <1>7 DEF SidInv
<1>12. \A q \in Requests :
         requests'[q].sid # 0 /\ sessions'[requests'[q].sid].there =>
             sessions'[requests'[q].sid].user = requests'[q].copy.user
  BY <1>2, <1>4, <1>7, NoSessionShape DEF SidInv
<1>13. \A p, q \in Requests : requests'[p].sid # 0 /\ requests'[q].sid = requests'[p].sid =>
                                  requests'[q].copy.user = requests'[p].copy.user
  BY <1>2 DEF SidInv
<1>14. SidInv'
  BY <1>10, <1>11, <1>12, <1>13 DEF SidInv
<1>. QED BY <1>5, <1>6, <1>9, <1>14

(* Without a write to the store, no session changes its user. *)
LEMMA StoreUntouched ==
    ASSUME UNCHANGED sessions
    PROVE  SidKept
BY DEF SidKept

\* A request that arrives takes part in nothing that the others do not.
LEMMA ServeStep ==
    ASSUME LoginAssumption, LoginTypes, LinkInv, SidInv, NEW r \in Requests, NEW n,
           Arrived(n), Serve(r, n)
    PROVE  StoreTypes' /\ LinkInv' /\ SidInv' /\ SidKept
<1>1. /\ requests' \in [Requests -> RequestSet]
      /\ \A q \in Requests : requests'[q] = IF q = r THEN n ELSE requests[q]
  BY DEF Serve, Arrived, LoginTypes
<1>2. StoreTypes'
  BY <1>1 DEF StoreTypes, LoginTypes, Serve
<1>3. LinkInv'
  BY <1>1, LinkStep, SameFlows DEF Serve, Arrived
<1>4. SidInv'
  BY <1>1 DEF SidInv, Serve, Arrived
<1>. QED BY <1>2, <1>3, <1>4, StoreUntouched DEF Serve

-----------------------------------------------------------------------------
(* The counters.                                                           *)

(* Types of the counters. *)
CountTypes ==
    /\ counters \in [Scopes -> CounterSet]
    /\ guesses \in [Scopes -> Nat]
    /\ excused \subseteq Scopes
    /\ served \in 0..MaxRequests

(* Every kind of request has a scope. *)
LEMMA ScopeOfKind ==
    \A k : ScopeOf(k) \in Scopes
BY DEF ScopeOf, Scopes

(* Requests can be counted. *)
LEMMA BusyFinite ==
    ASSUME LoginAssumption
    PROVE  /\ IsFiniteSet(Busy) /\ Cardinality(Busy) \in Nat
           /\ Cardinality(Requests) \in Nat
           /\ \A s : IsFiniteSet(Guessing(s)) /\ Cardinality(Guessing(s)) \in Nat
                     /\ Cardinality(Guessing(s)) <= Cardinality(Requests)
<1>1. IsFiniteSet(Requests) /\ Busy \subseteq Requests
  BY DEF LoginAssumption, Busy
<1>2. \A s : Guessing(s) \subseteq Requests
  BY DEF Guessing, Busy
<1>3. \A s : IsFiniteSet(Guessing(s)) /\ Cardinality(Guessing(s)) <= Cardinality(Requests)
  BY <1>1, <1>2, FS_Subset
<1>. QED BY <1>1, <1>3, FS_Subset, FS_CardinalityType

\* A step that starts no request, and leaves a scope as it is or begins its window anew.
LEMMA QuietCounts ==
    ASSUME LoginAssumption, LoginTypes, CountInv,
           Busy' \subseteq Busy,
           \A s \in Scopes : Guessing(s)' \subseteq Guessing(s),
           CountTypes', UNCHANGED served,
           \A s \in Scopes :
               \/ /\ counters'[s].count = counters[s].count /\ guesses'[s] = guesses[s]
                  /\ s \in excused => s \in excused'
               \/ counters'[s].count = 0 /\ guesses'[s] = 0
    PROVE  CountInv'
<1>1. /\ IsFiniteSet(Busy) /\ Cardinality(Busy) \in Nat /\ Cardinality(Requests) \in Nat
      /\ \A s : IsFiniteSet(Guessing(s)) /\ Cardinality(Guessing(s)) \in Nat
                /\ Cardinality(Guessing(s)) <= Cardinality(Requests)
  BY BusyFinite
<1>2. Cardinality(Busy') <= Cardinality(Busy) /\ Cardinality(Busy') \in Nat
  BY <1>1, FS_Subset, FS_CardinalityType
<1>3. SUFFICES ASSUME NEW s \in Scopes
               PROVE  /\ guesses'[s] + Cardinality(Busy') <= served'
                      /\ counters'[s].count <= guesses'[s]
                      /\ s \notin excused' =>
                           /\ guesses'[s] = counters'[s].count
                           /\ guesses'[s] + Cardinality(Guessing(s)') <=
                                  MaxGuesses + Cardinality(Requests) - 1
  BY DEF CountInv
<1>4. /\ Cardinality(Guessing(s)') <= Cardinality(Guessing(s))
      /\ Cardinality(Guessing(s)') \in Nat
  BY <1>1, FS_Subset, FS_CardinalityType
<1>5. /\ guesses[s] \in Nat /\ counters[s].count \in Nat /\ served \in Nat
      /\ MaxGuesses \in Nat \ {0}
  BY DEF LoginTypes, LoginAssumption, CounterSet
<1>6. /\ guesses[s] + Cardinality(Busy) <= served
      /\ counters[s].count <= guesses[s]
      /\ s \notin excused =>
           /\ guesses[s] = counters[s].count
           /\ guesses[s] + Cardinality(Guessing(s)) <= MaxGuesses + Cardinality(Requests) - 1
  BY DEF CountInv
<1>7. CASE /\ counters'[s].count = counters[s].count /\ guesses'[s] = guesses[s]
           /\ s \in excused => s \in excused'
  BY <1>1, <1>2, <1>4, <1>5, <1>6, <1>7
<1>8. CASE counters'[s].count = 0 /\ guesses'[s] = 0
  <2>1. Cardinality(Busy') <= served
    BY <1>1, <1>2, <1>5, <1>6
  <2>2. Cardinality(Guessing(s)') <= MaxGuesses + Cardinality(Requests) - 1
    BY <1>1, <1>4, <1>5
  <2>. QED BY <1>2, <1>4, <1>8, <2>1, <2>2
<1>. QED BY <1>7, <1>8

\* Of the requests, only those under way take part.
LEMMA BusyAfter ==
    ASSUME NEW r \in Requests, NEW n, n.phase # "work",
           \A q \in Requests : requests'[q] = IF q = r THEN n ELSE requests[q]
    PROVE  /\ Busy' = Busy \ {r}
           /\ \A s \in Scopes : Guessing(s)' = Guessing(s) \ {r}
<1>1. Busy' = Busy \ {r}
  BY DEF Busy
<1>. QED BY <1>1 DEF Guessing, Busy

\* A request arrives: it was idle, and if it may guess, its scope was not blocked.
LEMMA ServeCounts ==
    ASSUME LoginAssumption, LoginTypes, CountInv, NEW r \in Requests, NEW n,
           n.phase = "work", Serve(r, n),
           excused \subseteq excused', excused' \subseteq Scopes,
           n.kind \in {"local", "register", "change"} =>
               ~Blocked(ScopeOf(n.kind)) \/ ScopeOf(n.kind) \in excused'
    PROVE  CountInv' /\ CountTypes'
<1>1. /\ IsFiniteSet(Busy) /\ Cardinality(Busy) \in Nat /\ Cardinality(Requests) \in Nat
      /\ \A s : IsFiniteSet(Guessing(s)) /\ Cardinality(Guessing(s)) \in Nat
                /\ Cardinality(Guessing(s)) <= Cardinality(Requests)
  BY BusyFinite
<1>2. \A q \in Requests : requests'[q] = IF q = r THEN n ELSE requests[q]
  BY DEF Serve, LoginTypes
<1>3. requests[r].phase # "work"
  BY NoRequestShape DEF Serve
<1>4. Busy' = Busy \cup {r} /\ r \notin Busy
  BY <1>2, <1>3 DEF Busy
<1>5. Cardinality(Busy') = Cardinality(Busy) + 1
  BY <1>1, <1>4, FS_AddElement
<1>6. /\ served' = served + 1 /\ served < MaxRequests
      /\ counters' = counters /\ guesses' = guesses
  BY DEF Serve
<1>7. CountTypes'
  BY <1>6 DEF CountTypes, LoginTypes, LoginAssumption
<1>8. SUFFICES ASSUME NEW s \in Scopes
               PROVE  /\ guesses'[s] + Cardinality(Busy') <= served'
                      /\ counters'[s].count <= guesses'[s]
                      /\ s \notin excused' =>
                           /\ guesses'[s] = counters'[s].count
                           /\ guesses'[s] + Cardinality(Guessing(s)') <=
                                  MaxGuesses + Cardinality(Requests) - 1
  BY <1>7 DEF CountInv
<1>9. /\ guesses[s] \in Nat /\ counters[s].count \in Nat /\ served \in Nat
      /\ MaxGuesses \in Nat \ {0}
  BY DEF LoginTypes, LoginAssumption, CounterSet
<1>10. /\ guesses[s] + Cardinality(Busy) <= served
       /\ counters[s].count <= guesses[s]
       /\ s \notin excused =>
            /\ guesses[s] = counters[s].count
            /\ guesses[s] + Cardinality(Guessing(s)) <= MaxGuesses + Cardinality(Requests) - 1
  BY DEF CountInv
<1>11. /\ guesses'[s] + Cardinality(Busy') <= served'
       /\ counters'[s].count <= guesses'[s]
  BY <1>1, <1>5, <1>6, <1>9, <1>10
<1>12. ASSUME s \notin excused'
       PROVE  /\ guesses'[s] = counters'[s].count
              /\ guesses'[s] + Cardinality(Guessing(s)') <= MaxGuesses + Cardinality(Requests) - 1
  <2>1. CASE n.kind \in {"local", "register", "change"} /\ ScopeOf(n.kind) = s
    <3>1. counters[s].count < MaxGuesses
      BY <1>9, <1>12, <2>1 DEF Blocked, LoginAssumption
    <3>2. Guessing(s)' \subseteq Requests
      BY DEF Guessing, Busy
    <3>3. /\ Cardinality(Guessing(s)') <= Cardinality(Requests)
          /\ Cardinality(Guessing(s)') \in Nat
      BY <3>2, FS_Subset, FS_CardinalityType DEF LoginAssumption
    <3>. QED BY <1>1, <1>6, <1>9, <1>10, <1>12, <3>1, <3>3
  <2>2. CASE ~(n.kind \in {"local", "register", "change"} /\ ScopeOf(n.kind) = s)
    <3>1. Guessing(s)' = Guessing(s)
      BY <1>2, <1>4, <2>2 DEF Guessing, Busy
    <3>. QED BY <1>6, <1>10, <1>12, <3>1
  <2>. QED BY <2>1, <2>2
<1>. QED BY <1>11, <1>12

\* A guess is counted for its scope when its request ends, or Redis has failed there.
LEMMA GuessCounts ==
    ASSUME LoginAssumption, LoginTypes, CountInv, NEW r \in Requests, NEW s0 \in Scopes,
           r \in Guessing(s0), Busy' = Busy \ {r},
           \A s \in Scopes : Guessing(s)' = Guessing(s) \ {r},
           CountTypes', UNCHANGED served, excused \subseteq excused',
           \A s \in Scopes : guesses'[s] = IF s = s0 THEN guesses[s] + 1 ELSE guesses[s],
           \/ \A s \in Scopes : counters'[s].count =
                  IF s = s0 THEN counters[s].count + 1 ELSE counters[s].count
           \/ counters' = counters /\ s0 \in excused'
    PROVE  CountInv'
<1>1. /\ IsFiniteSet(Busy) /\ Cardinality(Busy) \in Nat /\ Cardinality(Requests) \in Nat
      /\ \A s : IsFiniteSet(Guessing(s)) /\ Cardinality(Guessing(s)) \in Nat
                /\ Cardinality(Guessing(s)) <= Cardinality(Requests)
  BY BusyFinite
<1>2. r \in Busy
  BY DEF Guessing
<1>3. Cardinality(Busy') = Cardinality(Busy) - 1
  BY <1>1, <1>2, FS_RemoveElement
<1>4. Cardinality(Guessing(s0)') = Cardinality(Guessing(s0)) - 1
  BY <1>1, FS_RemoveElement
<1>5. SUFFICES ASSUME NEW s \in Scopes
               PROVE  /\ guesses'[s] + Cardinality(Busy') <= served'
                      /\ counters'[s].count <= guesses'[s]
                      /\ s \notin excused' =>
                           /\ guesses'[s] = counters'[s].count
                           /\ guesses'[s] + Cardinality(Guessing(s)') <=
                                  MaxGuesses + Cardinality(Requests) - 1
  BY DEF CountInv
<1>6. /\ guesses[s] \in Nat /\ counters[s].count \in Nat /\ served \in Nat
      /\ MaxGuesses \in Nat \ {0}
  BY DEF LoginTypes, LoginAssumption, CounterSet
<1>7. /\ guesses[s] + Cardinality(Busy) <= served
      /\ counters[s].count <= guesses[s]
      /\ s \notin excused =>
           /\ guesses[s] = counters[s].count
           /\ guesses[s] + Cardinality(Guessing(s)) <= MaxGuesses + Cardinality(Requests) - 1
  BY DEF CountInv
<1>8. CASE s = s0
  <2>1. guesses'[s] = guesses[s] + 1
    BY <1>8
  <2>2. \/ counters'[s].count = counters[s].count + 1
        \/ counters'[s].count = counters[s].count /\ s \in excused'
    BY <1>8
  <2>3. s \notin excused' => s \notin excused
    OBVIOUS
  <2>4. Cardinality(Guessing(s)') = Cardinality(Guessing(s)) - 1
    BY <1>4, <1>8
  <2>. QED BY <1>1, <1>3, <1>6, <1>7, <2>1, <2>2, <2>3, <2>4
<1>9. CASE s # s0
  <2>1. guesses'[s] = guesses[s] /\ counters'[s].count = counters[s].count
    BY <1>9
  <2>2. s \notin excused' => s \notin excused
    OBVIOUS
  <2>3. Guessing(s)' \subseteq Guessing(s)
    OBVIOUS
  <2>4. /\ Cardinality(Guessing(s)') <= Cardinality(Guessing(s))
        /\ Cardinality(Guessing(s)') \in Nat
    BY <1>1, <2>3, FS_Subset, FS_CardinalityType
  <2>. QED BY <1>1, <1>3, <1>6, <1>7, <2>1, <2>2, <2>4
<1>. QED BY <1>8, <1>9

-----------------------------------------------------------------------------
(* The steps.                                                              *)

(* Types of accounts, flows and links. *)
OtherTypes ==
    /\ active \subseteq Accounts
    /\ bound \in [Accounts -> Identities \cup {NoOne}]
    /\ flows \in [Flows -> FlowSet]
    /\ links \subseteq [user : Accounts, flow : Flows]
    /\ changes \in 0..MaxChanges

\* Each scope stays as it is, or begins a new window.
Quiet ==
    \A s \in Scopes :
        \/ counters'[s] = counters[s] /\ guesses'[s] = guesses[s] /\ (s \in excused => s \in excused')
        \/ counters'[s].count = 0 /\ guesses'[s] = 0

(* The types, in three parts. *)
LEMMA TypesTogether ==
    LoginTypes <=> StoreTypes /\ CountTypes /\ OtherTypes
BY DEF LoginTypes, StoreTypes, CountTypes, OtherTypes

(* BlocksEnd stays where scopes stay or begin a new window and no request  *)
(* that owes an expiry ends.                                               *)
LEMMA BlocksKept ==
    ASSUME BlocksEnd, Quiet,
           \A q \in Requests : requests[q].phase = "expire" => requests'[q] = requests[q]
    PROVE  BlocksEnd'
<1>1. SUFFICES ASSUME NEW s \in Scopes \ excused', counters'[s].count > 0,
                      ~counters'[s].expires
               PROVE  \E q \in Requests : /\ requests'[q].phase = "expire"
                                          /\ ScopeOf(requests'[q].kind) = s
  BY DEF BlocksEnd
<1>2. counters'[s] = counters[s] /\ s \notin excused
  BY <1>1 DEF Quiet
<1>3. PICK q \in Requests : requests[q].phase = "expire" /\ ScopeOf(requests[q].kind) = s
  BY <1>1, <1>2 DEF BlocksEnd
<1>. QED BY <1>3

(* A step that leaves the counters alone is quiet. *)
LEMMA SameCounters ==
    ASSUME UNCHANGED <<counters, guesses>>, excused \subseteq excused'
    PROVE  Quiet
BY DEF Quiet

(* A counter that is deleted or ends begins a new window. *)
LEMMA NewCounterQuiet ==
    ASSUME LoginAssumption, LoginTypes, NEW scope \in Scopes, NewCounter(scope), UNCHANGED served
    PROVE  Quiet /\ CountTypes'
<1>1. /\ counters' \in [Scopes -> CounterSet] /\ guesses' \in [Scopes -> Nat]
      /\ excused' = excused \ {scope}
  BY DEF NewCounter, LoginTypes, CounterSet
<1>2. \A s \in Scopes :
         IF s = scope THEN counters'[s].count = 0 /\ guesses'[s] = 0
         ELSE counters'[s] = counters[s] /\ guesses'[s] = guesses[s]
  BY DEF NewCounter, LoginTypes
<1>3. Quiet
  BY <1>1, <1>2 DEF Quiet
<1>. QED BY <1>1, <1>3 DEF CountTypes, LoginTypes

\* A request that was under way is answered.
LEMMA EndStep ==
    ASSUME LoginAssumption, LoginInv, NEW r \in Requests,
           requests[r].phase = "work",
           requests' = [requests EXCEPT ![r] = NoRequest],
           StoreTypes', OtherTypes', CountTypes',
           LinkInv', SidInv', Quiet, UNCHANGED served
    PROVE  LoginInv'
<1>1. LoginTypes /\ CountInv /\ BlocksEnd
  BY DEF LoginInv
<1>2. \A q \in Requests : requests'[q] = IF q = r THEN NoRequest ELSE requests[q]
  BY <1>1, RequestEnds
<1>3. /\ Busy' = Busy \ {r}
      /\ \A s \in Scopes : Guessing(s)' = Guessing(s) \ {r}
  BY <1>2, BusyAfter, NoRequestShape
<1>4. \A s \in Scopes :
         \/ /\ counters'[s].count = counters[s].count /\ guesses'[s] = guesses[s]
            /\ s \in excused => s \in excused'
         \/ counters'[s].count = 0 /\ guesses'[s] = 0
  BY DEF Quiet
<1>5. CountInv'
  BY <1>1, <1>3, <1>4, QuietCounts
<1>6. BlocksEnd'
  BY <1>1, <1>2, BlocksKept
<1>. QED BY <1>5, <1>6, TypesTogether DEF LoginInv, LoginTypes, StoreTypes, OtherTypes, CountTypes

(* A request under way is answered, with whatever it changes of its own    *)
(* copy.                                                                   *)
LEMMA AnswerStep ==
    ASSUME LoginAssumption, LoginInv, NEW r \in Requests, requests[r].phase = "work",
           NEW copy \in SessionSet, NEW changed \in BOOLEAN,
           Answer(r, requests[r].sid, copy, changed), FlowsKept,
           changed => OwnFlow(flows', copy) /\ copy.user = requests[r].copy.user,
           \A l \in links' : l \in links \/ FlowFor(flows', l.flow, l.user),
           OtherTypes', CountTypes', Quiet, UNCHANGED served
    PROVE  LoginInv' /\ SidKept
<1>1. LoginTypes /\ LinkInv /\ SidInv
  BY DEF LoginInv
<1>2. requests[r].sid \in 0..MaxSids
  BY <1>1 DEF LoginTypes, RequestSet
<1>3. StoreTypes'
  BY <1>1, <1>2, AnswerTypes
<1>4. LinkInv'
  BY <1>1, <1>2, AnswerLinks
<1>5. SidInv' /\ SidKept
  BY <1>1, AnswerSids
<1>6. requests' = [requests EXCEPT ![r] = NoRequest]
  BY DEF Answer
<1>. QED BY <1>3, <1>4, <1>5, <1>6, EndStep

(* A request under way signs somebody in. *)
LEMMA RenewedInv ==
    ASSUME LoginAssumption, LoginInv, NEW r \in Requests, requests[r].phase = "work",
           NEW u \in Accounts, Renewed(r, u), FlowsKept, UNCHANGED links,
           OtherTypes', CountTypes', Quiet, UNCHANGED served
    PROVE  LoginInv' /\ SidKept
<1>1. LoginTypes /\ LinkInv /\ SidInv
  BY DEF LoginInv
<1>2. StoreTypes' /\ LinkInv' /\ SidInv' /\ SidKept
  BY <1>1, RenewedStep
<1>3. requests' = [requests EXCEPT ![r] = NoRequest]
  BY DEF Renewed
<1>. QED BY <1>2, <1>3, EndStep

(* A request arrives; if it may guess, its scope was not blocked or Redis  *)
(* has failed there.                                                       *)
LEMMA ServeInv ==
    ASSUME LoginAssumption, LoginInv, NEW r \in Requests, NEW n, Arrived(n), Serve(r, n),
           excused \subseteq excused', excused' \subseteq Scopes,
           n.kind \in {"local", "register", "change"} =>
               ~Blocked(ScopeOf(n.kind)) \/ ScopeOf(n.kind) \in excused',
           changes' \in 0..MaxChanges
    PROVE  LoginInv' /\ SidKept
<1>1. LoginTypes /\ LinkInv /\ SidInv /\ CountInv /\ BlocksEnd
  BY DEF LoginInv
<1>2. StoreTypes' /\ LinkInv' /\ SidInv' /\ SidKept
  BY <1>1, ServeStep
<1>3. n.phase = "work"
  BY DEF Arrived
<1>4. CountInv' /\ CountTypes'
  BY <1>1, <1>3, ServeCounts
<1>5. OtherTypes'
  BY <1>1 DEF OtherTypes, LoginTypes, Serve
<1>6. \A q \in Requests : requests[q].phase = "expire" => requests'[q] = requests[q]
  BY <1>1, NoRequestShape DEF Serve, LoginTypes
<1>7. Quiet
  BY SameCounters DEF Serve
<1>8. BlocksEnd'
  BY <1>1, <1>6, <1>7, BlocksKept
<1>. QED BY <1>2, <1>4, <1>5, <1>8, TypesTogether
     DEF LoginInv, LoginTypes, StoreTypes, OtherTypes, CountTypes

(* What isBlocked lets through. *)
LEMMA PassesFits ==
    ASSUME LoginAssumption, LoginTypes, NEW scope \in Scopes, Passes(scope)
    PROVE  /\ excused \subseteq excused' /\ excused' \subseteq Scopes
           /\ ~Blocked(scope) \/ scope \in excused'
           /\ changes' \in 0..MaxChanges
BY DEF Passes, LoginTypes, LoginAssumption

(* POST auth/local/login arrives. *)
LEMMA ArriveLocalStep ==
    ASSUME LoginAssumption, LoginInv, NEW r \in Requests, ArriveLocal(r)
    PROVE  LoginInv' /\ SidKept
<1>1. LoginTypes /\ LinkInv /\ SidInv
  BY DEF LoginInv
<1>2. PICK u \in Accounts, right \in BOOLEAN :
         Serve(r, [Loaded("local") EXCEPT !.user = u, !.right = right])
  BY DEF ArriveLocal
<1>. DEFINE n == [Loaded("local") EXCEPT !.user = u, !.right = right]
<1>3. Arrived(n) /\ n.kind = "local"
  BY <1>1, ArrivedWith DEF Kinds
<1>4. ScopeOf("local") = "login" /\ "login" \in Scopes /\ Passes("login")
  BY DEF ScopeOf, Scopes, ArriveLocal
<1>. HIDE DEF n
<1>5. Serve(r, n)
  BY <1>2 DEF n
<1>. QED BY <1>1, <1>3, <1>4, <1>5, PassesFits, ServeInv

(* POST auth/register arrives. *)
LEMMA ArriveRegisterStep ==
    ASSUME LoginAssumption, LoginInv, NEW r \in Requests, ArriveRegister(r)
    PROVE  LoginInv' /\ SidKept
<1>1. LoginTypes /\ LinkInv /\ SidInv
  BY DEF LoginInv
<1>2. PICK right \in BOOLEAN : Serve(r, [Loaded("register") EXCEPT !.right = right])
  BY DEF ArriveRegister
<1>. DEFINE n == [Loaded("register") EXCEPT !.right = right]
<1>3. Arrived(n) /\ n.kind = "register"
  BY <1>1, ArrivedWith DEF Kinds
<1>4. ScopeOf("register") = "register" /\ "register" \in Scopes /\ Passes("register")
  BY DEF ScopeOf, Scopes, ArriveRegister
<1>. HIDE DEF n
<1>5. Serve(r, n)
  BY <1>2 DEF n
<1>. QED BY <1>1, <1>3, <1>4, <1>5, PassesFits, ServeInv

(* The change of a password arrives. *)
LEMMA ArriveChangeStep ==
    ASSUME LoginAssumption, LoginInv, NEW r \in Requests, ArriveChange(r)
    PROVE  LoginInv' /\ SidKept
<1>1. LoginTypes /\ LinkInv /\ SidInv
  BY DEF LoginInv
<1>2. PICK right \in BOOLEAN : Serve(r, [Loaded("change") EXCEPT !.right = right])
  BY DEF ArriveChange
<1>. DEFINE n == [Loaded("change") EXCEPT !.right = right]
<1>3. Arrived(n) /\ n.kind = "change"
  BY <1>1, ArrivedWith DEF Kinds
<1>4. /\ ScopeOf("change") = "change-password" /\ "change-password" \in Scopes
      /\ Passes("change-password")
  BY DEF ScopeOf, Scopes, ArriveChange
<1>. HIDE DEF n
<1>5. Serve(r, n)
  BY <1>2 DEF n
<1>. QED BY <1>1, <1>3, <1>4, <1>5, PassesFits, ServeInv

(* A callback arrives. *)
LEMMA ArriveCallbackStep ==
    ASSUME LoginAssumption, LoginInv, NEW r \in Requests, NEW f \in Flows,
           NEW i \in Identities, ArriveCallback(r, f, i)
    PROVE  LoginInv' /\ SidKept
<1>1. LoginTypes /\ LinkInv /\ SidInv
  BY DEF LoginInv
<1>. DEFINE l == Loaded("callback")
            n == [l EXCEPT !.flow = f, !.identity = i,
                           !.user = IF l.copy.link THEN l.copy.user ELSE NoOne,
                           !.copy = IF l.copy.link
                                    THEN Session(l.copy.user, l.copy.flow, FALSE)
                                    ELSE l.copy]
<1>2. flows[f].state # "none" /\ Serve(r, n) /\ UNCHANGED <<excused, changes>>
  BY DEF ArriveCallback
<1>3. Arrived(n) /\ n.kind = "callback"
  BY <1>1, <1>2, CallbackArrived
<1>. HIDE DEF n
<1>4. excused \subseteq excused' /\ excused' \subseteq Scopes /\ changes' \in 0..MaxChanges
  BY <1>1, <1>2 DEF LoginTypes
<1>. QED BY <1>2, <1>3, <1>4, ServeInv

(* The other requests arrive. *)
LEMMA ArriveOtherStep ==
    ASSUME LoginAssumption, LoginInv, NEW r \in Requests, ArriveOther(r)
    PROVE  LoginInv' /\ SidKept
<1>1. LoginTypes /\ LinkInv /\ SidInv
  BY DEF LoginInv
<1>2. PICK kind \in {"login", "link", "unlink", "logout"} :
         Serve(r, Loaded(kind)) /\ UNCHANGED <<excused, changes>>
  BY DEF ArriveOther
<1>3. kind \in Kinds \ {"callback"}
  BY DEF Kinds
<1>4. Arrived(Loaded(kind)) /\ Loaded(kind).kind = kind
  BY <1>1, <1>3, LoadedArrived, LoadedShape
<1>5. excused \subseteq excused' /\ excused' \subseteq Scopes /\ changes' \in 0..MaxChanges
  BY <1>1, <1>2 DEF LoginTypes
<1>6. Loaded(kind).kind \notin {"local", "register", "change"}
  BY <1>4
<1>. QED BY <1>2, <1>4, <1>5, <1>6, ServeInv

(* The fields of a request. *)
LEMMA RequestFields ==
    ASSUME LoginTypes, NEW r \in Requests
    PROVE  /\ requests[r] \in RequestSet
           /\ requests[r].copy \in SessionSet /\ requests[r].sid \in 0..MaxSids
           /\ requests[r].user \in Accounts \cup {NoOne}
           /\ requests[r].identity \in Identities \cup {NoOne}
           /\ requests[r].copy.user \in Accounts \cup {NoOne}
           /\ requests[r].copy.flow \in Flows \cup {NoOne}
           /\ requests[r].copy.link \in BOOLEAN
BY DEF LoginTypes, RequestSet, SessionSet

(* Changes of a session's flow and mode. *)
LEMMA SessionWith ==
    ASSUME NEW c \in SessionSet, NEW f \in Flows \cup {NoOne}, NEW k \in BOOLEAN
    PROVE  /\ [c EXCEPT !.flow = f] \in SessionSet /\ [c EXCEPT !.flow = f].user = c.user
           /\ [c EXCEPT !.flow = f].link = c.link /\ [c EXCEPT !.flow = f].flow = f
           /\ [c EXCEPT !.link = k] \in SessionSet /\ [c EXCEPT !.link = k].user = c.user
           /\ [c EXCEPT !.link = k].link = k
BY DEF SessionSet

(* Accounts, flows and links stay. *)
LEMMA SameOthers ==
    ASSUME LoginTypes, UNCHANGED <<active, bound, flows, links, changes>>
    PROVE  OtherTypes' /\ FlowsKept
BY SameFlows DEF LoginTypes, OtherTypes

(* The counters stay. *)
LEMMA SameCounts ==
    ASSUME LoginTypes, UNCHANGED <<counters, guesses, excused, served>>
    PROVE  CountTypes' /\ Quiet
BY SameCounters DEF LoginTypes, CountTypes

(* A right password signs in and deletes the counter. *)
LEMMA LocalLoginStep ==
    ASSUME LoginAssumption, LoginInv, NEW r \in Requests, LocalLogin(r)
    PROVE  LoginInv' /\ SidKept
<1>1. LoginTypes
  BY DEF LoginInv
<1>2. /\ requests[r].phase = "work" /\ requests[r].user \in Accounts
      /\ Renewed(r, requests[r].user) /\ NewCounter("login")
      /\ UNCHANGED <<active, bound, flows, links, changes>> /\ UNCHANGED served
  BY <1>1 DEF LocalLogin, LoginTypes
<1>3. "login" \in Scopes
  BY DEF Scopes
<1>. QED BY <1>1, <1>2, <1>3, SameOthers, NewCounterQuiet, RenewedInv

(* A changed password deletes the counter. *)
LEMMA ChangePasswordStep ==
    ASSUME LoginAssumption, LoginInv, NEW r \in Requests, ChangePassword(r)
    PROVE  LoginInv' /\ SidKept
<1>1. LoginTypes
  BY DEF LoginInv
<1>2. /\ requests[r].phase = "work"
      /\ Answer(r, requests[r].sid, requests[r].copy, FALSE) /\ NewCounter("change-password")
      /\ UNCHANGED <<active, bound, flows, links, changes>> /\ UNCHANGED served
  BY DEF ChangePassword
<1>3. "change-password" \in Scopes /\ requests[r].copy \in SessionSet
  BY <1>1, RequestFields DEF Scopes
<1>4. OtherTypes' /\ FlowsKept /\ Quiet /\ CountTypes'
  BY <1>1, <1>2, <1>3, SameOthers, NewCounterQuiet
<1>5. links' = links
  BY <1>2
<1>. QED BY <1>2, <1>3, <1>4, <1>5, AnswerStep

(* A flow goes into the copy that starts it, with its user and mode. *)
LEMMA StartFlowStep ==
    ASSUME LoginAssumption, LoginInv, NEW r \in Requests, requests[r].phase = "work",
           NEW link \in BOOLEAN,
           StartFlow(r, link, [requests[r].copy EXCEPT !.link = link])
    PROVE  LoginInv' /\ SidKept
<1>1. LoginTypes
  BY DEF LoginInv
<1>. DEFINE c == [requests[r].copy EXCEPT !.link = link]
            u == requests[r].copy.user
<1>2. c \in SessionSet /\ c.user = u /\ c.link = link
  <2>1. requests[r].copy \in SessionSet
    BY <1>1, RequestFields
  <2>2. \A d \in SessionSet : /\ [d EXCEPT !.link = link] \in SessionSet
                              /\ [d EXCEPT !.link = link].user = d.user
                              /\ [d EXCEPT !.link = link].link = link
    BY SessionWith
  <2>. QED BY <2>1, <2>2
<1>3. u \in Accounts \cup {NoOne}
  BY <1>1, RequestFields
<1>. DEFINE x == [starter |-> u, link |-> link, state |-> "open"]
<1>4. PICK f \in Flows :
         /\ flows[f].state = "none" /\ flows' = [flows EXCEPT ![f] = x]
         /\ Answer(r, requests[r].sid, [c EXCEPT !.flow = f], TRUE)
         /\ UNCHANGED <<active, bound, counters, guesses, excused, links, served, changes>>
  BY DEF StartFlow
<1>. DEFINE n == [c EXCEPT !.flow = f]
<1>. HIDE DEF c
<1>5. n \in SessionSet /\ n.user = u /\ n.link = link /\ n.flow = f
  BY <1>2, SessionWith
<1>6. x \in FlowSet /\ x.link = link /\ x.starter = u /\ x.state # "none"
  BY <1>3 DEF FlowSet
<1>. HIDE DEF n, x
<1>7. FlowsKept
  BY <1>1, <1>4, <1>6, FlowStarts
<1>8. flows'[f] = x /\ flows' \in [Flows -> FlowSet]
  BY <1>1, <1>4, <1>6 DEF LoginTypes
<1>9. OwnFlow(flows', n)
  BY <1>5, <1>6, <1>8 DEF OwnFlow, FlowFor
<1>10. Answer(r, requests[r].sid, n, TRUE)
  BY <1>4 DEF n
<1>11. OtherTypes'
  BY <1>1, <1>4, <1>8 DEF OtherTypes, LoginTypes
<1>12. CountTypes' /\ Quiet
  BY <1>1, <1>4, SameCounts
<1>13. UNCHANGED served /\ links' = links
  BY <1>4
<1>. QED BY <1>5, <1>7, <1>9, <1>10, <1>11, <1>12, <1>13, AnswerStep DEF u

(* GET auth/login leaves link mode, the link endpoint enters it. *)
LEMMA LinkFlowStep ==
    ASSUME LoginAssumption, LoginInv, NEW r \in Requests,
           OidcLogin(r) \/ StartOidcLink(r)
    PROVE  LoginInv' /\ SidKept
BY StartFlowStep DEF OidcLogin, StartOidcLink

(* A callback links the identity to the user whose flow it is. *)
LEMMA CallbackLinksStep ==
    ASSUME LoginAssumption, LoginInv, NEW r \in Requests, CallbackLinks(r)
    PROVE  LoginInv' /\ SidKept
<1>. DEFINE q == requests[r]
            c == [q.copy EXCEPT !.flow = NoOne]
<1>1. LoginTypes /\ LinkInv
  BY DEF LoginInv
<1>2. /\ q.kind = "callback" /\ q.phase = "work" /\ q.user # NoOne
      /\ flows' = IF Exchanged(q) THEN Used(q.flow) ELSE flows
      /\ bound' = IF Linked(q) THEN [bound EXCEPT ![q.user] = q.identity] ELSE bound
      /\ links' = IF Linked(q) THEN links \cup {[user |-> q.user, flow |-> q.flow]} ELSE links
      /\ Answer(r, q.sid, c, TRUE)
      /\ UNCHANGED <<active, counters, guesses, excused, served, changes>>
  BY DEF CallbackLinks
<1>3. /\ q.flow \in Flows /\ ~q.copy.link /\ FlowFor(flows, q.copy.flow, q.user)
  BY <1>1, <1>2 DEF LinkInv, CallbackFits
<1>4. /\ q.copy \in SessionSet /\ q.user \in Accounts
      /\ q.identity \in Identities \cup {NoOne}
  BY <1>1, <1>2, RequestFields
<1>5. c \in SessionSet /\ c.user = q.copy.user /\ ~c.link
  BY <1>3, <1>4, SessionWith
<1>6. FlowsKept /\ flows' \in [Flows -> FlowSet]
  BY <1>1, <1>2, <1>3, FlowIsUsed, SameFlows DEF LoginTypes
<1>7. Linked(q) => q.flow = q.copy.flow
  BY DEF Linked, Exchanged
<1>. HIDE DEF c, q
<1>8. \A l \in links' : l \in links \/ FlowFor(flows', l.flow, l.user)
  BY <1>2, <1>3, <1>6, <1>7 DEF FlowsKept
<1>9. bound' \in [Accounts -> Identities \cup {NoOne}] /\ links' \subseteq [user : Accounts, flow : Flows]
  BY <1>1, <1>2, <1>3, <1>4 DEF LoginTypes
<1>10. OtherTypes'
  BY <1>1, <1>2, <1>6, <1>9 DEF OtherTypes, LoginTypes
<1>11. CountTypes' /\ Quiet /\ UNCHANGED served
  BY <1>1, <1>2, SameCounts
<1>12. OwnFlow(flows', c)
  BY <1>5 DEF OwnFlow
<1>. QED BY <1>2, <1>5, <1>6, <1>8, <1>10, <1>11, <1>12, AnswerStep DEF q

(* A callback signs in whom the identity is bound to. *)
LEMMA CallbackSignsInStep ==
    ASSUME LoginAssumption, LoginInv, NEW r \in Requests, CallbackSignsIn(r)
    PROVE  LoginInv' /\ SidKept
<1>. DEFINE q == requests[r]
<1>1. LoginTypes /\ LinkInv
  BY DEF LoginInv
<1>2. /\ q.kind = "callback" /\ q.phase = "work"
      /\ flows' = IF Exchanged(q) THEN Used(q.flow) ELSE flows
      /\ UNCHANGED <<active, bound, counters, guesses, excused, links, served, changes>>
      /\ \/ \E u \in active : Renewed(r, u)
         \/ Answer(r, q.sid, q.copy, FALSE)
  BY DEF CallbackSignsIn
<1>3. q.flow \in Flows /\ q.copy \in SessionSet
  BY <1>1, <1>2, RequestFields DEF LinkInv, CallbackFits
<1>4. FlowsKept /\ flows' \in [Flows -> FlowSet]
  BY <1>1, <1>2, <1>3, FlowIsUsed, SameFlows DEF LoginTypes
<1>5. OtherTypes'
  BY <1>1, <1>2, <1>4 DEF OtherTypes, LoginTypes
<1>6. CountTypes' /\ Quiet /\ UNCHANGED served /\ UNCHANGED links
  BY <1>1, <1>2, SameCounts
<1>7. CASE \E u \in active : Renewed(r, u)
  <2>1. PICK u \in Accounts : Renewed(r, u)
    BY <1>1, <1>7 DEF LoginTypes
  <2>. QED BY <1>2, <1>4, <1>5, <1>6, <2>1, RenewedInv
<1>8. CASE Answer(r, q.sid, q.copy, FALSE)
  BY <1>2, <1>3, <1>4, <1>5, <1>6, <1>8, AnswerStep
<1>. QED BY <1>2, <1>7, <1>8

(* Unlinking changes the account only. *)
LEMMA UnlinkOidcStep ==
    ASSUME LoginAssumption, LoginInv, NEW r \in Requests, UnlinkOidc(r)
    PROVE  LoginInv' /\ SidKept
<1>. DEFINE q == requests[r]
<1>1. LoginTypes
  BY DEF LoginInv
<1>2. /\ q.phase = "work" /\ bound' = [bound EXCEPT ![q.copy.user] = NoOne]
      /\ Answer(r, q.sid, q.copy, FALSE)
      /\ UNCHANGED <<active, flows, counters, guesses, excused, links, served, changes>>
  BY DEF UnlinkOidc
<1>3. q.copy \in SessionSet
  BY <1>1, RequestFields
<1>4. OtherTypes'
  BY <1>1, <1>2 DEF OtherTypes, LoginTypes
<1>5. CountTypes' /\ Quiet /\ UNCHANGED served /\ UNCHANGED links /\ FlowsKept
  BY <1>1, <1>2, SameCounts, SameFlows
<1>. QED BY <1>2, <1>3, <1>4, <1>5, AnswerStep

(* Signing out destroys the session; copies of it remain with overlapping  *)
(* requests.                                                               *)
LEMMA LogoutStep ==
    ASSUME LoginAssumption, LoginInv, NEW r \in Requests, Logout(r)
    PROVE  LoginInv' /\ SidKept
<1>. DEFINE q == requests[r]
<1>1. LoginTypes /\ LinkInv /\ SidInv
  BY DEF LoginInv
<1>2. /\ q.phase = "work" /\ requests' = [requests EXCEPT ![r] = NoRequest]
      /\ sessions' = [sessions EXCEPT ![q.sid] = NoSession] /\ cookie' = 0
      /\ UNCHANGED lastSid
      /\ UNCHANGED <<active, bound, flows, links, changes>>
      /\ UNCHANGED <<counters, guesses, excused, served>>
  BY DEF Logout
<1>3. OtherTypes' /\ FlowsKept /\ CountTypes' /\ Quiet /\ UNCHANGED links
  BY <1>1, <1>2, SameOthers, SameCounts
<1>4. /\ requests' \in [Requests -> RequestSet]
      /\ \A p \in Requests : requests'[p] = IF p = r THEN NoRequest ELSE requests[p]
      /\ NoRequest.sid = 0
  BY <1>1, <1>2, RequestEnds, NoRequestShape
<1>5. /\ sessions' \in [1..MaxSids -> SessionSet]
      /\ \A s \in 1..MaxSids : sessions'[s] = IF s = q.sid THEN NoSession ELSE sessions[s]
  BY <1>1, <1>2, NoSessionShape DEF LoginTypes
<1>6. StoreTypes'
  BY <1>1, <1>2, <1>4, <1>5 DEF StoreTypes, LoginTypes, LoginAssumption
<1>7. LinkInv'
  <2>1. \A s \in 1..MaxSids : sessions'[s] = sessions[s] \/ OwnFlow(flows', sessions'[s])
    BY <1>5, GoneFits
  <2>2. \A p \in Requests : \/ requests'[p] = requests[p]
                            \/ /\ OwnFlow(flows', requests'[p].copy)
                               /\ CallbackFits(flows', requests'[p])
    BY <1>4, GoneFits
  <2>. QED BY <1>1, <1>3, <2>1, <2>2, LinkStep
<1>8. SidKept
  BY <1>5, NoSessionShape DEF SidKept
<1>9. SidInv'
  <2>1. \A p \in Requests : requests[p].sid \in 0..MaxSids
    BY <1>1, RequestFields
  <2>2. \A s \in 1..MaxSids : sessions'[s].there => sessions'[s] = sessions[s] /\ sessions[s].there
    BY <1>5, NoSessionShape
  <2>3. \A p \in Requests : requests'[p].sid # 0 => requests'[p] = requests[p]
    BY <1>4
  <2>4. \A s \in 1..MaxSids : sessions'[s].there => s <= lastSid'
    BY <1>1, <1>2, <2>2 DEF SidInv
  <2>5. \A p \in Requests : requests'[p].sid <= lastSid'
    BY <1>1, <1>2, <1>4 DEF SidInv, LoginTypes
  <2>6. \A p \in Requests :
          requests'[p].sid # 0 /\ sessions'[requests'[p].sid].there =>
              sessions'[requests'[p].sid].user = requests'[p].copy.user
    <3>1. SUFFICES ASSUME NEW p \in Requests, requests'[p].sid # 0,
                          sessions'[requests'[p].sid].there
                   PROVE  sessions'[requests'[p].sid].user = requests'[p].copy.user
      OBVIOUS
    <3>2. requests'[p] = requests[p] /\ requests[p].sid \in 1..MaxSids
      BY <2>1, <2>3, <3>1
    <3>. QED BY <1>1, <2>2, <3>1, <3>2 DEF SidInv
  <2>7. \A p, o \in Requests : requests'[p].sid # 0 /\ requests'[o].sid = requests'[p].sid =>
                                   requests'[o].copy.user = requests'[p].copy.user
    BY <1>1, <1>4 DEF SidInv
  <2>. QED BY <2>4, <2>5, <2>6, <2>7 DEF SidInv
<1>. QED BY <1>2, <1>3, <1>6, <1>7, <1>8, <1>9, EndStep

(* A counter with another height. *)
LEMMA CounterCount ==
    ASSUME NEW c \in CounterSet, NEW n \in Nat
    PROVE  /\ [c EXCEPT !.count = n] \in CounterSet /\ [c EXCEPT !.count = n].count = n
           /\ [c EXCEPT !.count = n].expires = c.expires
BY DEF CounterSet

(* A counter with another expiry. *)
LEMMA CounterExpires ==
    ASSUME NEW c \in CounterSet, NEW b \in BOOLEAN
    PROVE  /\ [c EXCEPT !.expires = b] \in CounterSet /\ [c EXCEPT !.expires = b].count = c.count
           /\ [c EXCEPT !.expires = b].expires = b
BY DEF CounterSet

(* A guess is counted: what might have been one is one now, so the sum     *)
(* stays.                                                                  *)
LEMMA CountStep ==
    ASSUME LoginAssumption, LoginInv, NEW r \in Requests, Count(r)
    PROVE  LoginInv' /\ SidKept
<1>. DEFINE q == requests[r]
            s == ScopeOf(q.kind)
            n == IF First(s) THEN [q EXCEPT !.phase = "expire"] ELSE NoRequest
<1>1. LoginTypes /\ LinkInv /\ SidInv /\ CountInv /\ BlocksEnd
  BY DEF LoginInv
<1>2. /\ q.phase = "work" /\ q.kind \in {"local", "register", "change"}
      /\ counters' = [counters EXCEPT ![s].count = counters[s].count + 1]
      /\ guesses' = [guesses EXCEPT ![s] = guesses[s] + 1]
      /\ requests' = [requests EXCEPT ![r] = n]
      /\ UNCHANGED <<active, bound, sessions, cookie, lastSid, flows, excused, links,
                     served, changes>>
  BY DEF Count, Wrong
<1>3. q \in RequestSet /\ s \in Scopes /\ NoRequest \in RequestSet
  BY <1>1, RequestFields, ScopeOfKind, NoRequestShape
<1>4. First(s) => /\ n \in RequestSet /\ n.phase = "expire" /\ n.kind = q.kind
                  /\ n.sid = q.sid /\ n.copy = q.copy
  BY <1>3 DEF RequestSet
<1>5. ~First(s) => n = NoRequest
  OBVIOUS
<1>. HIDE DEF n, q, s
<1>6. n \in RequestSet /\ n.phase # "work"
  BY <1>3, <1>4, <1>5, NoRequestShape
<1>7. /\ requests' \in [Requests -> RequestSet]
      /\ \A p \in Requests : requests'[p] = IF p = r THEN n ELSE requests[p]
  BY <1>1, <1>2, <1>6 DEF LoginTypes
<1>8. /\ Busy' = Busy \ {r}
      /\ \A t \in Scopes : Guessing(t)' = Guessing(t) \ {r}
  BY <1>6, <1>7, BusyAfter
<1>9. r \in Guessing(s)
  BY <1>2 DEF Guessing, Busy, q, s
<1>10. /\ \A t \in Scopes : counters'[t] \in CounterSet /\ counters'[t].expires = counters[t].expires
                            /\ counters'[t].count = IF t = s THEN counters[t].count + 1
                                                    ELSE counters[t].count
       /\ \A t \in Scopes : guesses'[t] = IF t = s THEN guesses[t] + 1 ELSE guesses[t]
  <2>. DEFINE c == [counters[s] EXCEPT !.count = counters[s].count + 1]
  <2>1. counters[s] \in CounterSet /\ counters[s].count + 1 \in Nat
    BY <1>1, <1>3 DEF LoginTypes, CounterSet
  <2>2. c \in CounterSet /\ c.count = counters[s].count + 1 /\ c.expires = counters[s].expires
    BY <2>1, CounterCount
  <2>3. counters' = [counters EXCEPT ![s] = c]
    BY <1>2
  <2>. HIDE DEF c
  <2>. QED BY <1>1, <1>2, <1>3, <2>2, <2>3 DEF LoginTypes
<1>11. CountTypes'
  <2>1. \A t \in Scopes : guesses'[t] \in Nat
    BY <1>1, <1>10 DEF LoginTypes
  <2>2. counters' \in [Scopes -> CounterSet] /\ guesses' \in [Scopes -> Nat]
    BY <1>1, <1>2, <1>10, <2>1 DEF LoginTypes
  <2>. QED BY <1>1, <1>2, <2>2 DEF CountTypes, LoginTypes
<1>12. CountInv'
  BY <1>1, <1>2, <1>3, <1>8, <1>9, <1>10, <1>11, GuessCounts
<1>13. BlocksEnd'
  <2>1. SUFFICES ASSUME NEW t \in Scopes \ excused', counters'[t].count > 0,
                        ~counters'[t].expires
                 PROVE  \E p \in Requests : /\ requests'[p].phase = "expire"
                                            /\ ScopeOf(requests'[p].kind) = t
    BY DEF BlocksEnd
  <2>2. t \notin excused
    BY <1>2
  <2>3. CASE t = s /\ First(s)
    <3>1. requests'[r].phase = "expire" /\ ScopeOf(requests'[r].kind) = t
      BY <1>4, <1>7, <2>3 DEF s
    <3>. QED BY <3>1
  <2>4. CASE ~(t = s /\ First(s))
    <3>1. counters[t].count > 0 /\ ~counters[t].expires
      BY <1>1, <1>10, <2>1, <2>4 DEF First, LoginTypes, CounterSet
    <3>2. PICK p \in Requests : requests[p].phase = "expire" /\ ScopeOf(requests[p].kind) = t
      BY <1>1, <2>2, <3>1 DEF BlocksEnd
    <3>3. p # r
      BY <1>2, <3>2 DEF q
    <3>. QED BY <1>7, <3>2, <3>3
  <2>. QED BY <2>3, <2>4
<1>14. OwnFlow(flows, n.copy) /\ CallbackFits(flows, n)
  <2>1. CASE First(s)
    BY <1>1, <1>2, <1>4, <2>1 DEF LinkInv, CallbackFits, q
  <2>2. CASE ~First(s)
    BY <1>5, <2>2, GoneFits
  <2>. QED BY <2>1, <2>2
<1>15. LinkInv'
  BY <1>1, <1>2, <1>7, <1>14, LinkStep, SameFlows
<1>16. n.sid = 0 \/ (n.sid = q.sid /\ n.copy = q.copy)
  BY <1>4, <1>5, NoRequestShape
<1>17. SidInv'
  BY <1>1, <1>2, <1>7, <1>16 DEF SidInv, LoginTypes, q
<1>18. SidKept
  BY <1>2, StoreUntouched
<1>19. LoginTypes'
  BY <1>1, <1>2, <1>7, <1>11 DEF LoginTypes, CountTypes
<1>. QED BY <1>12, <1>13, <1>15, <1>17, <1>18, <1>19 DEF LoginInv

(* The expiry of the first attempt is set. *)
LEMMA ExpireStep ==
    ASSUME LoginAssumption, LoginInv, NEW r \in Requests, Expire(r)
    PROVE  LoginInv' /\ SidKept
<1>. DEFINE s == ScopeOf(requests[r].kind)
<1>1. LoginTypes /\ LinkInv /\ SidInv /\ CountInv /\ BlocksEnd
  BY DEF LoginInv
<1>2. /\ requests[r].phase = "expire"
      /\ counters' = [counters EXCEPT ![s].expires = counters[s].count > 0]
      /\ requests' = [requests EXCEPT ![r] = NoRequest]
      /\ UNCHANGED <<active, bound, sessions, cookie, lastSid, flows, guesses, excused,
                     links, served, changes>>
  BY DEF Expire
<1>3. s \in Scopes
  BY ScopeOfKind
<1>4. /\ requests' \in [Requests -> RequestSet]
      /\ \A p \in Requests : requests'[p] = IF p = r THEN NoRequest ELSE requests[p]
      /\ NoRequest.sid = 0 /\ NoRequest.phase # "work"
  BY <1>1, <1>2, RequestEnds, NoRequestShape
<1>5. \A t \in Scopes : /\ counters'[t] \in CounterSet /\ counters'[t].count = counters[t].count
                        /\ counters'[t].expires = IF t = s THEN counters[t].count > 0
                                                  ELSE counters[t].expires
  <2>. DEFINE b == counters[s].count > 0
              c == [counters[s] EXCEPT !.expires = b]
  <2>1. counters[s] \in CounterSet /\ b \in BOOLEAN
    BY <1>1, <1>3 DEF LoginTypes
  <2>2. counters' = [counters EXCEPT ![s] = c]
    BY <1>2
  <2>. HIDE DEF b
  <2>3. c \in CounterSet /\ c.count = counters[s].count /\ c.expires = b
    BY <2>1, CounterExpires
  <2>. HIDE DEF c
  <2>. QED BY <1>1, <1>3, <2>2, <2>3 DEF LoginTypes, b
<1>6. CountTypes'
  BY <1>1, <1>2, <1>5 DEF CountTypes, LoginTypes
<1>7. CountInv'
  <2>1. /\ Busy' = Busy \ {r}
        /\ \A t \in Scopes : Guessing(t)' = Guessing(t) \ {r}
    BY <1>4, BusyAfter
  <2>. QED BY <1>1, <1>2, <1>5, <1>6, <2>1, QuietCounts
<1>8. BlocksEnd'
  <2>1. SUFFICES ASSUME NEW t \in Scopes \ excused', counters'[t].count > 0,
                        ~counters'[t].expires
                 PROVE  \E p \in Requests : /\ requests'[p].phase = "expire"
                                            /\ ScopeOf(requests'[p].kind) = t
    BY DEF BlocksEnd
  <2>2. t # s /\ t \notin excused /\ counters[t].count > 0 /\ ~counters[t].expires
    BY <1>2, <1>5, <2>1
  <2>3. PICK p \in Requests : requests[p].phase = "expire" /\ ScopeOf(requests[p].kind) = t
    BY <1>1, <2>2 DEF BlocksEnd
  <2>. QED BY <1>4, <2>2, <2>3
<1>9. LinkInv'
  BY <1>1, <1>2, <1>4, GoneFits, LinkStep, SameFlows
<1>10. SidInv'
  BY <1>1, <1>2, <1>4 DEF SidInv, LoginTypes
<1>11. SidKept
  BY <1>2, StoreUntouched
<1>12. LoginTypes'
  BY <1>1, <1>2, <1>4, <1>6 DEF LoginTypes, CountTypes
<1>. QED BY <1>7, <1>8, <1>9, <1>10, <1>11, <1>12 DEF LoginInv

(* Where Redis fails, the scope is excused, and its bound is the number of *)
(* requests.                                                               *)
LEMMA RedisFailsStep ==
    ASSUME LoginAssumption, LoginInv, NEW r \in Requests, RedisFails(r)
    PROVE  LoginInv' /\ SidKept
<1>. DEFINE q == requests[r]
            s == ScopeOf(q.kind)
<1>1. LoginTypes /\ LinkInv /\ SidInv /\ CountInv /\ BlocksEnd
  BY DEF LoginInv
<1>2. /\ changes < MaxChanges /\ changes' = changes + 1
      /\ \/ q.phase = "expire"
         \/ q.phase = "work" /\ q.kind \in {"local", "register", "change"}
      /\ guesses' = [guesses EXCEPT ![s] = @ + (IF q.phase = "work" THEN 1 ELSE 0)]
      /\ excused' = excused \cup {s}
      /\ requests' = [requests EXCEPT ![r] = NoRequest]
      /\ UNCHANGED <<active, bound, sessions, cookie, lastSid, flows, counters, links, served>>
  BY DEF RedisFails, Wrong
<1>3. s \in Scopes
  BY ScopeOfKind
<1>4. /\ requests' \in [Requests -> RequestSet]
      /\ \A p \in Requests : requests'[p] = IF p = r THEN NoRequest ELSE requests[p]
      /\ NoRequest.sid = 0 /\ NoRequest.phase # "work"
  BY <1>1, <1>2, RequestEnds, NoRequestShape
<1>5. \A t \in Scopes : guesses'[t] = IF t = s /\ q.phase = "work" THEN guesses[t] + 1
                                      ELSE guesses[t]
  BY <1>1, <1>2, <1>3 DEF LoginTypes
<1>6. CountTypes'
  BY <1>1, <1>2, <1>3, <1>5 DEF CountTypes, LoginTypes
<1>7. /\ Busy' = Busy \ {r}
      /\ \A t \in Scopes : Guessing(t)' = Guessing(t) \ {r}
  BY <1>4, BusyAfter
<1>8. CountInv'
  <2>1. CASE q.phase = "work"
    <3>1. r \in Guessing(s)
      BY <1>2, <2>1 DEF Guessing, Busy
    <3>2. \A t \in Scopes : guesses'[t] = IF t = s THEN guesses[t] + 1 ELSE guesses[t]
      BY <1>5, <2>1
    <3>. HIDE DEF q, s
    <3>. QED BY <1>1, <1>2, <1>3, <1>6, <1>7, <3>1, <3>2, GuessCounts
  <2>2. CASE q.phase # "work"
    <3>1. \A t \in Scopes : guesses'[t] = guesses[t] /\ counters'[t].count = counters[t].count
      BY <1>2, <1>5, <2>2
    <3>. HIDE DEF q, s
    <3>. QED BY <1>1, <1>2, <1>6, <1>7, <3>1, QuietCounts
  <2>. QED BY <2>1, <2>2
<1>9. BlocksEnd'
  <2>1. SUFFICES ASSUME NEW t \in Scopes \ excused', counters'[t].count > 0,
                        ~counters'[t].expires
                 PROVE  \E p \in Requests : /\ requests'[p].phase = "expire"
                                            /\ ScopeOf(requests'[p].kind) = t
    BY DEF BlocksEnd
  <2>2. t # s /\ t \notin excused /\ counters[t].count > 0 /\ ~counters[t].expires
    BY <1>2, <2>1
  <2>3. PICK p \in Requests : requests[p].phase = "expire" /\ ScopeOf(requests[p].kind) = t
    BY <1>1, <2>2 DEF BlocksEnd
  <2>. QED BY <1>4, <2>2, <2>3
<1>10. LinkInv'
  BY <1>1, <1>2, <1>4, GoneFits, LinkStep, SameFlows
<1>11. SidInv'
  BY <1>1, <1>2, <1>4 DEF SidInv, LoginTypes
<1>12. SidKept
  BY <1>2, StoreUntouched
<1>13. changes' \in 0..MaxChanges
  BY <1>1, <1>2 DEF LoginTypes, LoginAssumption
<1>14. LoginTypes'
  BY <1>1, <1>2, <1>4, <1>6, <1>13 DEF LoginTypes, CountTypes
<1>. QED BY <1>8, <1>9, <1>10, <1>11, <1>12, <1>14 DEF LoginInv

\* Steps that touch no request: nobody's copy, and nobody who guesses.
LEMMA IdleStep ==
    ASSUME LoginAssumption, LoginInv, UNCHANGED <<sessions, cookie, lastSid, requests, flows, links>>,
           OtherTypes', CountTypes', Quiet, UNCHANGED served
    PROVE  LoginInv' /\ SidKept
<1>1. LoginTypes /\ LinkInv /\ SidInv /\ CountInv /\ BlocksEnd
  BY DEF LoginInv
<1>2. Busy' = Busy /\ \A s \in Scopes : Guessing(s)' = Guessing(s)
  BY DEF Busy, Guessing
<1>3. \A s \in Scopes :
         \/ /\ counters'[s].count = counters[s].count /\ guesses'[s] = guesses[s]
            /\ s \in excused => s \in excused'
         \/ counters'[s].count = 0 /\ guesses'[s] = 0
  BY DEF Quiet
<1>4. CountInv'
  BY <1>1, <1>2, <1>3, QuietCounts
<1>5. BlocksEnd'
  BY <1>1, BlocksKept
<1>6. LinkInv'
  BY <1>1 DEF LinkInv
<1>7. SidInv'
  BY <1>1 DEF SidInv
<1>8. LoginTypes'
  BY <1>1 DEF LoginTypes, OtherTypes, CountTypes
<1>. QED BY <1>4, <1>5, <1>6, <1>7, <1>8, StoreUntouched DEF LoginInv

(* A window ends by its expiry. *)
LEMMA WindowEndsStep ==
    ASSUME LoginAssumption, LoginInv, NEW s \in Scopes, WindowEnds(s)
    PROVE  LoginInv' /\ SidKept
<1>1. LoginTypes
  BY DEF LoginInv
<1>2. /\ NewCounter(s) /\ UNCHANGED <<active, bound, flows, links, changes>>
      /\ UNCHANGED <<sessions, cookie, lastSid, requests>> /\ UNCHANGED served
  BY DEF WindowEnds
<1>3. Quiet /\ CountTypes' /\ OtherTypes'
  BY <1>1, <1>2, NewCounterQuiet, SameOthers
<1>. QED BY <1>2, <1>3, IdleStep

(* Administrators change accounts and bindings. *)
LEMMA AdminChangesStep ==
    ASSUME LoginAssumption, LoginInv, AdminChanges
    PROVE  LoginInv' /\ SidKept
<1>1. LoginTypes
  BY DEF LoginInv
<1>2. /\ active' \subseteq Accounts /\ bound' \in [Accounts -> Identities \cup {NoOne}]
      /\ changes' \in 0..MaxChanges
  <2>1. changes' \in 0..MaxChanges
    BY <1>1 DEF AdminChanges, LoginTypes, LoginAssumption
  <2>2. CASE UNCHANGED bound /\ \E u \in Accounts :
               active' = (IF u \in active THEN active \ {u} ELSE active \cup {u})
    BY <1>1, <2>1, <2>2 DEF LoginTypes
  <2>3. CASE UNCHANGED active /\ \E u \in Accounts, i \in Identities \cup {NoOne} :
               bound' = [bound EXCEPT ![u] = i]
    BY <1>1, <2>1, <2>3 DEF LoginTypes
  <2>. QED BY <2>2, <2>3 DEF AdminChanges
<1>3. UNCHANGED <<sessions, cookie, lastSid, flows, requests, counters, guesses, excused,
                  links, served>>
  BY DEF AdminChanges
<1>4. OtherTypes' /\ CountTypes' /\ Quiet
  BY <1>1, <1>2, <1>3, SameCounts DEF OtherTypes, LoginTypes
<1>. QED BY <1>3, <1>4, IdleStep

(* A restart empties the store and ends all requests; a counter whose      *)
(* expiry is lost is excused.                                              *)
LEMMA ApiRestartsStep ==
    ASSUME LoginAssumption, LoginInv, ApiRestarts
    PROVE  LoginInv' /\ SidKept
<1>1. LoginTypes /\ LinkInv /\ SidInv /\ CountInv /\ BlocksEnd
  BY DEF LoginInv
<1>2. /\ \A s \in 1..MaxSids : sessions'[s] = NoSession
      /\ \A r \in Requests : requests'[r] = NoRequest
      /\ sessions' \in [1..MaxSids -> SessionSet] /\ requests' \in [Requests -> RequestSet]
  BY NoSessionShape, NoRequestShape DEF ApiRestarts
<1>3. /\ excused' = excused \cup {ScopeOf(requests[r].kind) : r \in
                        {q \in Requests : requests[q].phase = "expire"}}
      /\ changes' \in 0..MaxChanges
      /\ UNCHANGED <<active, bound, cookie, lastSid, flows, counters, guesses, links, served>>
  BY <1>1 DEF ApiRestarts, LoginTypes, LoginAssumption
<1>4. excused \subseteq excused' /\ excused' \subseteq Scopes
  BY <1>1, <1>3, ScopeOfKind DEF LoginTypes
<1>5. CountTypes'
  BY <1>1, <1>3, <1>4 DEF CountTypes, LoginTypes
<1>6. CountInv'
  <2>1. Busy' = {} /\ \A s \in Scopes : Guessing(s)' = {}
    BY <1>2, NoRequestShape DEF Busy, Guessing
  <2>2. \A s \in Scopes : /\ counters'[s].count = counters[s].count /\ guesses'[s] = guesses[s]
                          /\ s \in excused => s \in excused'
    BY <1>3, <1>4
  <2>. QED BY <1>1, <1>3, <1>5, <2>1, <2>2, QuietCounts
<1>7. BlocksEnd'
  <2>1. SUFFICES ASSUME NEW t \in Scopes \ excused', counters'[t].count > 0,
                        ~counters'[t].expires
                 PROVE  FALSE
    BY DEF BlocksEnd
  <2>2. PICK p \in Requests : requests[p].phase = "expire" /\ ScopeOf(requests[p].kind) = t
    BY <1>1, <1>3, <1>4, <2>1 DEF BlocksEnd
  <2>. QED BY <1>3, <2>1, <2>2
<1>8. LinkInv'
  BY <1>1, <1>2, <1>3, GoneFits, LinkStep, SameFlows
<1>9. SidInv'
  BY <1>1, <1>2, <1>3, NoRequestShape, NoSessionShape DEF SidInv, LoginTypes
<1>10. SidKept
  BY <1>2, NoSessionShape DEF SidKept
<1>11. LoginTypes'
  BY <1>1, <1>2, <1>3, <1>5 DEF LoginTypes, CountTypes
<1>. QED BY <1>6, <1>7, <1>8, <1>9, <1>10, <1>11 DEF LoginInv

(* Every step keeps the invariant and no stored session changes its user. *)
LEMMA LoginStep ==
    ASSUME LoginAssumption, LoginInv, LoginNext
    PROVE  LoginInv' /\ SidKept
<1>1. CASE \E r \in Requests : RequestStep(r)
  <2>1. PICK r \in Requests : RequestStep(r)
    BY <1>1
  <2>2. CASE ArriveLocal(r) \/ ArriveRegister(r) \/ ArriveChange(r) \/ ArriveOther(r)
    BY <2>2, ArriveLocalStep, ArriveRegisterStep, ArriveChangeStep, ArriveOtherStep
  <2>3. CASE \E f \in Flows, i \in Identities : ArriveCallback(r, f, i)
    BY <2>3, ArriveCallbackStep
  <2>4. CASE LocalLogin(r) \/ ChangePassword(r) \/ Count(r) \/ Expire(r) \/ RedisFails(r)
    BY <2>4, LocalLoginStep, ChangePasswordStep, CountStep, ExpireStep, RedisFailsStep
  <2>5. CASE OidcLogin(r) \/ StartOidcLink(r) \/ CallbackLinks(r) \/ CallbackSignsIn(r)
    BY <2>5, LinkFlowStep, CallbackLinksStep, CallbackSignsInStep
  <2>6. CASE UnlinkOidc(r) \/ Logout(r)
    BY <2>6, UnlinkOidcStep, LogoutStep
  <2>. QED BY <2>1, <2>2, <2>3, <2>4, <2>5, <2>6 DEF RequestStep
<1>2. CASE \E s \in Scopes : WindowEnds(s)
  BY <1>2, WindowEndsStep
<1>3. CASE AdminChanges
  BY <1>3, AdminChangesStep
<1>4. CASE ApiRestarts
  BY <1>4, ApiRestartsStep
<1>. QED BY <1>1, <1>2, <1>3, <1>4 DEF LoginNext

(* The first state satisfies the invariant. *)
LEMMA LoginStart ==
    ASSUME LoginAssumption, LoginInit
    PROVE  LoginInv
<1>1. /\ \A r \in Requests : requests[r] = NoRequest
      /\ \A s \in 1..MaxSids : sessions[s] = NoSession
      /\ requests \in [Requests -> RequestSet] /\ sessions \in [1..MaxSids -> SessionSet]
  BY NoRequestShape, NoSessionShape DEF LoginInit
<1>2. flows \in [Flows -> FlowSet]
  BY DEF LoginInit, FlowSet
<1>3. bound \in [Accounts -> Identities \cup {NoOne}]
  BY DEF LoginInit
<1>4. /\ counters \in [Scopes -> CounterSet] /\ guesses \in [Scopes -> Nat]
      /\ \A s \in Scopes : counters[s].count = 0 /\ guesses[s] = 0
  BY DEF LoginInit, CounterSet
<1>5. LoginTypes
  <2>1. /\ active \subseteq Accounts /\ excused \subseteq Scopes
        /\ links \subseteq [user : Accounts, flow : Flows]
    BY DEF LoginInit
  <2>2. /\ cookie \in 0..MaxSids /\ lastSid \in 0..MaxSids
        /\ served \in 0..MaxRequests /\ changes \in 0..MaxChanges
    BY DEF LoginInit, LoginAssumption
  <2>. QED BY <1>1, <1>2, <1>3, <1>4, <2>1, <2>2 DEF LoginTypes
<1>6. LinkInv
  BY <1>1, GoneFits DEF LinkInv, LoginInit
<1>7. SidInv
  BY <1>1, NoRequestShape, NoSessionShape DEF SidInv, LoginInit
<1>8. Busy = {} /\ \A s \in Scopes : Guessing(s) = {}
  BY <1>1, NoRequestShape DEF Busy, Guessing
<1>9. CountInv
  BY <1>4, <1>8, BusyFinite, FS_EmptySet DEF CountInv, LoginInit, LoginAssumption
<1>10. BlocksEnd
  BY <1>4 DEF BlocksEnd
<1>. QED BY <1>5, <1>6, <1>7, <1>9, <1>10 DEF LoginInv

(* For any number of accounts, sessions, flows and requests: the invariant *)
(* holds in every reachable state.                                         *)
THEOREM LoginInvariance == LoginSpec => []LoginInv
<1>1. LoginInit => LoginInv
  BY LoginStart, LoginAssumption
<1>2. LoginInv /\ [LoginNext]_loginVars => LoginInv'
  <2>1. SUFFICES ASSUME LoginInv, [LoginNext]_loginVars
                 PROVE  LoginInv'
    OBVIOUS
  <2>2. CASE LoginNext
    BY <2>1, <2>2, LoginStep, LoginAssumption
  <2>3. CASE UNCHANGED loginVars
    BY <2>1, <2>3 DEF LoginInv, loginVars, LoginTypes, LinkInv, SidInv, CountInv, BlocksEnd,
                      Busy, Guessing
  <2>. QED BY <2>1, <2>2, <2>3
<1>. QED BY <1>1, <1>2, PTL DEF LoginSpec

(* The invariant is stronger than the properties. *)
LEMMA LoginInvImplies ==
    ASSUME LoginAssumption, LoginInv
    PROVE  LoginTypeOK /\ LoginRight
<1>1. LoginTypes /\ LinkInv /\ CountInv /\ BlocksEnd
  BY DEF LoginInv
<1>2. /\ Cardinality(Busy) \in Nat /\ Cardinality(Requests) \in Nat
      /\ \A s : Cardinality(Guessing(s)) \in Nat
  BY BusyFinite
<1>3. \A s \in Scopes : guesses[s] \in 0..MaxRequests /\ counters[s].count \in 0..MaxRequests
  BY <1>1, <1>2 DEF CountInv, LoginTypes, CounterSet, LoginAssumption
<1>4. counters \in [Scopes -> [count : 0..MaxRequests, expires : BOOLEAN]]
  BY <1>1, <1>3 DEF LoginTypes, CounterSet
<1>5. LoginTypeOK
  BY <1>1, <1>3, <1>4 DEF LoginTypes, LoginTypeOK
<1>6. LinkedByOwner
  BY <1>1 DEF LinkedByOwner, LinkInv, FlowFor
<1>7. GuessesBounded
  BY <1>1, <1>2 DEF GuessesBounded, CountInv, LoginTypes, LoginAssumption
<1>. QED BY <1>1, <1>5, <1>6, <1>7 DEF LoginRight

(* Every variable stays in its type; no counter passes the number of       *)
(* requests.                                                               *)
THEOREM LoginTypeCorrect == LoginSpec => []LoginTypeOK
BY LoginInvariance, LoginInvImplies, LoginAssumption, PTL

(* An identity is linked by the user who started the flow; a scope admits  *)
(* no more wrong guesses in a window than MaxGuesses and the requests that *)
(* overlap, unless Redis failed there; and a counter that blocks expires.  *)
THEOREM SignInRight == LoginSpec => []LoginRight
BY LoginInvariance, LoginInvImplies, LoginAssumption, PTL

(* The session under an id never passes to another user, whatever          *)
(* overlapping requests store under it (regenerate in the sign-in).        *)
THEOREM SessionIdHasOneUser == LoginSpec => SidKeepsUser
<1>1. LoginInv /\ [LoginNext]_loginVars => [SidKept]_loginVars
  BY LoginStep, LoginAssumption
<1>. QED BY <1>1, LoginInvariance, PTL DEF LoginSpec, SidKeepsUser, SidKept

(* Accounts and sign-in together: every variable of both keeps its type,   *)
(* whichever of them a behaviour works on.                                 *)
THEOREM AllTyped == ASSUME NotOverlapped PROVE MCSpec => []TypesOK
<1>1. MCInit => Init /\ LoginInit
  BY DEF MCInit
<1>2. [MCNext]_<<vars, loginVars, focus>> => [Next]_vars /\ [LoginNext]_loginVars
  BY DEF MCNext
<1>3. MCSpec => Spec /\ LoginSpec
  BY <1>1, <1>2, PTL DEF MCSpec, Spec, LoginSpec
<1>. QED BY <1>3, AccountTypes, LoginTypeCorrect, PTL DEF TypesOK

=============================================================================
