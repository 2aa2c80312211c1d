---------------------------- MODULE UserAccounts ----------------------------
(***************************************************************************)
(* Accounts of VersiGo: registration, the administrator's decisions        *)
(* (UserAdminService), deletion of one's own account (PrivacyService), the *)
(* bootstrap of the local administrator at every start of the API, and the *)
(* membership in the household "default".                                  *)
(*                                                                         *)
(* A request is cut where another one can change what it has read: after   *)
(* the session guard, after the reads of its transaction, and, in          *)
(* deleteAccount, between its counts and its deletions.  Its writes become *)
(* visible with the commit, in one step.  approve, reject, enable and      *)
(* deleteAccount run at READ COMMITTED and write by id whatever they read; *)
(* disable and setRole are serializable and aborted when they have to be.  *)
(* Passwords, OIDC bindings, policies and audit entries are left out.      *)
(***************************************************************************)
EXTENDS Naturals, FiniteSets

CONSTANTS
    Users,          \* ids of account rows; an id is used once
    Calls,          \* requests under way at a time
    None,           \* SQL NULL
    Assignable,     \* roles an administrator gives in this instance
    MaxAttempts,    \* MAX_ATTEMPTS of runSerializable (3)
    Alone           \* operations no other request overlaps in this instance

Roles == {"READ_ONLY", "USER", "ADMIN"}
Serializable == {"disable", "setRole"}
Decisions == {"approve", "reject", "enable"}
Operations == Serializable \cup Decisions \cup {"deleteAccount", "bootstrap"}

ASSUME AccountsAssumption ==
    /\ MaxAttempts \in Nat \ {0}
    /\ Alone \subseteq Operations
    /\ Assignable \subseteq Roles
    /\ None \notin Users

VARIABLES
    users,      \* the table users: status and role
    local,      \* the row whose name is LOCAL_ADMIN_USERNAME
    household,  \* the household "default" exists
    members,    \* its memberships
    call        \* requests under way

vars == <<users, local, household, members, call>>

User ==
    [status : {"absent", "PENDING_APPROVAL", "ACTIVE", "DISABLED", "deleted"}, role : Roles]
Call ==
    [op : Operations \cup {"none"}, user : Users \cup {None}, role : Roles,
     phase : {"idle", "entered", "read", "count", "create", "household"},
     checked : BOOLEAN, stale : BOOLEAN, drop : BOOLEAN, attempt : 1..MaxAttempts]

NoUser == [status |-> "absent", role |-> "USER"]
NoCall == [op |-> "none", user |-> None, role |-> "USER", phase |-> "idle",
           checked |-> FALSE, stale |-> FALSE, drop |-> FALSE, attempt |-> 1]

Exists(u) == users[u].status \notin {"absent", "deleted"}
ActiveAdmin(u) == users[u].status = "ACTIVE" /\ users[u].role = "ADMIN"
ActiveAdmins == {u \in Users : ActiveAdmin(u)}
Idle(c) == call[c].phase = "idle"

\* The first start has created the administrator; its last phase may have failed.
Init ==
    /\ local \in Users
    /\ users = [u \in Users |-> IF u = local THEN [status |-> "ACTIVE", role |-> "ADMIN"]
                                             ELSE NoUser]
    /\ household \in BOOLEAN
    /\ members = IF household THEN {local} ELSE {}
    /\ call = [c \in Calls |-> NoCall]

-----------------------------------------------------------------------------
(* Requests enter through the session guard.                               *)

\* Operations in Alone neither overlap others nor are overlapped.
MayEnter(op) ==
    /\ op \in Alone => \A c \in Calls : Idle(c)
    /\ \A c \in Calls : call[c].op \notin Alone

Enter(c, op, u, role) ==
    /\ Idle(c)
    /\ MayEnter(op)
    /\ call' = [call EXCEPT ![c] = [NoCall EXCEPT !.op = op, !.user = u, !.role = role,
                                                 !.phase = "entered"]]
    /\ UNCHANGED <<users, local, household, members>>

\* An administrator, active when the guards look, decides about account u.
Decide(c, op, u) ==
    /\ ActiveAdmins # {}
    /\ Enter(c, op, u, "USER")

\* Nobody disables oneself.
RequestDisable(c, u) ==
    /\ ActiveAdmins \ {u} # {}
    /\ Enter(c, "disable", u, "USER")

RequestRole(c, u, role) ==
    /\ ActiveAdmins # {}
    /\ Enter(c, "setRole", u, role)

\* The role deleteAccount looks at is the one the guard has read.
RequestDeletion(c, u) ==
    /\ users[u].status = "ACTIVE" /\ users[u].role \in {"USER", "ADMIN"}
    /\ Enter(c, "deleteAccount", u, users[u].role)

StartApi(c) == Enter(c, "bootstrap", None, "USER")

\* One transaction; an existing name is refused by the unique index.
Register(u, named) ==
    /\ users[u].status = "absent"
    /\ named => local = None
    /\ users' = [users EXCEPT ![u] = [status |-> "PENDING_APPROVAL", role |-> "USER"]]
    /\ local' = IF named THEN u ELSE local
    /\ UNCHANGED <<household, members, call>>

-----------------------------------------------------------------------------
(* How transactions see each other.                                        *)

\* Broken variant: the default isolation, where only the row itself conflicts.
OvertakesAtReadCommitted(c, u, d) ==
    call[d].op \in Serializable /\ call[d].phase = "read" /\ call[d].user = u

\* The commit of c, which writes row u, dooms the serializable transaction d that has
\* its snapshot already: d writes the same row, or each of the two serializable
\* transactions has counted (a scan of all users) what the other writes.
Overtakes(c, u, d) ==
    /\ call[d].op \in Serializable /\ call[d].phase = "read"
    /\ \/ call[d].user = u
       \/ call[c].op \in Serializable /\ call[c].checked /\ call[d].checked

\* Call c commits its write of row u and is done.
Committed(c, u) ==
    [d \in Calls |-> IF d = c THEN NoCall
                     ELSE IF Overtakes(c, u, d) THEN [call[d] EXCEPT !.stale = TRUE]
                     ELSE call[d]]

\* The request throws or returns early, or its process dies: the open transaction, if
\* there is one, is rolled back.
GiveUp(c) ==
    /\ ~Idle(c)
    /\ call' = [call EXCEPT ![c] = NoCall]
    /\ UNCHANGED <<users, local, household, members>>

-----------------------------------------------------------------------------
(* approve, reject, enable: a read and a write by id.                      *)

Before(op) == IF op = "enable" THEN "DISABLED" ELSE "PENDING_APPROVAL"
After(op) == IF op = "reject" THEN "DISABLED" ELSE "ACTIVE"

ReadAccount(c) ==
    /\ call[c].op \in Decisions /\ call[c].phase = "entered"
    /\ users[call[c].user].status = Before(call[c].op)
    /\ call' = [call EXCEPT ![c].phase = "read"]
    /\ UNCHANGED <<users, local, household, members>>

\* approve adds a membership if the household is there.
WriteDecision(c) ==
    LET u == call[c].user IN
    /\ call[c].op \in Decisions /\ call[c].phase = "read"
    /\ Exists(u)
    /\ users' = [users EXCEPT ![u].status = After(call[c].op)]
    /\ members' = IF call[c].op = "approve" /\ household THEN members \cup {u} ELSE members
    /\ call' = Committed(c, u)
    /\ UNCHANGED <<local, household>>

-----------------------------------------------------------------------------
(* disable, setRole: serializable transactions, retried on a conflict.     *)

\* The last active administrator is neither disabled nor demoted.
Replaceable(u) == users[u].role = "ADMIN" => Cardinality(ActiveAdmins) > 1

\* All reads see the snapshot; `checked` says whether administrators were counted.
Snapshot(c) ==
    LET u == call[c].user IN
    /\ call[c].op \in Serializable /\ call[c].phase = "entered"
    /\ \/ call[c].op = "disable" /\ users[u].status = "ACTIVE"
       \/ call[c].op = "setRole" /\ Exists(u) /\ users[u].role # call[c].role
    /\ Replaceable(u)
    /\ call' = [call EXCEPT ![c].phase = "read", ![c].checked = users[u].role = "ADMIN"]
    /\ UNCHANGED <<users, local, household, members>>

CommitChange(c) ==
    LET u == call[c].user IN
    /\ call[c].op \in Serializable /\ call[c].phase = "read"
    /\ ~call[c].stale
    /\ users' = IF call[c].op = "disable" THEN [users EXCEPT ![u].status = "DISABLED"]
                                          ELSE [users EXCEPT ![u].role = call[c].role]
    /\ call' = Committed(c, u)
    /\ UNCHANGED <<local, household, members>>

\* Broken variant: the last attempt is followed by another one.
AbortChangeOnceMore(c) ==
    /\ call[c].op \in Serializable /\ call[c].phase = "read"
    /\ call[c].attempt <= MaxAttempts
    /\ call' = [call EXCEPT ![c].phase = "entered", ![c].checked = FALSE, ![c].stale = FALSE,
                            ![c].attempt = @ + 1]
    /\ UNCHANGED <<users, local, household, members>>

\* P2034: a doomed transaction is aborted, and PostgreSQL may abort others as well.
AbortChange(c) ==
    /\ call[c].op \in Serializable /\ call[c].phase = "read"
    /\ call[c].attempt < MaxAttempts
    /\ call' = [call EXCEPT ![c].phase = "entered", ![c].checked = FALSE, ![c].stale = FALSE,
                            ![c].attempt = @ + 1]
    /\ UNCHANGED <<users, local, household, members>>

-----------------------------------------------------------------------------
(* deleteAccount.                                                          *)

CountAdmins(c) ==
    /\ call[c].op = "deleteAccount" /\ call[c].phase = "entered"
    /\ call[c].role = "ADMIN" => Cardinality(ActiveAdmins) > 1
    /\ call' = [call EXCEPT ![c].phase = "count"]
    /\ UNCHANGED <<users, local, household, members>>

\* Broken variant: the members left are not counted.
Anybody(u) == u \in members

\* No member but u is left.
NobodyElse(u) == u \in members /\ members \ {u} = {}

\* The household goes with its last member; whether a policy is left is not modelled.
CountMembers(c) ==
    /\ call[c].op = "deleteAccount" /\ call[c].phase = "count"
    /\ \E policies \in BOOLEAN :
          call' = [call EXCEPT ![c].phase = "read",
                               ![c].drop = NobodyElse(call[c].user) /\ ~policies]
    /\ UNCHANGED <<users, local, household, members>>

\* Deleting the household deletes its memberships.
DeleteAccount(c) ==
    LET u == call[c].user IN
    /\ call[c].op = "deleteAccount" /\ call[c].phase = "read"
    /\ Exists(u)
    /\ call[c].drop => household
    /\ users' = [users EXCEPT ![u].status = "deleted"]
    /\ local' = IF local = u THEN None ELSE local
    /\ household' = (household /\ ~call[c].drop)
    /\ members' = IF call[c].drop THEN {} ELSE members \ {u}
    /\ call' = Committed(c, u)

-----------------------------------------------------------------------------
(* The bootstrap at every start of the API.                                *)

\* An account with the name is left alone; its membership is repaired if it is an
\* active administrator's.
FindLocalAdmin(c) ==
    /\ call[c].op = "bootstrap" /\ call[c].phase = "entered"
    /\ \/ /\ local = None
          /\ call' = [call EXCEPT ![c].phase = "create"]
       \/ /\ local # None /\ ActiveAdmin(local)
          /\ call' = [call EXCEPT ![c].phase = "household", ![c].user = local]
    /\ UNCHANGED <<users, local, household, members>>

\* Another process may have taken the name meanwhile: its row is used then.
CreateLocalAdmin(c) ==
    /\ call[c].op = "bootstrap" /\ call[c].phase = "create"
    /\ \/ /\ local = None
          /\ \E u \in Users :
                /\ users[u].status = "absent"
                /\ users' = [users EXCEPT ![u] = [status |-> "ACTIVE", role |-> "ADMIN"]]
                /\ local' = u
       \/ /\ local # None /\ ActiveAdmin(local)
          /\ UNCHANGED <<users, local>>
    /\ call' = [call EXCEPT ![c].phase = "household", ![c].user = local']
    /\ UNCHANGED <<household, members>>

\* The membership refers to the account: the insert fails if that is gone.
EnsureDefaultHousehold(c) ==
    /\ call[c].op = "bootstrap" /\ call[c].phase = "household"
    /\ Exists(call[c].user)
    /\ household' = TRUE
    /\ members' = members \cup {call[c].user}
    /\ call' = [call EXCEPT ![c] = NoCall]
    /\ UNCHANGED <<users, local>>

-----------------------------------------------------------------------------

Arrive(c) ==
    \/ \E u \in Users : \/ \E op \in Decisions : Decide(c, op, u)
                        \/ RequestDisable(c, u)
                        \/ \E role \in Assignable : RequestRole(c, u, role)
                        \/ RequestDeletion(c, u)
    \/ StartApi(c)

Proceed(c) ==
    \/ ReadAccount(c)
    \/ WriteDecision(c)
    \/ Snapshot(c)
    \/ CommitChange(c)
    \/ AbortChange(c)
    \/ CountAdmins(c)
    \/ CountMembers(c)
    \/ DeleteAccount(c)
    \/ FindLocalAdmin(c)
    \/ CreateLocalAdmin(c)
    \/ EnsureDefaultHousehold(c)
    \/ GiveUp(c)

Next ==
    \/ \E c \in Calls : Arrive(c) \/ Proceed(c)
    \/ \E u \in Users, named \in BOOLEAN : Register(u, named)

Spec == Init /\ [][Next]_vars

-----------------------------------------------------------------------------
(* Properties.                                                             *)

TypeOK ==
    /\ users \in [Users -> User]
    /\ local \in Users \cup {None}
    /\ household \in BOOLEAN
    /\ members \subseteq Users
    /\ call \in [Calls -> Call]

(* There is an active administrator, whoever approves, enables, disables,  *)
(* promotes and demotes whom at the same time (assertNotLastActiveAdmin    *)
(* under runSerializable).  Rejections and deletions check too little to   *)
(* be overlapped: they are in Alone where this is to hold.                 *)
AdminRemains == ActiveAdmins # {}

(* Nobody loses a membership because somebody else's account goes          *)
(* ("no data loss for others", deleteAccount), if deletions are in Alone.  *)
MembershipKept ==
    [][\A u \in Users : u \in members /\ u \notin members' => users'[u].status = "deleted"]_vars

=============================================================================
