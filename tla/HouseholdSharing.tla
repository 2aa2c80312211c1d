--------------------------- MODULE HouseholdSharing ---------------------------
(***************************************************************************)
(* The policies of one household and who may read them: the life of a      *)
(* policy row in PolicyRegistryService, the shares of FamilySharingService, *)
(* and the two ways AuthService decides about a READ_ONLY user, one for    *)
(* lists (getReadablePolicyIds) and one for a single policy                *)
(* (assertPolicyReadAccess).  Every other read of a policy's documents,    *)
(* costs and summaries starts with one of the two.                         *)
(***************************************************************************)
EXTENDS Naturals, FiniteSets

CONSTANTS
    Contracts,      \* ids of policies; an id is used once
    Members,        \* users that are or were members of the household
    Kinds,          \* policy types
    ShareRows,      \* ids of rows of object_shares; an id is used once
    Callers,        \* requests under way at a time
    Nothing         \* no scopeRef, no row

ASSUME SharingAssumption == Nothing \notin Contracts \cup Members \cup Kinds \cup ShareRows

VARIABLES
    registry,       \* the policies
    member,         \* who is a member, with the global role
    shares,         \* object_shares
    caller,         \* requests to create a share
    doubled         \* history: shares whose creations overlapped

sharingVars == <<registry, member, shares, caller, doubled>>

Contract ==
    [row : {"none", "live", "archived", "gone"}, owner : Members \cup {Nothing},
     kind : Kinds \cup {Nothing}, pinned : BOOLEAN]
Scopes == {"INSURANCE", "CATEGORY", "ALL_OWNED"}
Share ==
    [row : {"none", "there", "gone"}, source : Members \cup {Nothing},
     target : Members \cup {Nothing}, scope : Scopes \cup {Nothing},
     ref : Contracts \cup Kinds \cup {Nothing}, permission : {"READ", "WRITE"}]

NoContract(row) == [row |-> row, owner |-> Nothing, kind |-> Nothing, pinned |-> FALSE]
NoShare(row) == [row |-> row, source |-> Nothing, target |-> Nothing, scope |-> Nothing,
                 ref |-> Nothing, permission |-> "READ"]
Quiet == NoShare("none")

SharingTypeOK ==
    /\ registry \in [Contracts -> Contract]
    /\ member \in [Members -> {"no", "READ_ONLY", "USER"}]
    /\ shares \in [ShareRows -> Share]
    /\ caller \in [Callers -> Share]
    /\ doubled \subseteq ShareRows

IsMember(u) == member[u] # "no"
InRegistry(p) == registry[p].row \in {"live", "archived"}
Shared == {s \in ShareRows : shares[s].row = "there"}

SharingInit ==
    /\ registry = [p \in Contracts |-> NoContract("none")]
    /\ member = [u \in Members |-> "USER"]
    /\ shares = [s \in ShareRows |-> NoShare("none")]
    /\ caller = [c \in Callers |-> Quiet]
    /\ doubled = {}

-----------------------------------------------------------------------------
(* PolicyRegistryService: USER only.                                       *)

CreateContract ==
    \E p \in Contracts, u \in Members, k \in Kinds :
        /\ registry[p].row = "none"
        /\ member[u] = "USER"
        /\ registry' = [registry EXCEPT ![p] =
                           [row |-> "live", owner |-> u, kind |-> k, pinned |-> FALSE]]
        /\ UNCHANGED <<member, shares, caller, doubled>>

\* update may change the type; archived policies too.
UpdateContract ==
    \E p \in Contracts, k \in Kinds :
        /\ InRegistry(p)
        /\ \E u \in Members : member[u] = "USER"
        /\ registry' = [registry EXCEPT ![p].kind = k]
        /\ UNCHANGED <<member, shares, caller, doubled>>

\* remove is the soft delete.
ArchiveContract ==
    \E p \in Contracts :
        /\ InRegistry(p)
        /\ registry' = [registry EXCEPT ![p].row = "archived"]
        /\ UNCHANGED <<member, shares, caller, doubled>>

\* Shares that name the policy stay: scopeRef is no foreign key.
DeleteContract ==
    \E p \in Contracts :
        /\ InRegistry(p)
        /\ registry' = [registry EXCEPT ![p] = NoContract("gone")]
        /\ UNCHANGED <<member, shares, caller, doubled>>

PinContract ==
    \E p \in Contracts :
        /\ InRegistry(p)
        /\ registry' = [registry EXCEPT ![p].pinned = ~@]
        /\ UNCHANGED <<member, shares, caller, doubled>>

-----------------------------------------------------------------------------
(* FamilySharingService.                                                   *)

SameShare(s, t) ==
    /\ s.source = t.source
    /\ s.target = t.target
    /\ s.scope = t.scope
    /\ s.ref = t.ref

\* Shares that allow writing are not looked at.
FirstShareReadOnly(t) == ~\E s \in Shared : SameShare(shares[s], t) /\ shares[s].permission = "READ"

\* The duplicate check, outside the transaction of the insert.
FirstShare(t) == ~\E s \in Shared : SameShare(shares[s], t)

ScopeRefs(scope) ==
    CASE scope = "INSURANCE" -> {p \in Contracts : InRegistry(p)}
      [] scope = "CATEGORY" -> Kinds
      [] OTHER -> {Nothing}

\* caller[c] is the share to create, from the check to the insert.
ShareCheck(c) ==
    /\ caller[c] = Quiet
    /\ \E u, v \in Members, scope \in Scopes :
        /\ member[u] = "USER" /\ IsMember(v) /\ u # v
        /\ \E ref \in ScopeRefs(scope) :
              LET t == [NoShare("there") EXCEPT !.source = u, !.target = v,
                                               !.scope = scope, !.ref = ref]
              IN  FirstShare(t) /\ caller' = [caller EXCEPT ![c] = t]
    /\ UNCHANGED <<registry, member, shares, doubled>>

Overlapped(c) == \E b \in Callers \ {c} : caller[b] # Quiet /\ SameShare(caller[b], caller[c])

\* A member who has left fails the insert (foreign keys to memberships).
ShareInsert(c) ==
    LET t == caller[c] IN
    /\ t # Quiet
    /\ caller' = [caller EXCEPT ![c] = Quiet]
    /\ IF IsMember(t.source) /\ IsMember(t.target)
       THEN \E s \in ShareRows, permission \in {"READ", "WRITE"} :
               /\ shares[s].row = "none"
               /\ shares' = [shares EXCEPT ![s] = [t EXCEPT !.permission = permission]]
               /\ doubled' = IF Overlapped(c) THEN doubled \cup {s} ELSE doubled
       ELSE UNCHANGED <<shares, doubled>>
    /\ UNCHANGED <<registry, member>>

\* update: by its source only, the permission only.
ChangePermission ==
    \E s \in Shared :
        /\ shares' = [shares EXCEPT ![s].permission = IF @ = "READ" THEN "WRITE" ELSE "READ"]
        /\ UNCHANGED <<registry, member, caller, doubled>>

RevokeShare ==
    \E s \in Shared :
        /\ shares' = [shares EXCEPT ![s] = NoShare("gone")]
        /\ doubled' = doubled \ {s}
        /\ UNCHANGED <<registry, member, caller>>

-----------------------------------------------------------------------------
(* Administration: the role changes; a member leaves, and with the         *)
(* membership go the shares from and to it.                                *)
ChangeRole ==
    \E u \in Members :
        /\ IsMember(u)
        /\ member' = [member EXCEPT ![u] = IF @ = "USER" THEN "READ_ONLY" ELSE "USER"]
        /\ UNCHANGED <<registry, shares, caller, doubled>>

LeaveHousehold ==
    \E u \in Members :
        LET lost == {s \in Shared : u \in {shares[s].source, shares[s].target}} IN
        /\ IsMember(u)
        /\ member' = [member EXCEPT ![u] = "no"]
        /\ shares' = [s \in ShareRows |-> IF s \in lost THEN NoShare("gone") ELSE shares[s]]
        /\ doubled' = doubled \ lost
        /\ UNCHANGED <<registry, caller>>

-----------------------------------------------------------------------------
(* Reading.                                                                *)

ReadShares(u) == {s \in Shared : shares[s].target = u /\ shares[s].permission = "READ"}

\* The OR of the three scopes, the same in both queries.
Matches(s, p) ==
    \/ shares[s].scope = "INSURANCE" /\ shares[s].ref = p
    \/ shares[s].scope = "CATEGORY" /\ shares[s].ref = registry[p].kind
    \/ shares[s].scope = "ALL_OWNED" /\ shares[s].source = registry[p].owner

\* hasPolicyReadShare.
HasPolicyReadShare(u, p) == \E s \in ReadShares(u) : InRegistry(p) /\ Matches(s, p)

\* Every share from somebody counts as one of everything they own.
ReadablePolicyIdsOfSource(u) ==
    {p \in Contracts : registry[p].row = "live" /\
        \E s \in ReadShares(u) : Matches(s, p) \/ shares[s].source = registry[p].owner}

\* getReadablePolicyIds: null for USER, here all policies.
ReadablePolicyIds(u) ==
    IF member[u] = "USER" THEN Contracts
    ELSE {p \in Contracts : registry[p].row = "live" /\ \E s \in ReadShares(u) : Matches(s, p)}

\* assertPolicyReadAccess.
MayRead(u, p) ==
    /\ IsMember(u)
    /\ InRegistry(p)
    /\ member[u] = "READ_ONLY" => HasPolicyReadShare(u, p)

\* findAll, findPinned and the household's costs show of these the live ones.
Listed(u) == {p \in ReadablePolicyIds(u) : IsMember(u) /\ registry[p].row = "live"}

SharingNext ==
    \/ CreateContract \/ UpdateContract \/ ArchiveContract \/ DeleteContract \/ PinContract
    \/ \E c \in Callers : ShareCheck(c) \/ ShareInsert(c)
    \/ ChangePermission \/ RevokeShare
    \/ ChangeRole \/ LeaveHousehold

SharingSpec == SharingInit /\ [][SharingNext]_sharingVars

-----------------------------------------------------------------------------
(* What a list shows, a click opens: the two decisions about a READ_ONLY   *)
(* user, written twice, agree on every policy that is not archived.        *)
ListIsDetail ==
    \A u \in Members, p \in Contracts :
        registry[p].row = "live" => (p \in Listed(u) <=> MayRead(u, p))

(* One share of a kind from one member to another, except where two        *)
(* requests to create it overlapped; there is no unique index.             *)
ShareOnce ==
    \A s, t \in Shared :
        s # t /\ SameShare(shares[s], shares[t]) => s \in doubled \/ t \in doubled

(* Who may read what, and by how many shares.                              *)
SharesRight == ListIsDetail /\ ShareOnce

=============================================================================
