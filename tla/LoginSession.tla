---------------------------- MODULE LoginSession ----------------------------
(***************************************************************************)
(* Signing in: AuthController and AuthService over the session store, the  *)
(* OIDC strategy with its two flows (login, and linking an identity to the *)
(* account that is signed in), LoginRateLimiterService, and what admins do *)
(* to accounts meanwhile.  One browser, so one cookie, sends requests that *)
(* overlap; a provider confirms an identity for a flow once.               *)
(*                                                                         *)
(* express-session, as the handlers use it: a request works on a copy of   *)
(* its session, which is stored when it answers, if the request changed    *)
(* it; regenerate removes the old session and makes a new id.  Session ids *)
(* are numbers that are never used twice.                                  *)
(***************************************************************************)
EXTENDS Integers, FiniteSets

CONSTANTS
    Accounts, Identities, Flows, Requests,
    NoOne,          \* no user, no identity, no flow
    MaxGuesses,     \* LOCAL_AUTH_MAX_ATTEMPTS
    MaxSids,        \* bound: session ids
    MaxRequests,    \* bound: requests in a behaviour
    MaxChanges      \* bound: changes by admins, failures of Redis

ASSUME LoginAssumption ==
    /\ NoOne \notin Accounts \cup Identities \cup Flows
    /\ MaxGuesses \in Nat \ {0}
    /\ {MaxSids, MaxRequests, MaxChanges} \subseteq Nat
    /\ IsFiniteSet(Requests)

VARIABLES
    active,         \* accounts with status ACTIVE
    bound,          \* oidcIssuer and oidcSubject per account
    sessions,       \* the session store
    cookie,         \* versigo.sid in the browser, 0 for none
    lastSid,        \* the last session id given out
    flows,          \* what the provider knows of each authorization request
    requests,       \* requests being served
    counters,       \* Redis: attempts per scope, and whether they expire
    guesses,        \* wrong passwords tried since the counter was new
    excused,        \* scopes in which Redis has failed
    links,          \* identities that users have linked themselves
    served, changes

loginVars == <<active, bound, sessions, cookie, lastSid, flows, requests,
               counters, guesses, excused, links, served, changes>>

Scopes == {"login", "register", "change-password"}
Kinds == {"local", "register", "change", "login", "link", "callback", "unlink", "logout"}

Session(user, flow, link) == [user |-> user, flow |-> flow, link |-> link, there |-> TRUE]
NoSession == [Session(NoOne, NoOne, FALSE) EXCEPT !.there = FALSE]
NoRequest == [kind |-> "none", phase |-> "idle", sid |-> 0, copy |-> NoSession,
         user |-> NoOne, right |-> FALSE, flow |-> NoOne, identity |-> NoOne]

LoginInit ==
    /\ active = Accounts
    /\ bound \in {[u \in Accounts |-> NoOne]}
                 \cup {[[u \in Accounts |-> NoOne] EXCEPT ![v] = i] : v \in Accounts, i \in Identities}
    /\ sessions = [s \in 1..MaxSids |-> NoSession]
    /\ cookie = 0 /\ lastSid = 0
    /\ flows = [f \in Flows |-> [starter |-> NoOne, link |-> FALSE, state |-> "none"]]
    /\ requests = [r \in Requests |-> NoRequest]
    /\ counters = [s \in Scopes |-> [count |-> 0, expires |-> FALSE]]
    /\ guesses = [s \in Scopes |-> 0]
    /\ excused = {}
    /\ links = {}
    /\ served = 0 /\ changes = 0

-----------------------------------------------------------------------------
(* A request arrives and gets a copy of its session.                       *)

BlockedLate(scope) == counters[scope].count > MaxGuesses
Blocked(scope) == counters[scope].count >= MaxGuesses

\* The session of the cookie; without one, an empty session with no id yet.
Loaded(kind) ==
    [NoRequest EXCEPT !.kind = kind, !.phase = "work",
        !.sid = IF cookie # 0 /\ sessions[cookie].there THEN cookie ELSE 0,
        !.copy = IF cookie # 0 /\ sessions[cookie].there
                 THEN sessions[cookie] ELSE Session(NoOne, NoOne, FALSE)]

Serve(r, request) ==
    /\ requests[r] = NoRequest /\ served < MaxRequests
    /\ served' = served + 1
    /\ requests' = [requests EXCEPT ![r] = request]
    /\ UNCHANGED <<active, bound, sessions, cookie, lastSid, flows, counters, guesses, links>>

\* isBlocked; nobody is blocked when Redis does not answer.
Passes(scope) ==
    \/ ~Blocked(scope) /\ UNCHANGED <<excused, changes>>
    \/ /\ changes < MaxChanges /\ changes' = changes + 1
       /\ excused' = excused \cup {scope}

\* SessionAuthGuard: the session has a user, whose account is active now.
Guarded(request) == request.copy.user \in active

\* POST auth/local/login and auth/register; a blocked request ends at once.
ArriveLocal(r) ==
    /\ Passes("login")
    /\ \E u \in Accounts, right \in BOOLEAN :
         Serve(r, [Loaded("local") EXCEPT !.user = u, !.right = right])

\* right: the name is free.
ArriveRegister(r) ==
    /\ Passes("register")
    /\ \E right \in BOOLEAN : Serve(r, [Loaded("register") EXCEPT !.right = right])

ArriveChange(r) ==
    /\ Guarded(Loaded("change")) /\ Passes("change-password")
    /\ \E right \in BOOLEAN : Serve(r, [Loaded("change") EXCEPT !.right = right])

\* A callback that is not in link mode keeps the flow; link mode clears it first.
\* A session in link mode has a user, who asked for it.
ArriveCallback(r, f, i) ==
    LET l == Loaded("callback")
    IN  /\ flows[f].state # "none" /\ l.copy.flow # NoOne
        /\ Serve(r, [l EXCEPT !.flow = f, !.identity = i,
                               !.user = IF l.copy.link THEN l.copy.user ELSE NoOne,
                               !.copy = IF l.copy.link
                                        THEN Session(l.copy.user, l.copy.flow, FALSE)
                                        ELSE l.copy])
        /\ UNCHANGED <<excused, changes>>

ArriveOther(r) ==
    \E kind \in {"login", "link", "unlink", "logout"} :
        /\ kind # "login" => Guarded(Loaded(kind))
        /\ Serve(r, Loaded(kind))
        /\ UNCHANGED <<excused, changes>>

-----------------------------------------------------------------------------
(* The answer: a changed copy is stored under its id, and the browser gets *)
(* the cookie.  A session that never had an id gets one now.               *)

Answer(r, sid, copy, changed) ==
    /\ requests' = [requests EXCEPT ![r] = NoRequest]
    /\ IF ~changed THEN UNCHANGED <<sessions, cookie, lastSid>>
       ELSE LET s == IF sid = 0 THEN lastSid + 1 ELSE sid
            IN  /\ s <= MaxSids
                /\ sessions' = [sessions EXCEPT ![s] = copy]
                /\ cookie' = s
                /\ lastSid' = IF sid = 0 THEN s ELSE lastSid

\* The session keeps its id when somebody signs in.
RenewedInPlace(r, user) ==
    Answer(r, requests[r].sid, Session(user, NoOne, FALSE), TRUE)

\* regenerate: the old session goes, the user signs in under a new id.
Renewed(r, user) ==
    /\ lastSid < MaxSids
    /\ requests' = [requests EXCEPT ![r] = NoRequest]
    /\ sessions' = [s \in 1..MaxSids |->
         IF s = lastSid + 1 THEN Session(user, NoOne, FALSE)
         ELSE IF s = requests[r].sid THEN NoSession ELSE sessions[s]]
    /\ cookie' = lastSid + 1
    /\ lastSid' = lastSid + 1

-----------------------------------------------------------------------------
(* Passwords and registrations, with the counters.                         *)

ScopeOf(kind) ==
    CASE kind = "local" -> "login" [] kind = "register" -> "register"
      [] OTHER -> "change-password"

NewCounter(scope) ==
    /\ counters' = [counters EXCEPT ![scope] = [count |-> 0, expires |-> FALSE]]
    /\ guesses' = [guesses EXCEPT ![scope] = 0]
    /\ excused' = excused \ {scope}

\* localLogin finds an active account and the right password.
LocalLogin(r) ==
    LET q == requests[r]
    IN  /\ q.kind = "local" /\ q.phase = "work"
        /\ q.right /\ q.user \in active
        /\ Renewed(r, q.user)
        /\ NewCounter("login")
        /\ UNCHANGED <<active, bound, flows, links, served, changes>>

\* The password is changed; the session stays.
ChangePassword(r) ==
    LET q == requests[r]
    IN  /\ q.kind = "change" /\ q.phase = "work" /\ q.right
        /\ Answer(r, q.sid, q.copy, FALSE)
        /\ NewCounter("change-password")
        /\ UNCHANGED <<active, bound, flows, links, served, changes>>

\* What counts: a wrong password, and every registration.
Wrong(q) ==
    \/ q.kind = "local" /\ ~(q.right /\ q.user \in active)
    \/ q.kind = "change" /\ ~q.right
    \/ q.kind = "register"

\* Broken variant: the counter expires from the attempt on that blocks.
FirstLate(s) == counters[s].count = MaxGuesses

\* INCR answers 1.
First(s) == counters[s].count = 0

\* INCR, with a PEXPIRE to follow after the first.
Count(r) ==
    LET q == requests[r]
        s == ScopeOf(q.kind)
    IN  /\ q.phase = "work" /\ Wrong(q)
        /\ counters' = [counters EXCEPT ![s].count = counters[s].count + 1]
        /\ guesses' = [guesses EXCEPT ![s] = guesses[s] + 1]
        /\ requests' = [requests EXCEPT
             ![r] = IF First(s) THEN [q EXCEPT !.phase = "expire"] ELSE NoRequest]
        /\ UNCHANGED <<active, bound, sessions, cookie, lastSid, flows, excused, links,
                       served, changes>>

\* PEXPIRE; a counter that is gone by then is left alone.
Expire(r) ==
    LET s == ScopeOf(requests[r].kind)
    IN  /\ requests[r].phase = "expire"
        /\ counters' = [counters EXCEPT ![s].expires = counters[s].count > 0]
        /\ requests' = [requests EXCEPT ![r] = NoRequest]
        /\ UNCHANGED <<active, bound, sessions, cookie, lastSid, flows, guesses, excused,
                       links, served, changes>>

\* Redis does not answer: the attempt is let through uncounted, a PEXPIRE stays out.
RedisFails(r) ==
    LET q == requests[r]
        s == ScopeOf(q.kind)
    IN  /\ changes < MaxChanges /\ changes' = changes + 1
        /\ \/ q.phase = "expire"
           \/ /\ q.phase = "work"
              /\ Wrong(q)
        /\ guesses' = [guesses EXCEPT ![s] = @ + (IF q.phase = "work" THEN 1 ELSE 0)]
        /\ excused' = excused \cup {s}
        /\ requests' = [requests EXCEPT ![r] = NoRequest]
        /\ UNCHANGED <<active, bound, sessions, cookie, lastSid, flows, counters, links,
                       served>>

\* The window of a counter ends.
WindowEnds(scope) ==
    /\ counters[scope].count > 0 /\ counters[scope].expires
    /\ NewCounter(scope)
    /\ UNCHANGED <<active, bound, sessions, cookie, lastSid, flows, requests, links,
                   served, changes>>

-----------------------------------------------------------------------------
(* The flows.  A flow's state and code verifier go into the session.       *)

StartFlow(r, link, copy) ==
    \E f \in Flows :
        /\ flows[f].state = "none"
        /\ flows' = [flows EXCEPT ![f] =
             [starter |-> requests[r].copy.user, link |-> link, state |-> "open"]]
        /\ Answer(r, requests[r].sid, [copy EXCEPT !.flow = f], TRUE)
        /\ UNCHANGED <<active, bound, counters, guesses, excused, links, served, changes>>

\* GET auth/login does not look at a link mode left behind.
OidcLoginKeepsMode(r) ==
    /\ requests[r].kind = "login" /\ requests[r].phase = "work"
    /\ StartFlow(r, FALSE, requests[r].copy)

OidcLogin(r) ==
    /\ requests[r].kind = "login" /\ requests[r].phase = "work"
    /\ StartFlow(r, FALSE, [requests[r].copy EXCEPT !.link = FALSE])

StartOidcLink(r) ==
    /\ requests[r].kind = "link" /\ requests[r].phase = "work"
    /\ StartFlow(r, TRUE, [requests[r].copy EXCEPT !.link = TRUE])

\* The state fits the session's flow, and the code has not been used.
Exchanged(q) == q.flow = q.copy.flow /\ flows[q.flow].state = "open"
Used(f) == [flows EXCEPT ![f].state = "used"]

\* Nobody else has the identity; the account need not be active.
Bindable(u, i) == \A v \in Accounts \ {u} : bound[v] # i

Linked(q) == Exchanged(q) /\ Bindable(q.user, q.identity)

\* A callback in link mode binds to the session's user, without signing in.
CallbackLinks(r) ==
    LET q == requests[r]
    IN  /\ q.kind = "callback" /\ q.phase = "work" /\ q.user # NoOne
        /\ flows' = IF Exchanged(q) THEN Used(q.flow) ELSE flows
        /\ bound' = IF Linked(q) THEN [bound EXCEPT ![q.user] = q.identity] ELSE bound
        /\ links' = IF Linked(q) THEN links \cup {[user |-> q.user, flow |-> q.flow]} ELSE links
        /\ Answer(r, q.sid, [q.copy EXCEPT !.flow = NoOne], TRUE)
        /\ UNCHANGED <<active, counters, guesses, excused, served, changes>>

\* Otherwise it signs in the active account the identity is bound to.
CallbackSignsIn(r) ==
    LET q == requests[r]
    IN  /\ q.kind = "callback" /\ q.phase = "work" /\ q.user = NoOne
        /\ flows' = IF Exchanged(q) THEN Used(q.flow) ELSE flows
        /\ \/ \E u \in active :
                Exchanged(q) /\ bound[u] = q.identity /\ Renewed(r, u)
           \/ /\ ~(Exchanged(q) /\ \E u \in active : bound[u] = q.identity)
              /\ Answer(r, q.sid, q.copy, FALSE)
        /\ UNCHANGED <<active, bound, counters, guesses, excused, links, served, changes>>

UnlinkOidc(r) ==
    LET q == requests[r]
    IN  /\ q.kind = "unlink" /\ q.phase = "work"
        /\ bound' = [bound EXCEPT ![q.copy.user] = NoOne]
        /\ Answer(r, q.sid, q.copy, FALSE)
        /\ UNCHANGED <<active, flows, counters, guesses, excused, links, served, changes>>

\* The session is destroyed and the cookie cleared.
Logout(r) ==
    LET q == requests[r]
    IN  /\ q.kind = "logout" /\ q.phase = "work"
        /\ requests' = [requests EXCEPT ![r] = NoRequest]
        /\ sessions' = [sessions EXCEPT ![q.sid] = NoSession]
        /\ cookie' = 0
        /\ UNCHANGED <<active, bound, lastSid, flows, counters, guesses, excused, links,
                       served, changes>>

-----------------------------------------------------------------------------
(* Elsewhere: admins disable, enable, bind and unbind; the API restarts    *)
(* with an empty store.                                                    *)

AdminChanges ==
    /\ changes < MaxChanges /\ changes' = changes + 1
    /\ \/ \E u \in Accounts :
            active' = (IF u \in active THEN active \ {u} ELSE active \cup {u})
            /\ UNCHANGED bound
       \/ \E u \in Accounts, i \in Identities \cup {NoOne} :
            /\ i # NoOne => Bindable(u, i)
            /\ bound' = [bound EXCEPT ![u] = i]
            /\ UNCHANGED active
    /\ UNCHANGED <<sessions, cookie, lastSid, flows, requests, counters, guesses, excused,
                   links, served>>

ApiRestarts ==
    /\ changes < MaxChanges /\ changes' = changes + 1
    /\ sessions' = [s \in 1..MaxSids |-> NoSession]
    /\ requests' = [r \in Requests |-> NoRequest]
    /\ excused' = excused \cup {ScopeOf(requests[r].kind) : r \in
                     {q \in Requests : requests[q].phase = "expire"}}
    /\ UNCHANGED <<active, bound, cookie, lastSid, flows, counters, guesses, links, served>>

-----------------------------------------------------------------------------
RequestStep(r) ==
    \/ ArriveLocal(r) \/ ArriveRegister(r) \/ ArriveChange(r) \/ ArriveOther(r)
    \/ \E f \in Flows, i \in Identities : ArriveCallback(r, f, i)
    \/ LocalLogin(r) \/ ChangePassword(r) \/ Count(r) \/ Expire(r) \/ RedisFails(r)
    \/ OidcLogin(r) \/ StartOidcLink(r)
    \/ CallbackLinks(r) \/ CallbackSignsIn(r)
    \/ UnlinkOidc(r) \/ Logout(r)

LoginNext ==
    \/ \E r \in Requests : RequestStep(r)
    \/ \E s \in Scopes : WindowEnds(s)
    \/ AdminChanges
    \/ ApiRestarts

LoginSpec == LoginInit /\ [][LoginNext]_loginVars

-----------------------------------------------------------------------------
SessionSet ==
    [user : Accounts \cup {NoOne}, flow : Flows \cup {NoOne}, link : BOOLEAN, there : BOOLEAN]

FlowSet == [starter : Accounts \cup {NoOne}, link : BOOLEAN, state : {"none", "open", "used"}]

RequestSet ==
    [kind : Kinds \cup {"none"}, phase : {"idle", "work", "expire"}, sid : 0..MaxSids,
     copy : SessionSet, user : Accounts \cup {NoOne}, right : BOOLEAN,
     flow : Flows \cup {NoOne}, identity : Identities \cup {NoOne}]

LoginTypeOK ==
    /\ active \subseteq Accounts
    /\ bound \in [Accounts -> Identities \cup {NoOne}]
    /\ sessions \in [1..MaxSids -> SessionSet]
    /\ cookie \in 0..MaxSids /\ lastSid \in 0..MaxSids
    /\ flows \in [Flows -> FlowSet]
    /\ requests \in [Requests -> RequestSet]
    /\ counters \in [Scopes -> [count : 0..MaxRequests, expires : BOOLEAN]]
    /\ guesses \in [Scopes -> 0..MaxRequests]
    /\ excused \subseteq Scopes
    /\ links \subseteq [user : Accounts, flow : Flows]
    /\ served \in 0..MaxRequests /\ changes \in 0..MaxChanges

\* An account is linked only by a link flow that its own user started, however
\* many flows, sign-ins and sign-outs there were in the browser in between
\* (auth.controller.ts:65-68 and 267-271).
LinkedByOwner ==
    \A l \in links : flows[l.flow].link /\ flows[l.flow].starter = l.user

\* A session id belongs to one user or to nobody as long as it lives: who signs
\* in gets a new one (auth.controller.ts:218, 310).
SidKeepsUser ==
    [][\A s \in 1..MaxSids :
         (sessions[s].there /\ sessions'[s].there) => sessions'[s].user = sessions[s].user]_loginVars

\* In one window an address gets MaxGuesses wrong passwords, and those that
\* were under way when it was blocked, unless Redis failed.
GuessesBounded ==
    \A s \in Scopes \ excused : guesses[s] <= MaxGuesses + Cardinality(Requests) - 1

\* Nobody is blocked for good: a counter that has begun expires, or a request is about
\* to see to it, unless Redis or the API failed between the two calls
\* (login-rate-limiter.service.ts:55-57).
BlocksEnd ==
    \A s \in Scopes \ excused : counters[s].count > 0 =>
        counters[s].expires \/ \E r \in Requests : /\ requests[r].phase = "expire"
                                                   /\ ScopeOf(requests[r].kind) = s

\* An identity is linked by its owner only, and the password of an account cannot be
\* guessed by trying.
LoginRight == LinkedByOwner /\ GuessesBounded /\ BlocksEnd

=============================================================================
