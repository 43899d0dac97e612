------------------------------ MODULE Tenancy ------------------------------
(***************************************************************************)
(* Users, organizations, memberships, sessions and what every API request  *)
(* does before its handler: resolve the session, look the membership up,   *)
(* assert the permission.  A request holds a slot from that check to its   *)
(* answer; one step is one SQL statement or one transaction.  Handlers of  *)
(* Connections use the same slots.                                         *)
(*                                                                         *)
(* A user has one browser, so one session cookie at a time.  The rate      *)
(* limiter only ever refuses a request that is not begun here.             *)
(***************************************************************************)
EXTENDS Naturals, FiniteSets

CONSTANTS
    Users,          \* e-mail addresses
    Orgs,           \* organization ids
    Granted,        \* roles members are given; bounds the instance
    Slots,          \* requests the API may be serving at once
    MaxRequests     \* bound on requests and on the events beside them

ASSUME TenancyAssumption ==
    /\ MaxRequests \in Nat
    /\ Granted \subseteq {"viewer", "analyst", "admin", "owner"}
    /\ "none" \notin Users \cup Orgs \cup Slots

VARIABLES
    users,      \* rows of users
    role,       \* organization_memberships: org -> user -> role, or "none"
    session,    \* the session of each user's browser
    request,    \* the handlers in progress
    begun       \* how many there have been

tenancy == <<users, role, session, request, begun>>

Roles == {"viewer", "analyst", "admin", "owner"}

Viewer == {"org:read", "app:read", "integration:read", "sync:read", "metrics:read",
           "mapping:read"}
Analyst == Viewer \cup {"sync:trigger", "audit:read"}
Admin == Analyst \cup {"app:create", "app:update", "integration:connect",
           "integration:disconnect", "integration:manage_credentials",
           "org:manage_members", "mapping:verify"}
Owner == Admin \cup {"org:manage_settings"}

Permissions(r) ==
    CASE r = "viewer" -> Viewer [] r = "analyst" -> Analyst
      [] r = "admin" -> Admin   [] r = "owner" -> Owner
      [] OTHER -> {}

\* resolveSession, verifyCsrf, authorizeOrganization and assertPermission.
Allowed(u, org, permission) ==
    /\ session[u] = "live"
    /\ permission \in Permissions(role[org][u])

\* A slot's handler: who asks, for which organization, about which connection
\* or member, with which secret or role, and what a provider answered.
NoRequest == [route |-> "none", user |-> "none", org |-> "none", arg |-> "none",
              at |-> "free", key |-> "none", said |-> "none"]

Begin(h, first) ==
    /\ request[h] = NoRequest /\ begun < MaxRequests
    /\ begun' = begun + 1
    /\ request' = [request EXCEPT ![h] = first]

Proceed(h, next) == request' = [request EXCEPT ![h] = next]

Answer(h) == Proceed(h, NoRequest)

Unused(org) == \A u \in Users : role[org][u] = "none"

-----------------------------------------------------------------------------
\* POST /auth/register: the address is looked up, then user, organization and
\* ownership are inserted in one transaction, then a session is issued.
BeginRegister(h, u) ==
    /\ u \notin users
    /\ Begin(h, [NoRequest EXCEPT !.route = "register", !.user = u, !.at = "create"])
    /\ UNCHANGED <<users, role, session>>

\* Two requests may pass the look-up; the second meets the unique address.
CreateAccount(h) ==
    LET u == request[h].user
    IN  /\ request[h].route = "register" /\ request[h].at = "create"
        /\ \/ u \in users /\ Answer(h) /\ UNCHANGED <<users, role>>
           \/ /\ u \notin users
              /\ users' = users \cup {u}
              /\ \E o \in Orgs : Unused(o) /\ role' = [role EXCEPT ![o][u] = "owner"]
              /\ Proceed(h, [request[h] EXCEPT !.at = "session"])
        /\ UNCHANGED <<session, begun>>

\* POST /auth/login with the right password; a wrong one changes nothing.
BeginLogin(h, u) ==
    /\ u \in users /\ session[u] # "live"
    /\ Begin(h, [NoRequest EXCEPT !.route = "login", !.user = u, !.at = "session"])
    /\ UNCHANGED <<users, role, session>>

IssueSession(h) ==
    /\ request[h].at = "session"
    /\ session' = [session EXCEPT ![request[h].user] = "live"]
    /\ Answer(h)
    /\ UNCHANGED <<users, role, begun>>

\* POST /auth/logout, or the session's time runs out.
EndSession(u) ==
    /\ session[u] = "live" /\ begun < MaxRequests
    /\ begun' = begun + 1
    /\ session' = [session EXCEPT ![u] = "ended"]
    /\ UNCHANGED <<users, role, request>>

\* POST /organizations, in one transaction.
CreateOrganization(u) ==
    /\ session[u] = "live" /\ begun < MaxRequests
    /\ begun' = begun + 1
    /\ \E o \in Orgs : Unused(o) /\ role' = [role EXCEPT ![o][u] = "owner"]
    /\ UNCHANGED <<users, session, request>>

\* POST /organizations/:id/members.
BeginAddMember(h, u, org, member, r) ==
    /\ Allowed(u, org, "org:manage_members") /\ member \in users
    /\ Begin(h, [NoRequest EXCEPT !.route = "members", !.user = u, !.org = org,
                                  !.arg = member, !.at = "grant", !.key = r])
    /\ UNCHANGED <<users, role, session>>

\* An upsert: an existing member's role is replaced.
AddMembership(h) ==
    /\ request[h].at = "grant"
    /\ role' = [role EXCEPT ![request[h].org][request[h].arg] = request[h].key]
    /\ Answer(h)
    /\ UNCHANGED <<users, session, begun>>

\* A statement or a provider call fails, or the process restarts.
Interrupt(h) ==
    /\ request[h] # NoRequest
    /\ Answer(h)
    /\ UNCHANGED <<users, role, session, begun>>

TenancyNext ==
    \/ \E h \in Slots : CreateAccount(h) \/ IssueSession(h) \/ AddMembership(h) \/ Interrupt(h)
    \/ \E h \in Slots, u \in Users : BeginRegister(h, u) \/ BeginLogin(h, u)
    \/ \E h \in Slots, u, v \in Users, o \in Orgs, r \in Granted : BeginAddMember(h, u, o, v, r)
    \/ \E u \in Users : EndSession(u) \/ CreateOrganization(u)

-----------------------------------------------------------------------------
\* A user row never stands without the organization it was registered with,
\* although registration races itself and any statement may fail
\* (routes/auth.ts:81-110).
EveryUserHasOrganization == \A u \in users : \E o \in Orgs : role[o][u] # "none"

=============================================================================
