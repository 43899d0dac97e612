------------------------- MODULE Connections_proofs -------------------------
(***************************************************************************)
(* Theorems about Connections, for any users, organizations, connections,  *)
(* secrets, handlers in progress and requests.                             *)
(***************************************************************************)
EXTENDS Connections, TLAPS

(***************************************************************************)
(* What a handler in progress carries.  The permission is checked once, at *)
(* its beginning; that its user still belongs to the organization, and its *)
(* connection is still that organization's, at every later statement, is   *)
(* the part that several actors must not disturb.                          *)
(***************************************************************************)
Routes == {"none", "register", "login", "members", "connect", "validate", "credentials",
           "discover", "account", "disconnect", "bind", "choose"}

Stages == {"free", "create", "session", "grant", "insert", "put", "call", "status", "account",
           "probe", "mark", "delete", "deactivate", "choose", "bind", "jobs"}

Requests ==
    [route : Routes, user : Users \cup {"none"}, org : Orgs \cup {"none"},
     arg : Users \cup Conns \cup {"none"}, at : Stages,
     key : Keys \cup Granted \cup {"appsflyer", "tenjin", "none"}, said : Statuses]

OnConnection(q) ==
    q.route \in {"connect", "validate", "credentials", "discover", "account", "disconnect", "bind"}

\* The handler's stage is one of its route.
OnItsRoute(q) ==
    /\ q.at = "free" <=> q = NoRequest
    /\ q.at \in {"create", "session"} => q.route \in {"register", "login"} /\ q.user \in Users
    /\ q.at = "grant" =>
          q.route = "members" /\ q.org \in Orgs /\ q.arg \in Users /\ q.key \in Granted
    /\ q.at \in {"insert", "put", "call", "status", "account", "probe", "mark", "delete",
                 "deactivate", "bind", "jobs"} => OnConnection(q)
    /\ q.route = "bind" => q.at \in {"deactivate", "choose", "bind", "jobs"}
    /\ q.at \in {"deactivate", "bind", "jobs"} => q.route = "bind"
    /\ q.at = "choose" => \/ q.route = "bind"
                          \/ q.route = "choose" /\ q.key \in {"appsflyer", "tenjin"}
    /\ q.route = "bind" /\ q.at \in {"deactivate", "choose"} => IsAttribution(q.arg)
    /\ q.at \in {"put", "call", "insert"} => q.key \in Keys
    /\ q.at = "status" => q.said # "none"

\* Its user is a member of the organization its connection belongs to.
AtHome(q) ==
    OnConnection(q) =>
        /\ q.arg \in Conns /\ q.org \in Orgs /\ q.user \in Users
        /\ role[q.org][q.user] # "none"
        /\ q.at # "insert" => orgOf[q.arg] = q.org
        /\ q.route = "bind" => q.arg \in account

RunTyped ==
    /\ run \in [at : {"none", "queued", "reading", "mark"}, conn : Conns \cup {"none"},
                key : Keys \cup {"none"}, said : {"none", "connected", "invalid_credentials"}]
    /\ run = NoRun \/ (run.conn \in Conns /\ orgOf[run.conn] # "none")
    /\ run.at = "none" <=> run = NoRun
    /\ run.at = "mark" => run.said # "none"

Bindings == \A c \in Conns : binding[c] = "active" => c \in account /\ orgOf[c] # "none"

ConsoleTypes ==
    /\ TypeOK
    /\ request \in [Slots -> Requests]
    /\ \A h \in Slots : OnItsRoute(request[h]) /\ AtHome(request[h])
    /\ RunTyped
    /\ Bindings

\* A permission is only ever a member's.
LEMMA AllowedMember ==
    ASSUME NEW u, NEW org, NEW permission, Allowed(u, org, permission)
    PROVE  role[org][u] # "none" /\ session[u] = "live"
BY DEF Allowed, Permissions

\* Members and owners of connections stay; other slots are left alone.
LEMMA OthersAtHome ==
    ASSUME ConsoleTypes, NEW h \in Slots, NEW q \in Requests,
           request' = [request EXCEPT ![h] = q],
           OnItsRoute(q), AtHome(q)',
           \A o \in Orgs, u \in Users : role[o][u] # "none" => role'[o][u] # "none",
           \A c \in Conns : orgOf[c] # "none" => orgOf'[c] = orgOf[c],
           account \subseteq account'
    PROVE  /\ request' \in [Slots -> Requests]
           /\ \A k \in Slots : OnItsRoute(request'[k]) /\ AtHome(request[k])'
<1>1. request' \in [Slots -> Requests]
  BY DEF ConsoleTypes
<1>2. ASSUME NEW k \in Slots PROVE OnItsRoute(request'[k]) /\ AtHome(request[k])'
  <2>1. CASE k = h
    <3>1. request'[k] = q
      BY <2>1 DEF ConsoleTypes
    <3> QED BY <3>1 DEF AtHome, OnConnection
  <2>2. CASE k # h
    <3>1. request'[k] = request[k]
      BY <2>2 DEF ConsoleTypes
    <3>2. OnItsRoute(request[k]) /\ AtHome(request[k])
      BY DEF ConsoleTypes
    <3>3. ASSUME OnConnection(request[k]) PROVE AtHome(request[k])'
      <4>1. orgOf[request[k].arg] = request[k].org => orgOf[request[k].arg] # "none"
        BY <3>2, <3>3, TenancyAssumption DEF AtHome
      <4> QED BY <3>1, <3>2, <3>3, <4>1 DEF AtHome, OnConnection
    <3> QED BY <3>1, <3>2, <3>3 DEF AtHome, OnConnection
  <2> QED BY <2>1, <2>2
<1> QED BY <1>1, <1>2

\* A handler that answers leaves its slot free.
LEMMA AnswerAtHome ==
    ASSUME ConsoleTypes, NEW h \in Slots, Answer(h),
           \A o \in Orgs, u \in Users : role[o][u] # "none" => role'[o][u] # "none",
           \A c \in Conns : orgOf[c] # "none" => orgOf'[c] = orgOf[c],
           account \subseteq account'
    PROVE  /\ request' \in [Slots -> Requests]
           /\ \A k \in Slots : OnItsRoute(request'[k]) /\ AtHome(request[k])'
<1>1. NoRequest \in Requests /\ OnItsRoute(NoRequest)
  <2>1. NoRequest \in Requests
    BY DEF NoRequest, Requests, Statuses, Routes, Stages
  <2>2. NoRequest.at = "free" /\ NoRequest.route = "none"
    BY DEF NoRequest
  <2>3. OnItsRoute(NoRequest)
    BY <2>2 DEF OnItsRoute
  <2> QED BY <2>1, <2>3
<1>2. PICK q \in Requests : q = NoRequest
  BY <1>1
<1>3. AtHome(q)'
  BY <1>2 DEF AtHome, OnConnection, NoRequest
<1>4. request' = [request EXCEPT ![h] = q]
  BY <1>2 DEF Answer, Proceed
<1> QED BY <1>1, <1>2, <1>3, <1>4, OthersAtHome

\* A handler's record at a later stage of its route, and its fields.
Onward(q, at, said) == [q EXCEPT !.at = at, !.said = said]

LEMMA OnwardRecord ==
    ASSUME NEW q \in Requests, NEW at \in Stages, NEW said \in Statuses
    PROVE  /\ Onward(q, at, said) \in Requests
           /\ Onward(q, at, said).at = at /\ Onward(q, at, said).said = said
           /\ Onward(q, at, said).route = q.route /\ Onward(q, at, said).user = q.user
           /\ Onward(q, at, said).org = q.org /\ Onward(q, at, said).arg = q.arg
           /\ Onward(q, at, said).key = q.key
BY DEF Onward, Requests

LEMMA OnwardAlone ==
    ASSUME NEW q \in Requests, NEW at \in Stages
    PROVE  Onward(q, at, q.said) = [q EXCEPT !.at = at]
BY DEF Onward, Requests

LEMMA OnwardOnRoute ==
    ASSUME NEW q \in Requests, OnItsRoute(q), OnConnection(q), NEW at \in Stages,
           NEW said \in Statuses,
           \/ q.route # "bind" /\ at \in {"account", "probe", "delete"}
           \/ q.route # "bind" /\ at = "status" /\ said # "none"
           \/ q.route # "bind" /\ at \in {"put", "call"} /\ q.key \in Keys
           \/ q.route = "bind" /\ at = "choose" /\ IsAttribution(q.arg)
           \/ q.route = "bind" /\ at \in {"bind", "jobs"}
    PROVE  OnItsRoute(Onward(q, at, said))
<1> PICK p \in Requests :
      /\ p = Onward(q, at, said)
      /\ p.at = at /\ p.route = q.route /\ p.key = q.key /\ p.said = said /\ p.arg = q.arg
  BY OnwardRecord
<1>1. p.at # "free" /\ p # NoRequest
  BY DEF OnConnection, NoRequest
<1> QED BY <1>1 DEF OnItsRoute, OnConnection

\* A handler goes on to a later stage of its route.
LEMMA ContinueAtHome ==
    ASSUME ConsoleTypes, NEW h \in Slots, NEW at \in Stages, NEW said \in Statuses,
           request' = [request EXCEPT ![h] = Onward(request[h], at, said)],
           OnConnection(request[h]), at # "insert",
           OnItsRoute(Onward(request[h], at, said)),
           orgOf'[request[h].arg] = request[h].org,
           \A o \in Orgs, u \in Users : role[o][u] # "none" => role'[o][u] # "none",
           \A c \in Conns : orgOf[c] # "none" => orgOf'[c] = orgOf[c],
           account \subseteq account'
    PROVE  /\ request' \in [Slots -> Requests]
           /\ \A k \in Slots : OnItsRoute(request'[k]) /\ AtHome(request[k])'
<1>2. request[h] \in Requests /\ AtHome(request[h])
  BY DEF ConsoleTypes
<1>1. PICK q \in Requests : /\ q = Onward(request[h], at, said) /\ OnItsRoute(q)
                            /\ q.arg = request[h].arg /\ q.org = request[h].org
                            /\ q.user = request[h].user /\ q.route = request[h].route
                            /\ q.at = at
  BY <1>2, OnwardRecord
<1>4. AtHome(q)'
  BY <1>1, <1>2 DEF AtHome, OnConnection
<1> QED BY <1>1, <1>4, OthersAtHome

(***************************************************************************)
(* Every step keeps the types.  Roles are only ever given, connections     *)
(* never change organization and accounts are never removed.               *)
(***************************************************************************)
Kept ==
    /\ \A o \in Orgs, u \in Users : role[o][u] # "none" => role'[o][u] # "none"
    /\ \A c \in Conns : orgOf[c] # "none" => orgOf'[c] = orgOf[c]
    /\ account \subseteq account'

\* A step that leaves the connections alone keeps what is said of them.
LEMMA ConnectionsUntouched ==
    ASSUME ConsoleTypes, UNCHANGED connections,
           users' \subseteq Users, role' \in [Orgs -> [Users -> Roles \cup {"none"}]],
           session' \in [Users -> {"none", "live", "ended"}], begun' \in 0 .. MaxRequests,
           /\ request' \in [Slots -> Requests]
           /\ \A k \in Slots : OnItsRoute(request'[k]) /\ AtHome(request[k])'
    PROVE  ConsoleTypes'
BY DEF ConsoleTypes, TypeOK, connections, RunTyped, Bindings, OnItsRoute, IsAttribution, NoRun

\* A handler that begins is counted, and holds a free slot.
LEMMA BegunAtHome ==
    ASSUME ConsoleTypes, NEW h \in Slots, NEW q \in Requests, Begin(h, q),
           OnItsRoute(q), AtHome(q), UNCHANGED <<role, orgOf, account>>
    PROVE  /\ request' \in [Slots -> Requests]
           /\ \A k \in Slots : OnItsRoute(request'[k]) /\ AtHome(request[k])'
           /\ begun' \in 0 .. MaxRequests
<1>1. request' = [request EXCEPT ![h] = q]
  BY DEF Begin
<1>2. AtHome(q)'
  BY DEF AtHome, OnConnection
<1>3. begun' \in 0 .. MaxRequests
  BY TenancyAssumption DEF Begin, ConsoleTypes, TypeOK
<1> QED BY <1>1, <1>2, <1>3, OthersAtHome

LEMMA TenancyKeepsTypes ==
    ASSUME ConsoleTypes, TenancyNext, UNCHANGED connections
    PROVE  ConsoleTypes'
<1> USE DEF connections
<1>1. ASSUME NEW h \in Slots, NEW u \in Users, BeginRegister(h, u)  PROVE ConsoleTypes'
  <2>a. [NoRequest EXCEPT !.route = "register", !.user = u, !.at = "create"] \in Requests
    BY DEF Requests, NoRequest, Routes, Stages, Statuses
  <2> PICK q \in Requests : q = [NoRequest EXCEPT !.route = "register", !.user = u, !.at = "create"]
    BY <2>a
  <2>b. q.route = "register" /\ q.at = "create" /\ q.user = u
    BY DEF NoRequest
  <2>1. OnItsRoute(q) /\ AtHome(q)
    BY <2>b DEF OnItsRoute, AtHome, OnConnection, NoRequest
  <2>2. Begin(h, q) /\ UNCHANGED <<users, role, session>>
    BY <1>1 DEF BeginRegister
  <2> QED BY <2>1, <2>2, BegunAtHome, ConnectionsUntouched DEF ConsoleTypes, TypeOK
<1>2. ASSUME NEW h \in Slots, NEW u \in Users, BeginLogin(h, u)  PROVE ConsoleTypes'
  <2>a. [NoRequest EXCEPT !.route = "login", !.user = u, !.at = "session"] \in Requests
    BY DEF Requests, NoRequest, Routes, Stages, Statuses
  <2> PICK q \in Requests : q = [NoRequest EXCEPT !.route = "login", !.user = u, !.at = "session"]
    BY <2>a
  <2>b. q.route = "login" /\ q.at = "session" /\ q.user = u
    BY DEF NoRequest
  <2>1. OnItsRoute(q) /\ AtHome(q)
    BY <2>b DEF OnItsRoute, AtHome, OnConnection, NoRequest
  <2>2. Begin(h, q) /\ UNCHANGED <<users, role, session>>
    BY <1>2 DEF BeginLogin
  <2> QED BY <2>1, <2>2, BegunAtHome, ConnectionsUntouched DEF ConsoleTypes, TypeOK
<1>3. ASSUME NEW h \in Slots, NEW u \in Users, NEW v \in Users, NEW o \in Orgs,
             NEW r \in Granted, BeginAddMember(h, u, o, v, r)
      PROVE ConsoleTypes'
  <2>a. [NoRequest EXCEPT !.route = "members", !.user = u, !.org = o, !.arg = v,
                                 !.at = "grant", !.key = r] \in Requests
    BY DEF Requests, NoRequest, Routes, Stages, Statuses
  <2> PICK q \in Requests : q = [NoRequest EXCEPT !.route = "members", !.user = u, !.org = o, !.arg = v,
                                 !.at = "grant", !.key = r]
    BY <2>a
  <2>b. q.route = "members" /\ q.at = "grant" /\ q.user = u /\ q.org = o /\ q.arg = v
        /\ q.key = r
    BY DEF NoRequest
  <2>1. OnItsRoute(q) /\ AtHome(q)
    BY <2>b DEF OnItsRoute, AtHome, OnConnection, NoRequest
  <2>2. Begin(h, q) /\ UNCHANGED <<users, role, session>>
    BY <1>3 DEF BeginAddMember
  <2> QED BY <2>1, <2>2, BegunAtHome, ConnectionsUntouched DEF ConsoleTypes, TypeOK
<1>4. ASSUME NEW h \in Slots, CreateAccount(h)  PROVE ConsoleTypes'
  <2> DEFINE u == request[h].user
  <2>1. u \in Users /\ request[h] \in Requests
    BY <1>4 DEF CreateAccount, ConsoleTypes, OnItsRoute
  <2>2. users' \subseteq Users /\ role' \in [Orgs -> [Users -> Roles \cup {"none"}]] /\ Kept
    BY <1>4, <2>1 DEF CreateAccount, ConsoleTypes, TypeOK, Roles, Kept, Unused
  <2>3. CASE Answer(h)
    BY <1>4, <2>2, <2>3, AnswerAtHome, ConnectionsUntouched
       DEF Kept, CreateAccount, ConsoleTypes, TypeOK
  <2>4. CASE Proceed(h, [request[h] EXCEPT !.at = "session"])
    <3> PICK q \in Requests : /\ q = [request[h] EXCEPT !.at = "session"]
                              /\ q.at = "session" /\ q.route = "register" /\ q.user = u
      BY <1>4, <2>1 DEF Requests, Stages, CreateAccount
    <3>1. OnItsRoute(q) /\ AtHome(q)'
      BY <2>1 DEF OnItsRoute, AtHome, OnConnection, NoRequest
    <3>2. request' = [request EXCEPT ![h] = q]
      BY <2>4 DEF Proceed
    <3> QED BY <1>4, <2>2, <3>1, <3>2, OthersAtHome, ConnectionsUntouched
            DEF Kept, CreateAccount, ConsoleTypes, TypeOK
  <2> QED BY <1>4, <2>3, <2>4 DEF CreateAccount
<1>5. ASSUME NEW h \in Slots, IssueSession(h)  PROVE ConsoleTypes'
  <2>1. request[h].user \in Users
    BY <1>5 DEF IssueSession, ConsoleTypes, OnItsRoute
  <2>2. session' \in [Users -> {"none", "live", "ended"}]
    BY <1>5, <2>1 DEF IssueSession, ConsoleTypes, TypeOK
  <2> QED BY <1>5, <2>2, AnswerAtHome, ConnectionsUntouched
          DEF IssueSession, ConsoleTypes, TypeOK
<1>6. ASSUME NEW h \in Slots, AddMembership(h)  PROVE ConsoleTypes'
  <2>1. /\ request[h].org \in Orgs /\ request[h].arg \in Users
        /\ request[h].key \in Roles /\ request[h].key # "none"
    BY <1>6, TenancyAssumption DEF AddMembership, ConsoleTypes, OnItsRoute, Roles
  <2>2. role' \in [Orgs -> [Users -> Roles \cup {"none"}]] /\ Kept
    BY <1>6, <2>1 DEF AddMembership, ConsoleTypes, TypeOK, Kept
  <2> QED BY <1>6, <2>2, AnswerAtHome, ConnectionsUntouched
          DEF AddMembership, Kept, ConsoleTypes, TypeOK
<1>7. ASSUME NEW h \in Slots, Interrupt(h)  PROVE ConsoleTypes'
  BY <1>7, AnswerAtHome, ConnectionsUntouched DEF Interrupt, ConsoleTypes, TypeOK
<1>8. ASSUME NEW u \in Users, EndSession(u)  PROVE ConsoleTypes'
  <2>1. begun' \in 0 .. MaxRequests /\ session' \in [Users -> {"none", "live", "ended"}]
    BY <1>8, TenancyAssumption DEF EndSession, ConsoleTypes, TypeOK
  <2> QED BY <1>8, <2>1, ConnectionsUntouched
          DEF EndSession, ConsoleTypes, TypeOK, AtHome, OnConnection
<1>9. ASSUME NEW u \in Users, CreateOrganization(u)  PROVE ConsoleTypes'
  <2>1. begun' \in 0 .. MaxRequests
    BY <1>9, TenancyAssumption DEF CreateOrganization, ConsoleTypes, TypeOK
  <2>2. role' \in [Orgs -> [Users -> Roles \cup {"none"}]] /\ Kept
    BY <1>9 DEF CreateOrganization, ConsoleTypes, TypeOK, Roles, Kept, Unused
  <2>3. \A k \in Slots : AtHome(request[k])'
    BY <1>9, <2>2 DEF CreateOrganization, ConsoleTypes, AtHome, OnConnection, Kept
  <2> QED BY <1>9, <2>1, <2>2, <2>3, ConnectionsUntouched
          DEF CreateOrganization, ConsoleTypes, TypeOK
<1> QED BY <1>1, <1>2, <1>3, <1>4, <1>5, <1>6, <1>7, <1>8, <1>9 DEF TenancyNext

\* The record a handler on a connection begins with.
LEMMA AtRecord ==
    ASSUME NEW route \in Routes, NEW u \in Users, NEW org \in Orgs, NEW c \in Conns \cup {"none"},
           NEW at \in Stages, NEW key \in Keys \cup {"appsflyer", "tenjin", "none"}
    PROVE  /\ At(route, u, org, c, at, key) \in Requests
           /\ At(route, u, org, c, at, key).route = route
           /\ At(route, u, org, c, at, key).user = u
           /\ At(route, u, org, c, at, key).org = org
           /\ At(route, u, org, c, at, key).arg = c
           /\ At(route, u, org, c, at, key).at = at
           /\ At(route, u, org, c, at, key).key = key
<1>1. NoRequest \in Requests
  BY DEF NoRequest, Requests, Statuses, Routes, Stages
<1>2. \A q \in Requests : [q EXCEPT !.route = route, !.user = u, !.org = org, !.arg = c,
                                    !.at = at, !.key = key] \in Requests
  BY DEF Requests
<1>3. \A q \in Requests :
        LET p == [q EXCEPT !.route = route, !.user = u, !.org = org, !.arg = c,
                           !.at = at, !.key = key]
        IN  /\ p.route = route /\ p.user = u /\ p.org = org /\ p.arg = c
            /\ p.at = at /\ p.key = key
  BY DEF Requests
<1> QED BY <1>1, <1>2, <1>3 DEF At

\* A handler that begins on a connection of the organization its user belongs to.
LEMMA BeginAt ==
    ASSUME ConsoleTypes, NEW h \in Slots, NEW route \in Routes, NEW u \in Users, NEW org \in Orgs,
           NEW c \in Conns \cup {"none"}, NEW at \in Stages,
           NEW key \in Keys \cup {"appsflyer", "tenjin", "none"},
           NEW permission, Allowed(u, org, permission),
           Begin(h, At(route, u, org, c, at, key)),
           UNCHANGED <<users, role, session, connections>>,
           \/ /\ <<route, at>> = <<"choose", "choose">> /\ key \in {"appsflyer", "tenjin"}
           \/ /\ c \in Conns
              /\ <<route, at>> = <<"connect", "insert">> \/ orgOf[c] = org
              /\ \/ <<route, at>> \in {<<"connect", "insert">>, <<"validate", "call">>,
                                       <<"credentials", "put">>, <<"discover", "call">>,
                                       <<"account", "call">>} /\ key \in Keys
                 \/ <<route, at>> = <<"disconnect", "mark">>
                 \/ /\ c \in account
                    /\ \/ <<route, at>> = <<"bind", "deactivate">> /\ IsAttribution(c)
                       \/ <<route, at>> = <<"bind", "bind">>
    PROVE  ConsoleTypes'
<1> PICK q \in Requests : /\ q = At(route, u, org, c, at, key)
                          /\ q.route = route /\ q.user = u /\ q.org = org
                          /\ q.arg = c /\ q.at = at /\ q.key = key
  BY AtRecord
<1>1. OnItsRoute(q)
  <2>1. q.at # "free" /\ q # NoRequest
    BY DEF NoRequest, Stages
  <2>2. \/ q.route = "choose" /\ q.at = "choose" /\ q.key \in {"appsflyer", "tenjin"}
        \/ q.route = "connect" /\ q.at = "insert" /\ q.key \in Keys
        \/ q.route \in {"validate", "discover", "account"} /\ q.at = "call" /\ q.key \in Keys
        \/ q.route = "credentials" /\ q.at = "put" /\ q.key \in Keys
        \/ q.route = "disconnect" /\ q.at = "mark"
        \/ q.route = "bind" /\ q.at = "deactivate" /\ IsAttribution(q.arg)
        \/ q.route = "bind" /\ q.at = "bind"
    OBVIOUS
  <2> QED BY <2>1, <2>2 DEF OnItsRoute, OnConnection
<1>2. AtHome(q)
  <2>1. role[org][u] # "none"
    BY AllowedMember
  <2> QED BY <2>1 DEF AtHome, OnConnection
<1>3. Begin(h, q) /\ UNCHANGED <<role, orgOf, account>>
  BY DEF connections
<1> QED BY <1>1, <1>2, <1>3, BegunAtHome, ConnectionsUntouched DEF ConsoleTypes, TypeOK

LEMMA BeginHandlerKeepsTypes ==
    ASSUME ConsoleTypes, BeginHandler PROVE ConsoleTypes'
<1> UNCHANGED <<users, role, session, connections>>
  BY DEF BeginHandler
<1> USE DEF Routes, Stages, FindConnection
<1>1. ASSUME NEW h \in Slots, NEW u \in Users, NEW org \in Orgs, NEW c \in Conns
      PROVE  /\ BeginValidate(h, u, org, c) => ConsoleTypes'
             /\ BeginDiscover(h, u, org, c) => ConsoleTypes'
             /\ BeginAddAccount(h, u, org, c) => ConsoleTypes'
             /\ BeginDisconnect(h, u, org, c) => ConsoleTypes'
  <2>1. GetCredential(c) \subseteq Keys
    BY DEF GetCredential, ConsoleTypes, TypeOK
  <2>2. CASE BeginValidate(h, u, org, c)
    <3> PICK key \in Keys : Begin(h, At("validate", u, org, c, "call", key))
      BY <2>1, <2>2 DEF BeginValidate
    <3> QED BY <2>2, BeginAt DEF BeginValidate
  <2>3. CASE BeginDiscover(h, u, org, c)
    <3> PICK key \in Keys : Begin(h, At("discover", u, org, c, "call", key))
      BY <2>1, <2>3 DEF BeginDiscover
    <3> QED BY <2>3, BeginAt DEF BeginDiscover
  <2>4. CASE BeginAddAccount(h, u, org, c)
    <3> PICK key \in Keys : Begin(h, At("account", u, org, c, "call", key))
      BY <2>1, <2>4 DEF BeginAddAccount
    <3> QED BY <2>4, BeginAt DEF BeginAddAccount
  <2>5. CASE BeginDisconnect(h, u, org, c)
    BY <2>5, BeginAt DEF BeginDisconnect
  <2> QED BY <2>2, <2>3, <2>4, <2>5
<1>2. ASSUME NEW h \in Slots, NEW u \in Users, NEW org \in Orgs, NEW c \in Conns, NEW key \in Keys
      PROVE  /\ BeginConnect(h, u, org, c, key) => ConsoleTypes'
             /\ BeginReplaceCredential(h, u, org, c, key) => ConsoleTypes'
  <2>1. CASE BeginConnect(h, u, org, c, key)
    BY <2>1, BeginAt DEF BeginConnect
  <2>2. CASE BeginReplaceCredential(h, u, org, c, key)
    BY <2>2, BeginAt DEF BeginReplaceCredential
  <2> QED BY <2>1, <2>2
<1>3. ASSUME NEW h \in Slots, NEW u \in Users, NEW c \in Conns, BeginBind(h, u, c)
      PROVE  ConsoleTypes'
  <2>1. AppOrg \in Orgs
    BY ConnectionsAssumption
  <2>2. CASE IsAttribution(c)
    BY <1>3, <2>1, <2>2, BeginAt DEF BeginBind
  <2>3. CASE ~IsAttribution(c)
    BY <1>3, <2>1, <2>3, BeginAt DEF BeginBind
  <2> QED BY <2>2, <2>3
<1>4. ASSUME NEW h \in Slots, NEW u \in Users, NEW p \in {"appsflyer", "tenjin"},
             BeginChoose(h, u, p)
      PROVE  ConsoleTypes'
  BY <1>4, BeginAt, ConnectionsAssumption DEF BeginChoose
<1> QED BY <1>1, <1>2, <1>3, <1>4 DEF BeginHandler

\* One statement of a handler.
LEMMA HandlerKeepsTypes ==
    ASSUME ConsoleTypes, NEW h \in Slots, Handler(h) PROVE ConsoleTypes'
<1> DEFINE q == request[h]
           c == request[h].arg
<1>1. q \in Requests /\ OnItsRoute(q) /\ AtHome(q)
  BY DEF ConsoleTypes
<1>a. "none" \notin Orgs
  BY TenancyAssumption
<1> USE DEF connections, Next1, Proceed, Touch
<1>b. \A at \in Stages : [q EXCEPT !.at = at] = Onward(q, at, q.said)
  BY <1>1, OnwardAlone
<1>c. q.said \in Statuses
  BY <1>1 DEF Requests
<1>2. CASE CreateConnection(h)
  <2>1. OnConnection(q) /\ c \in Conns /\ q.org \in Orgs /\ q.route # "bind" /\ q.key \in Keys
    BY <1>1, <1>2 DEF CreateConnection, OnItsRoute, AtHome
  <2>2. CASE orgOf[c] # "none"
    BY <1>2, <2>2, AnswerAtHome
       DEF CreateConnection, ConsoleTypes, TypeOK, RunTyped, Bindings, NoRun
  <2>3. CASE orgOf[c] = "none"
    <3>1. /\ orgOf' = [orgOf EXCEPT ![c] = q.org]
          /\ status' = [status EXCEPT ![c] = "pending"]
          /\ request' = [request EXCEPT ![h] = Onward(q, "put", q.said)]
      BY <1>2, <1>b, <2>3 DEF CreateConnection, Stages
    <3>2. Kept /\ orgOf'[c] = q.org
      BY <1>2, <2>1, <2>3, <3>1 DEF CreateConnection, Kept, ConsoleTypes, TypeOK
    <3>3. OnItsRoute(Onward(q, "put", q.said))
      BY <1>1, <1>c, <2>1, OnwardOnRoute DEF Stages
    <3>7. /\ request' \in [Slots -> Requests]
          /\ \A k \in Slots : OnItsRoute(request'[k]) /\ AtHome(request[k])'
      BY <1>c, <2>1, <3>1, <3>2, <3>3, ContinueAtHome DEF Kept, Stages
    <3>8. TypeOK'
      BY <1>2, <1>a, <2>1, <2>3, <3>1 DEF CreateConnection, ConsoleTypes, TypeOK, Statuses
    <3>9. RunTyped' /\ Bindings'
      BY <1>2, <2>1, <2>3, <3>1, <3>2
         DEF CreateConnection, ConsoleTypes, RunTyped, Bindings, TypeOK, NoRun
    <3> QED BY <3>7, <3>8, <3>9 DEF ConsoleTypes
  <2> QED BY <2>2, <2>3
<1>3. CASE PutCredential(h)
  <2>1. OnConnection(q) /\ c \in Conns /\ orgOf[c] = q.org /\ q.key \in Keys /\ q.route # "bind"
    BY <1>1, <1>3 DEF PutCredential, OnItsRoute, AtHome
  <2>2. request' = [request EXCEPT ![h] = Onward(q, "call", q.said)]
    BY <1>3, <1>b DEF PutCredential, Stages
  <2>3. OnItsRoute(Onward(q, "call", q.said))
    BY <1>1, <1>c, <2>1, OnwardOnRoute DEF Stages
  <2>4. /\ request' \in [Slots -> Requests]
        /\ \A k \in Slots : OnItsRoute(request'[k]) /\ AtHome(request[k])'
    BY <1>3, <1>c, <2>1, <2>2, <2>3, ContinueAtHome DEF PutCredential, Stages
  <2>5. TypeOK'
    BY <1>3, <2>1 DEF PutCredential, ConsoleTypes, TypeOK
  <2> QED BY <1>3, <2>4, <2>5 DEF PutCredential, ConsoleTypes, RunTyped, Bindings, NoRun
<1>4. CASE CallProvider(h)
  <2>1. OnConnection(q) /\ c \in Conns /\ orgOf[c] = q.org /\ q.route # "bind"
    BY <1>1, <1>4 DEF CallProvider, OnItsRoute, AtHome, OnConnection
  <2>2. PICK s \in Statuses \ {"none"} :
          \/ Answer(h)
          \/ request' = [request EXCEPT ![h] =
                 [q EXCEPT !.said = s,
                           !.at = IF q.route = "discover" THEN "account" ELSE "status"]]
    BY <1>4 DEF CallProvider, ValidateAccount, ValidateConnection, Statuses
  <2>3. CASE Answer(h)
    BY <1>4, <2>3, AnswerAtHome DEF CallProvider, ConsoleTypes, TypeOK, RunTyped, Bindings, NoRun
  <2>4. CASE ~Answer(h)
    <3> PICK at \in {"account", "status"} :
          request' = [request EXCEPT ![h] = Onward(q, at, s)]
      BY <1>1, <2>2, <2>4 DEF Requests, Onward
    <3>1. OnItsRoute(Onward(q, at, s))
      BY <1>1, <2>1, OnwardOnRoute DEF Stages
    <3>2. /\ request' \in [Slots -> Requests]
          /\ \A k \in Slots : OnItsRoute(request'[k]) /\ AtHome(request[k])'
      BY <1>4, <2>1, <3>1, ContinueAtHome DEF CallProvider, Stages
    <3> QED BY <1>4, <3>2 DEF CallProvider, ConsoleTypes, TypeOK, RunTyped, Bindings, NoRun
  <2> QED BY <2>3, <2>4
<1>5. CASE UpdateConnectionStatus(h)
  <2>1. OnConnection(q) /\ c \in Conns /\ orgOf[c] = q.org /\ q.route # "bind" /\ q.org \in Orgs
        /\ q.said # "none"
    BY <1>1, <1>5 DEF UpdateConnectionStatus, OnItsRoute, AtHome, OnConnection
  <2>2. /\ request' \in [Slots -> Requests]
        /\ \A k \in Slots : OnItsRoute(request'[k]) /\ AtHome(request[k])'
    <3>1. CASE Answer(h)
      BY <1>5, <3>1, AnswerAtHome DEF UpdateConnectionStatus
    <3>2. CASE ~Answer(h)
      <4> PICK at \in {"account", "probe"} :
            request' = [request EXCEPT ![h] = Onward(q, at, q.said)]
        BY <1>5, <1>b, <3>2 DEF UpdateConnectionStatus, AfterStatus, Stages
      <4>1. OnItsRoute(Onward(q, at, q.said))
        BY <1>1, <1>c, <2>1, OnwardOnRoute DEF Stages
      <4> QED BY <1>5, <1>c, <2>1, <4>1, ContinueAtHome DEF UpdateConnectionStatus, Stages
    <3> QED BY <3>1, <3>2
  <2>3. TypeOK'
    BY <1>5, <1>a, <1>c, <2>1 DEF UpdateConnectionStatus, ConsoleTypes, TypeOK
  <2> QED BY <1>5, <2>2, <2>3 DEF UpdateConnectionStatus, ConsoleTypes, RunTyped, Bindings, NoRun
<1>6. CASE UpsertAccount(h)
  <2>1. OnConnection(q) /\ c \in Conns /\ orgOf[c] = q.org /\ q.route # "bind"
    BY <1>1, <1>6 DEF UpsertAccount, OnItsRoute, AtHome, OnConnection
  <2>2. /\ request' \in [Slots -> Requests]
        /\ \A k \in Slots : OnItsRoute(request'[k]) /\ AtHome(request[k])'
    <3>1. CASE Answer(h)
      BY <1>6, <3>1, AnswerAtHome DEF UpsertAccount
    <3>2. CASE ~Answer(h)
      <4> request' = [request EXCEPT ![h] = Onward(q, "probe", q.said)]
        BY <1>6, <1>b, <3>2 DEF UpsertAccount, Stages
      <4>1. OnItsRoute(Onward(q, "probe", q.said))
        BY <1>1, <1>c, <2>1, OnwardOnRoute DEF Stages
      <4> QED BY <1>6, <1>c, <2>1, <4>1, ContinueAtHome DEF UpsertAccount, Stages
    <3> QED BY <3>1, <3>2
  <2> QED BY <1>6, <2>1, <2>2 DEF UpsertAccount, ConsoleTypes, TypeOK, RunTyped, Bindings, NoRun
<1>7. CASE ReplaceCapabilities(h)
  <2>1. TypeOK'
    BY <1>7 DEF ReplaceCapabilities, Probed, ConsoleTypes, TypeOK
  <2> QED BY <1>7, <2>1, AnswerAtHome DEF ReplaceCapabilities, ConsoleTypes, RunTyped, Bindings, NoRun
<1>8. CASE MarkDisconnected(h)
  <2>1. OnConnection(q) /\ c \in Conns /\ orgOf[c] = q.org /\ q.route # "bind" /\ q.org \in Orgs
    BY <1>1, <1>8 DEF MarkDisconnected, OnItsRoute, AtHome, OnConnection
  <2>2. request' = [request EXCEPT ![h] = Onward(q, "delete", q.said)]
    BY <1>8, <1>b DEF MarkDisconnected, Stages
  <2>3. OnItsRoute(Onward(q, "delete", q.said))
    BY <1>1, <1>c, <2>1, OnwardOnRoute DEF Stages
  <2>4. /\ request' \in [Slots -> Requests]
        /\ \A k \in Slots : OnItsRoute(request'[k]) /\ AtHome(request[k])'
    BY <1>8, <1>c, <2>1, <2>2, <2>3, ContinueAtHome DEF MarkDisconnected, Stages
  <2>5. TypeOK'
    BY <1>8, <1>a, <2>1 DEF MarkDisconnected, ConsoleTypes, TypeOK, Statuses
  <2> QED BY <1>8, <2>4, <2>5 DEF MarkDisconnected, ConsoleTypes, RunTyped, Bindings, NoRun
<1>9. CASE DeleteCredential(h)
  <2>1. TypeOK'
    BY <1>9 DEF DeleteCredential, ConsoleTypes, TypeOK
  <2> QED BY <1>9, <2>1, AnswerAtHome DEF DeleteCredential, ConsoleTypes, RunTyped, Bindings, NoRun
<1>10. CASE DeactivateBindings(h)
  <2>1. /\ OnConnection(q) /\ c \in Conns /\ orgOf[c] = q.org /\ q.route = "bind"
        /\ IsAttribution(c)
    BY <1>1, <1>10 DEF DeactivateBindings, OnItsRoute, AtHome, OnConnection
  <2>2. request' = [request EXCEPT ![h] = Onward(q, "choose", q.said)]
    BY <1>10, <1>b DEF DeactivateBindings, Stages
  <2>3. OnItsRoute(Onward(q, "choose", q.said))
    BY <1>1, <1>c, <2>1, OnwardOnRoute DEF Stages
  <2>4. /\ request' \in [Slots -> Requests]
        /\ \A k \in Slots : OnItsRoute(request'[k]) /\ AtHome(request[k])'
    BY <1>10, <1>c, <2>1, <2>2, <2>3, ContinueAtHome DEF DeactivateBindings, Stages
  <2>5. TypeOK' /\ Bindings'
    BY <1>10 DEF DeactivateBindings, ConsoleTypes, TypeOK, Bindings
  <2> QED BY <1>10, <2>4, <2>5 DEF DeactivateBindings, ConsoleTypes, RunTyped, NoRun
<1>11. CASE ChoosePrimary(h)
  <2>1. CASE q.route = "choose"
    <3>1. q.key \in {"appsflyer", "tenjin"}
      BY <1>1, <1>11, <2>1 DEF ChoosePrimary, OnItsRoute
    <3> QED BY <1>11, <2>1, <3>1, AnswerAtHome
            DEF ChoosePrimary, ConsoleTypes, TypeOK, RunTyped, Bindings, NoRun
  <2>2. CASE q.route # "choose"
    <3>1. /\ OnConnection(q) /\ c \in Conns /\ orgOf[c] = q.org /\ q.route = "bind"
          /\ IsAttribution(c)
      BY <1>1, <1>11, <2>2 DEF ChoosePrimary, OnItsRoute, AtHome, OnConnection
    <3>2. request' = [request EXCEPT ![h] = Onward(q, "bind", q.said)]
      BY <1>11, <1>b, <2>2 DEF ChoosePrimary, Stages
    <3>3. OnItsRoute(Onward(q, "bind", q.said))
      BY <1>1, <1>c, <3>1, OnwardOnRoute DEF Stages
    <3>4. /\ request' \in [Slots -> Requests]
          /\ \A k \in Slots : OnItsRoute(request'[k]) /\ AtHome(request[k])'
      BY <1>11, <1>c, <3>1, <3>2, <3>3, ContinueAtHome DEF ChoosePrimary, Stages
    <3>5. primary' \in {"appsflyer", "tenjin"}
      BY <1>11, <2>2, <3>1 DEF ChoosePrimary, IsAttribution
    <3> QED BY <1>11, <3>4, <3>5 DEF ChoosePrimary, ConsoleTypes, TypeOK, RunTyped, Bindings, NoRun
  <2> QED BY <2>1, <2>2
<1>12. CASE CreateBinding(h)
  <2>1. /\ OnConnection(q) /\ c \in Conns /\ orgOf[c] = q.org /\ q.route = "bind"
        /\ c \in account /\ q.org \in Orgs
    BY <1>1, <1>12 DEF CreateBinding, OnItsRoute, AtHome, OnConnection
  <2>2. CASE Answer(h) /\ UNCHANGED binding
    BY <1>12, <2>2, AnswerAtHome DEF CreateBinding, ConsoleTypes, TypeOK, RunTyped, Bindings, NoRun
  <2>3. CASE ~(Answer(h) /\ UNCHANGED binding)
    <3>1. /\ request' = [request EXCEPT ![h] = Onward(q, "jobs", q.said)]
          /\ binding' = [binding EXCEPT ![c] = "active"]
      BY <1>12, <1>b, <2>3 DEF CreateBinding, Stages
    <3>2. OnItsRoute(Onward(q, "jobs", q.said))
      BY <1>1, <1>c, <2>1, OnwardOnRoute DEF Stages
    <3>3. /\ request' \in [Slots -> Requests]
          /\ \A k \in Slots : OnItsRoute(request'[k]) /\ AtHome(request[k])'
      BY <1>12, <1>c, <2>1, <3>1, <3>2, ContinueAtHome DEF CreateBinding, Stages
    <3>4. TypeOK' /\ Bindings'
      BY <1>12, <1>a, <2>1, <3>1 DEF CreateBinding, ConsoleTypes, TypeOK, Bindings
    <3> QED BY <1>12, <3>3, <3>4 DEF CreateBinding, ConsoleTypes, RunTyped, NoRun
  <2> QED BY <2>2, <2>3
<1>13. CASE EnsureSyncJobs(h)
  <2>1. TypeOK'
    BY <1>13 DEF EnsureSyncJobs, ConsoleTypes, TypeOK, Bindings
  <2> QED BY <1>13, <2>1, AnswerAtHome DEF EnsureSyncJobs, ConsoleTypes, RunTyped, Bindings, NoRun
<1> QED BY <1>2, <1>3, <1>4, <1>5, <1>6, <1>7, <1>8, <1>9, <1>10, <1>11, <1>12, <1>13 DEF Handler

\* A step of the run or of the provider keeps the handlers where they are.
LEMMA HandlersStand ==
    ASSUME ConsoleTypes, UNCHANGED <<role, request, orgOf, account>>
    PROVE  /\ request' \in [Slots -> Requests]
           /\ \A h \in Slots : OnItsRoute(request'[h]) /\ AtHome(request[h])'
BY DEF ConsoleTypes, AtHome, OnConnection

LEMMA RunKeepsTypes ==
    ASSUME ConsoleTypes, PlanRun \/ StartRun \/ ReadProvider \/ MarkConnection \/ Revoke
    PROVE  ConsoleTypes'
<1> USE DEF tenancy
<1>a. begun \in 0 .. MaxRequests /\ MaxRequests \in Nat
  BY TenancyAssumption DEF ConsoleTypes, TypeOK
<1>b. RunTyped /\ Bindings /\ "none" \notin Conns
  BY ConnectionsAssumption DEF ConsoleTypes
<1>1. CASE PlanRun
  <2>a. begun < MaxRequests /\ begun' = begun + 1
    BY <1>1 DEF PlanRun
  <2>b. UNCHANGED <<users, role, session, request, orgOf, status, credential, account, capability,
                    binding, primary, jobs, accepted>>
    BY <1>1 DEF PlanRun
  <2>1. begun' \in 0 .. MaxRequests
    BY <1>a, <2>a
  <2>2. RunTyped'
    BY <1>1, <1>b DEF PlanRun, RunTyped, Bindings, NoRun
  <2>3. TypeOK'
    BY <2>b, <2>1 DEF ConsoleTypes, TypeOK
  <2> QED BY <1>b, <2>b, <2>2, <2>3, HandlersStand DEF ConsoleTypes, Bindings
<1>2. CASE StartRun
  <2>1. run.conn \in Conns /\ orgOf[run.conn] # "none"
    BY <1>2, <1>b DEF StartRun, RunTyped
  <2>2. GetCredential(run.conn) \subseteq Keys
    BY <2>1 DEF GetCredential, ConsoleTypes, TypeOK
  <2>u. UNCHANGED <<tenancy, orgOf, status, credential, account, capability, binding, primary,
                    jobs, accepted>>
    BY <1>2 DEF StartRun
  <2>3. ASSUME run' = NoRun PROVE RunTyped'
    BY <2>3 DEF RunTyped, NoRun
  <2>4. ASSUME NEW key \in Keys, run' = [run EXCEPT !.at = "reading", !.key = key] PROVE RunTyped'
    <3>1. run' \in [at : {"none", "queued", "reading", "mark"}, conn : Conns \cup {"none"},
                    key : Keys \cup {"none"}, said : {"none", "connected", "invalid_credentials"}]
      BY <1>b, <2>4 DEF RunTyped
    <3>2. run'.at = "reading" /\ run'.conn = run.conn
      BY <1>b, <2>4 DEF RunTyped
    <3> QED BY <2>1, <2>u, <3>1, <3>2 DEF RunTyped, NoRun
  <2>5. RunTyped'
    BY <1>2, <2>2, <2>3, <2>4 DEF StartRun
  <2>6. TypeOK'
    BY <2>u DEF ConsoleTypes, TypeOK
  <2> QED BY <1>b, <2>u, <2>5, <2>6, HandlersStand DEF ConsoleTypes, Bindings
<1>3. CASE ReadProvider
  <2>a. run.conn \in Conns /\ orgOf[run.conn] # "none"
    BY <1>3, <1>b DEF ReadProvider, RunTyped
  <2>u. UNCHANGED <<tenancy, orgOf, status, credential, account, binding, primary, jobs, accepted>>
    BY <1>3 DEF ReadProvider
  <2>b. ASSUME run' = NoRun PROVE RunTyped'
    BY <2>b DEF RunTyped, NoRun
  <2>c. ASSUME NEW said \in {"connected", "invalid_credentials"},
               run' = [run EXCEPT !.at = "mark", !.said = said]
        PROVE  RunTyped'
    <3>1. run' \in [at : {"none", "queued", "reading", "mark"}, conn : Conns \cup {"none"},
                    key : Keys \cup {"none"}, said : {"none", "connected", "invalid_credentials"}]
      BY <1>b, <2>c DEF RunTyped
    <3>2. run'.at = "mark" /\ run'.conn = run.conn /\ run'.said = said
      BY <1>b, <2>c DEF RunTyped
    <3> QED BY <2>a, <2>u, <3>1, <3>2 DEF RunTyped, NoRun
  <2>1. RunTyped'
    BY <1>3, <2>b, <2>c DEF ReadProvider
  <2>2. capability' \in [Conns -> {"none", "declared", "probed"}]
    BY <1>3 DEF ReadProvider, Probed, ConsoleTypes, TypeOK
  <2>3. TypeOK'
    BY <2>u, <2>2 DEF ConsoleTypes, TypeOK
  <2> QED BY <1>b, <2>u, <2>1, <2>3, HandlersStand DEF ConsoleTypes, Bindings
<1>4. CASE MarkConnection
  <2>1. /\ run.conn \in Conns /\ orgOf[run.conn] # "none"
        /\ run.said \in {"connected", "invalid_credentials"}
    BY <1>4, <1>b DEF MarkConnection, RunTyped
  <2>2. TypeOK'
    BY <1>4, <2>1 DEF MarkConnection, ConsoleTypes, TypeOK, Statuses
  <2>3. RunTyped'
    BY <1>4 DEF MarkConnection, RunTyped, NoRun
  <2> QED BY <1>4, <2>2, <2>3, HandlersStand DEF MarkConnection, ConsoleTypes, Bindings
<1>5. CASE Revoke
  <2>1. begun' \in 0 .. MaxRequests
    BY <1>5, <1>a DEF Revoke
  <2> QED BY <1>5, <2>1, HandlersStand DEF Revoke, ConsoleTypes, TypeOK, RunTyped, Bindings
<1> QED BY <1>1, <1>2, <1>3, <1>4, <1>5

LEMMA InitTypes == Init => ConsoleTypes
<1> SUFFICES ASSUME Init PROVE ConsoleTypes
  OBVIOUS
<1>1. NoRequest \in Requests /\ OnItsRoute(NoRequest) /\ AtHome(NoRequest)
  <2>1. NoRequest \in Requests
    BY DEF NoRequest, Requests, Statuses, Routes, Stages
  <2>2. NoRequest.at = "free" /\ NoRequest.route = "none"
    BY DEF NoRequest
  <2> QED BY <2>1, <2>2 DEF OnItsRoute, AtHome, OnConnection
<1>2. TypeOK
  BY TenancyAssumption, ConnectionsAssumption DEF Init, TypeOK, Roles, Statuses
<1>3. RunTyped
  BY DEF Init, RunTyped, NoRun
<1>4. Bindings
  BY TenancyAssumption, ConnectionsAssumption DEF Init, Bindings
<1> QED BY <1>1, <1>2, <1>3, <1>4 DEF Init, ConsoleTypes

LEMMA ConsoleTypesInductive == ConsoleTypes /\ [Next]_vars => ConsoleTypes'
<1> SUFFICES ASSUME ConsoleTypes, [Next]_vars PROVE ConsoleTypes'
  OBVIOUS
<1>1. CASE UNCHANGED vars
  BY <1>1, HandlersStand, ConnectionsUntouched
     DEF vars, tenancy, connections, ConsoleTypes, TypeOK
<1> QED BY <1>1, TenancyKeepsTypes, BeginHandlerKeepsTypes, HandlerKeepsTypes, RunKeepsTypes
        DEF Next

\* Every row of the console's tables keeps its type: a connection has a status
\* exactly when it exists, and only connections with an account get sync jobs.
THEOREM TypeCorrect == Spec => []TypeOK
<1>1. ConsoleTypes => TypeOK
  BY DEF ConsoleTypes
<1> QED BY <1>1, InitTypes, ConsoleTypesInductive, PTL DEF Spec

(***************************************************************************)
(* Tenants stay apart: AtHome is what makes the invariant inductive.       *)
(***************************************************************************)

\* A write through a connection's handler is a member's.
LEMMA TouchAtHome ==
    ASSUME ConsoleTypes, NEW h \in Slots, Touch(h), OnConnection(request[h]),
           request[h].at # "insert" \/ orgOf[request[h].arg] = "none"
    PROVE  trespass' = trespass
BY DEF Touch, ConsoleTypes, AtHome

LEMMA TenantsStep == ConsoleTypes /\ TenantsStayApart /\ [Next]_vars => TenantsStayApart'
<1> SUFFICES ASSUME ConsoleTypes, TenantsStayApart, [Next]_vars PROVE trespass' = trespass
  BY DEF TenantsStayApart
<1>1. CASE TenancyNext /\ UNCHANGED connections
  BY <1>1 DEF connections
<1>2. CASE BeginHandler
  BY <1>2 DEF BeginHandler, connections
<1>3. ASSUME NEW h \in Slots, Handler(h) PROVE trespass' = trespass
  <2>1. OnItsRoute(request[h])
    BY DEF ConsoleTypes
  <2>0. CASE ChoosePrimary(h)
    BY <2>0 DEF ChoosePrimary
  <2>2. CASE Touch(h) /\ ~ChoosePrimary(h)
    <3>1. OnConnection(request[h])
      BY <1>3, <2>1, <2>2 DEF Handler, CreateConnection, PutCredential, CallProvider,
            UpdateConnectionStatus, UpsertAccount, ReplaceCapabilities, MarkDisconnected,
            DeleteCredential, DeactivateBindings, CreateBinding, EnsureSyncJobs, OnItsRoute
    <3>2. request[h].at # "insert" \/ orgOf[request[h].arg] = "none" \/ UNCHANGED trespass
      BY <1>3 DEF Handler, CreateConnection, PutCredential, CallProvider,
            UpdateConnectionStatus, UpsertAccount, ReplaceCapabilities, MarkDisconnected,
            DeleteCredential, DeactivateBindings, ChoosePrimary, CreateBinding, EnsureSyncJobs
    <3> QED BY <2>2, <3>1, <3>2, TouchAtHome
  <2>3. Touch(h) \/ UNCHANGED trespass
    BY <1>3 DEF Handler, CreateConnection, PutCredential, CallProvider,
            UpdateConnectionStatus, UpsertAccount, ReplaceCapabilities, MarkDisconnected,
            DeleteCredential, DeactivateBindings, ChoosePrimary, CreateBinding, EnsureSyncJobs
  <2> QED BY <2>0, <2>2, <2>3
<1>4. CASE PlanRun \/ StartRun \/ ReadProvider \/ MarkConnection \/ Revoke
  BY <1>4 DEF PlanRun, StartRun, ReadProvider, MarkConnection, Revoke
<1>5. CASE UNCHANGED vars
  BY <1>5 DEF vars, connections
<1> QED BY <1>1, <1>2, <1>3, <1>4, <1>5 DEF Next

\* No statement of any handler writes a connection for a user outside the
\* organization it belongs to, although the ids are the caller's and the
\* permission is checked before the first statement only.
THEOREM TenantsApart == Spec => []TenantsStayApart
<1>1. Init => TenantsStayApart
  BY DEF Init, TenantsStayApart
<1> QED BY <1>1, InitTypes, ConsoleTypesInductive, TenantsStep, PTL DEF Spec

(***************************************************************************)
(* How requests move, for the invariants about what is between statements. *)
(***************************************************************************)

\* Nothing but its stage, and at a provider's answer what it said, changes in a
\* handler that goes on.
GoesOn(h, stages) ==
    /\ \A k \in Slots \ {h} : request'[k] = request[k]
    /\ \/ request'[h] = NoRequest
       \/ /\ request'[h].at \in stages
          /\ request'[h].route = request[h].route /\ request'[h].arg = request[h].arg

LEMMA HandlerMoves ==
    ASSUME ConsoleTypes, NEW h \in Slots
    PROVE  /\ CreateConnection(h) => GoesOn(h, {"put"})
           /\ PutCredential(h) => GoesOn(h, {"call"})
           /\ CallProvider(h) => GoesOn(h, {"account", "status"})
           /\ UpdateConnectionStatus(h) => GoesOn(h, {"probe", "account"})
           /\ UpsertAccount(h) => GoesOn(h, {"probe"})
           /\ ReplaceCapabilities(h) => GoesOn(h, {})
           /\ MarkDisconnected(h) => GoesOn(h, {"delete"})
           /\ DeleteCredential(h) => GoesOn(h, {})
           /\ DeactivateBindings(h) => GoesOn(h, {"choose"})
           /\ ChoosePrimary(h) => GoesOn(h, {"bind"})
           /\ CreateBinding(h) => GoesOn(h, {"jobs"})
           /\ EnsureSyncJobs(h) => GoesOn(h, {})
           /\ CreateAccount(h) => GoesOn(h, {"session"})
           /\ IssueSession(h) => GoesOn(h, {})
           /\ AddMembership(h) => GoesOn(h, {})
           /\ Interrupt(h) => GoesOn(h, {})
<1>1. request \in [Slots -> Requests]
  BY DEF ConsoleTypes
<1>2. Answer(h) => GoesOn(h, {}) /\ request'[h] = NoRequest
  BY <1>1 DEF Answer, Proceed, GoesOn
<1>3. ASSUME NEW at \in Stages, Next1(h, at) PROVE GoesOn(h, {at})
  BY <1>1, <1>3 DEF Next1, Proceed, GoesOn, Requests
<1>4. CreateAccount(h) => GoesOn(h, {"session"})
  BY <1>1, <1>2 DEF CreateAccount, GoesOn, Proceed, Requests
<1>5. ASSUME CallProvider(h) PROVE GoesOn(h, {"account", "status"})
  <2>1. ASSUME NEW s, NEW at \in {"account", "status"},
               Proceed(h, [request[h] EXCEPT !.said = s, !.at = at])
        PROVE  GoesOn(h, {"account", "status"})
    BY <1>1, <2>1 DEF GoesOn, Proceed, Requests
  <2>2. \/ Answer(h)
        \/ \E s \in Statuses : Proceed(h, [request[h] EXCEPT !.said = s,
               !.at = IF request[h].route = "discover" THEN "account" ELSE "status"])
    BY <1>5 DEF CallProvider, ValidateAccount, ValidateConnection, Statuses
  <2>3. CASE request[h].route = "discover"
    BY <1>2, <2>1, <2>2, <2>3 DEF GoesOn
  <2>4. CASE request[h].route # "discover"
    BY <1>2, <2>1, <2>2, <2>4 DEF GoesOn
  <2> QED BY <2>3, <2>4
<1>6. UpdateConnectionStatus(h) => GoesOn(h, {"probe", "account"})
  BY <1>2, <1>3 DEF UpdateConnectionStatus, AfterStatus, GoesOn, Stages
<1>7. /\ CreateConnection(h) => GoesOn(h, {"put"})
      /\ PutCredential(h) => GoesOn(h, {"call"})
      /\ UpsertAccount(h) => GoesOn(h, {"probe"})
      /\ MarkDisconnected(h) => GoesOn(h, {"delete"})
  BY <1>2, <1>3 DEF CreateConnection, PutCredential, UpsertAccount, MarkDisconnected, GoesOn, Stages
<1>8. /\ DeactivateBindings(h) => GoesOn(h, {"choose"})
      /\ ChoosePrimary(h) => GoesOn(h, {"bind"})
      /\ CreateBinding(h) => GoesOn(h, {"jobs"})
  BY <1>2, <1>3 DEF DeactivateBindings, ChoosePrimary, CreateBinding, GoesOn, Stages
<1>9. /\ ReplaceCapabilities(h) => GoesOn(h, {})
      /\ DeleteCredential(h) => GoesOn(h, {})
      /\ EnsureSyncJobs(h) => GoesOn(h, {})
      /\ IssueSession(h) => GoesOn(h, {})
      /\ AddMembership(h) => GoesOn(h, {})
      /\ Interrupt(h) => GoesOn(h, {})
  BY <1>2 DEF ReplaceCapabilities, DeleteCredential, EnsureSyncJobs, IssueSession, AddMembership,
              Interrupt
<1> QED BY <1>4, <1>5, <1>6, <1>7, <1>8, <1>9

\* A handler that begins.
Begins(h, route, at, c) ==
    /\ \A k \in Slots \ {h} : request'[k] = request[k]
    /\ request'[h].at = at /\ request'[h].route = route /\ request'[h].arg = c

LEMMA BeginMoves ==
    ASSUME ConsoleTypes, NEW h \in Slots, NEW u \in Users, NEW org \in Orgs, NEW c \in Conns
    PROVE  /\ \A key \in Keys : BeginConnect(h, u, org, c, key) => Begins(h, "connect", "insert", c)
           /\ \A key \in Keys : BeginReplaceCredential(h, u, org, c, key) =>
                 Begins(h, "credentials", "put", c)
           /\ BeginValidate(h, u, org, c) =>
                 Begins(h, "validate", "call", c) /\ credential[c] # "none"
           /\ BeginDiscover(h, u, org, c) =>
                 Begins(h, "discover", "call", c) /\ credential[c] # "none"
           /\ BeginAddAccount(h, u, org, c) =>
                 Begins(h, "account", "call", c) /\ credential[c] # "none"
           /\ BeginDisconnect(h, u, org, c) => Begins(h, "disconnect", "mark", c)
           /\ BeginBind(h, u, c) =>
                 Begins(h, "bind", IF IsAttribution(c) THEN "deactivate" ELSE "bind", c)
           /\ \A p \in {"appsflyer", "tenjin"} :
                 BeginChoose(h, u, p) => Begins(h, "choose", "choose", "none")
<1>1. ASSUME NEW route \in Routes, NEW at \in Stages, NEW o \in Orgs, NEW d \in Conns \cup {"none"},
             NEW key \in Keys \cup {"appsflyer", "tenjin", "none"},
             Begin(h, At(route, u, o, d, at, key))
      PROVE  Begins(h, route, at, d)
  BY <1>1, AtRecord DEF Begin, Begins, ConsoleTypes
<1>2. AppOrg \in Orgs
  BY ConnectionsAssumption
<1>3. \A key \in GetCredential(c) : key \in Keys /\ credential[c] # "none"
  BY DEF GetCredential, ConsoleTypes, TypeOK
<1> USE DEF Routes, Stages
<1>4. BeginValidate(h, u, org, c) => Begins(h, "validate", "call", c) /\ credential[c] # "none"
  BY <1>1, <1>3 DEF BeginValidate
<1>5. BeginDiscover(h, u, org, c) => Begins(h, "discover", "call", c) /\ credential[c] # "none"
  BY <1>1, <1>3 DEF BeginDiscover
<1>6. BeginAddAccount(h, u, org, c) => Begins(h, "account", "call", c) /\ credential[c] # "none"
  BY <1>1, <1>3 DEF BeginAddAccount
<1>7. /\ \A key \in Keys : BeginConnect(h, u, org, c, key) => Begins(h, "connect", "insert", c)
      /\ \A key \in Keys : BeginReplaceCredential(h, u, org, c, key) =>
            Begins(h, "credentials", "put", c)
  BY <1>1 DEF BeginConnect, BeginReplaceCredential
<1>8. BeginDisconnect(h, u, org, c) => Begins(h, "disconnect", "mark", c)
  BY <1>1 DEF BeginDisconnect
<1>9. BeginBind(h, u, c) => Begins(h, "bind", IF IsAttribution(c) THEN "deactivate" ELSE "bind", c)
  BY <1>1, <1>2 DEF BeginBind
<1>10. ASSUME NEW p \in {"appsflyer", "tenjin"}, BeginChoose(h, u, p)
       PROVE  Begins(h, "choose", "choose", "none")
  BY <1>1, <1>2, <1>10 DEF BeginChoose
<1> QED BY <1>4, <1>5, <1>6, <1>7, <1>8, <1>9, <1>10

\* Requests that carry neither a connection's call nor a binding.
LEMMA TenancyMoves ==
    ASSUME ConsoleTypes, TenancyNext
    PROVE  \A k \in Slots :
              \/ request'[k] = request[k]
              \/ request'[k].at \in {"free", "create", "session", "grant"} /\ request'[k].route # "bind"
<1>1. request \in [Slots -> Requests]
  BY DEF ConsoleTypes
<1>2. NoRequest.at = "free" /\ NoRequest.route = "none"
  BY DEF NoRequest
<1>3. ASSUME NEW h \in Slots, CreateAccount(h) \/ IssueSession(h) \/ AddMembership(h) \/ Interrupt(h)
      PROVE  \A k \in Slots :
              \/ request'[k] = request[k]
              \/ request'[k].at \in {"free", "session"} /\ request'[k].route # "bind"
  <2>1. GoesOn(h, {"session"}) /\ (request'[h] = NoRequest \/ request[h].route = "register")
    BY <1>1, <1>3, HandlerMoves
       DEF GoesOn, CreateAccount, IssueSession, AddMembership, Interrupt, Answer, Proceed
  <2> QED BY <1>2, <2>1 DEF GoesOn
<1>4. ASSUME NEW h \in Slots, NEW u \in Users, BeginRegister(h, u) \/ BeginLogin(h, u)
      PROVE  \A k \in Slots :
              \/ request'[k] = request[k]
              \/ request'[k].at \in {"create", "session"} /\ request'[k].route # "bind"
  BY <1>1, <1>4 DEF BeginRegister, BeginLogin, Begin, NoRequest
<1>5. ASSUME NEW h \in Slots, NEW u \in Users, NEW v \in Users, NEW o \in Orgs,
             NEW r \in Granted, BeginAddMember(h, u, o, v, r)
      PROVE  \A k \in Slots :
              \/ request'[k] = request[k]
              \/ request'[k].at = "grant" /\ request'[k].route # "bind"
  BY <1>1, <1>5 DEF BeginAddMember, Begin, NoRequest
<1>6. ASSUME NEW u \in Users, EndSession(u) \/ CreateOrganization(u)
      PROVE  \A k \in Slots : request'[k] = request[k]
  BY <1>6 DEF EndSession, CreateOrganization
<1> QED BY <1>3, <1>4, <1>5, <1>6 DEF TenancyNext

(***************************************************************************)
(* The status on the card.                                                 *)
(***************************************************************************)

\* What is about to be written was answered.
AnswerInHand ==
    /\ StatusIsAnAnswer
    /\ \A h \in Slots : request[h].at = "status" => <<request[h].arg, request[h].said>> \in answers
    /\ run.at = "mark" => <<run.conn, run.said>> \in answers

LEMMA AnswerInHandStep == ConsoleTypes /\ AnswerInHand /\ [Next]_vars => AnswerInHand'
<1> SUFFICES ASSUME ConsoleTypes, AnswerInHand, [Next]_vars PROVE AnswerInHand'
  OBVIOUS
<1>a. \A h \in Slots : request[h] \in Requests
  BY DEF ConsoleTypes
<1>b. NoRequest.at = "free"
  BY DEF NoRequest
<1>1. CASE TenancyNext /\ UNCHANGED connections
  BY <1>1, TenancyMoves DEF AnswerInHand, StatusIsAnAnswer, connections
<1>2. CASE BeginHandler
  <2>1. \A h \in Slots : request'[h] = request[h] \/ request'[h].at # "status"
    <3> PICK h \in Slots, u \in Users :
          \/ \E org \in Orgs, c \in Conns :
                \/ BeginValidate(h, u, org, c) \/ BeginDiscover(h, u, org, c)
                \/ BeginAddAccount(h, u, org, c) \/ BeginDisconnect(h, u, org, c)
                \/ \E key \in Keys : \/ BeginConnect(h, u, org, c, key)
                                     \/ BeginReplaceCredential(h, u, org, c, key)
          \/ \E c \in Conns : BeginBind(h, u, c)
          \/ \E provider \in {"appsflyer", "tenjin"} : BeginChoose(h, u, provider)
      BY <1>2 DEF BeginHandler
    <3> QED BY BeginMoves, ConnectionsAssumption DEF Begins
  <2> QED BY <1>2, <2>1 DEF BeginHandler, connections, AnswerInHand, StatusIsAnAnswer
<1>3. ASSUME NEW h \in Slots, Handler(h) PROVE AnswerInHand'
  <2>1. CASE CallProvider(h)
    <3>1. answers \subseteq answers' /\ status' = status /\ run' = run
      BY <2>1 DEF CallProvider
    <3>2. request'[h].at = "status" => <<request'[h].arg, request'[h].said>> \in answers'
      <4> SUFFICES ASSUME request'[h].at = "status"
                   PROVE  <<request'[h].arg, request'[h].said>> \in answers'
        OBVIOUS
      <4> PICK s \in Statuses :
             /\ answers' = answers \cup {<<request[h].arg, s>>}
             /\ \/ Answer(h)
                \/ Proceed(h, [request[h] EXCEPT !.said = s,
                      !.at = IF request[h].route = "discover" THEN "account" ELSE "status"])
        BY <2>1 DEF CallProvider, ValidateAccount, ValidateConnection, Statuses
      <4>1. ~Answer(h)
        BY <1>b DEF Answer, Proceed, ConsoleTypes
      <4>2. request'[h].arg = request[h].arg /\ request'[h].said = s
        BY <1>a, <4>1 DEF Proceed, ConsoleTypes, Requests
      <4> QED BY <4>2
    <3>3. \A k \in Slots \ {h} : request'[k] = request[k]
      BY <2>1, HandlerMoves DEF GoesOn
    <3> QED BY <3>1, <3>2, <3>3 DEF AnswerInHand, StatusIsAnAnswer
  <2>2. CASE ~CallProvider(h)
    <3>1. /\ request'[h].at # "status"
          /\ \A k \in Slots \ {h} : request'[k] = request[k]
      BY <1>3, <1>b, <2>2, HandlerMoves DEF Handler, GoesOn
    <3>2. run' = run /\ answers \subseteq answers'
      BY <1>3, <2>2 DEF Handler, CreateConnection, PutCredential,
            UpdateConnectionStatus, UpsertAccount, ReplaceCapabilities, MarkDisconnected,
            DeleteCredential, DeactivateBindings, ChoosePrimary, CreateBinding, EnsureSyncJobs
    <3>3. StatusIsAnAnswer'
      <4>1. CASE CreateConnection(h)
        BY <4>1 DEF CreateConnection, AnswerInHand, StatusIsAnAnswer, ConsoleTypes, TypeOK
      <4>2. CASE UpdateConnectionStatus(h)
        BY <4>2 DEF UpdateConnectionStatus, AnswerInHand, StatusIsAnAnswer, ConsoleTypes, TypeOK
      <4>3. CASE MarkDisconnected(h)
        BY <4>3 DEF MarkDisconnected, AnswerInHand, StatusIsAnAnswer, ConsoleTypes, TypeOK
      <4>4. CASE UNCHANGED status
        BY <3>2, <4>4 DEF AnswerInHand, StatusIsAnAnswer
      <4> QED BY <1>3, <2>2, <4>1, <4>2, <4>3, <4>4
              DEF Handler, PutCredential, UpsertAccount, ReplaceCapabilities, DeleteCredential,
                  DeactivateBindings, ChoosePrimary, CreateBinding, EnsureSyncJobs
    <3> QED BY <3>1, <3>2, <3>3 DEF AnswerInHand
  <2> QED BY <2>1, <2>2
<1>4. CASE PlanRun
  BY <1>4 DEF PlanRun, NoRun, AnswerInHand, StatusIsAnAnswer
<1>5. CASE StartRun
  <2>1. run'.at # "mark"
    <3>1. ASSUME NEW key, run' = [run EXCEPT !.at = "reading", !.key = key] PROVE run'.at # "mark"
      BY <3>1 DEF ConsoleTypes, RunTyped
    <3>2. run' = NoRun => run'.at # "mark"
      BY DEF NoRun
    <3> QED BY <1>5, <3>1, <3>2 DEF StartRun
  <2> QED BY <1>5, <2>1 DEF StartRun, tenancy, AnswerInHand, StatusIsAnAnswer
<1>6. CASE ReadProvider
  <2>1. run'.at = "mark" => <<run'.conn, run'.said>> \in answers'
    <3>1. ASSUME NEW said, run' = [run EXCEPT !.at = "mark", !.said = said],
                 answers' = answers \cup {<<run.conn, said>>}
          PROVE  <<run'.conn, run'.said>> \in answers'
      BY <3>1 DEF ConsoleTypes, RunTyped
    <3>2. run' = NoRun => run'.at # "mark"
      BY DEF NoRun
    <3> QED BY <1>6, <3>1, <3>2 DEF ReadProvider
  <2>2. answers \subseteq answers' /\ UNCHANGED <<status, request>>
    BY <1>6 DEF ReadProvider, tenancy
  <2> QED BY <2>1, <2>2 DEF AnswerInHand, StatusIsAnAnswer
<1>7. CASE MarkConnection
  <2>1. run' = NoRun /\ run'.at = "none" /\ UNCHANGED <<request, answers>>
    BY <1>7 DEF MarkConnection, tenancy, NoRun
  <2>2. StatusIsAnAnswer'
    BY <1>7 DEF MarkConnection, AnswerInHand, StatusIsAnAnswer, ConsoleTypes, TypeOK
  <2> QED BY <2>1, <2>2 DEF AnswerInHand
<1>8. CASE Revoke
  BY <1>8 DEF Revoke, AnswerInHand, StatusIsAnAnswer
<1>9. CASE UNCHANGED vars
  BY <1>9 DEF vars, tenancy, connections, AnswerInHand, StatusIsAnAnswer
<1> QED BY <1>1, <1>2, <1>3, <1>4, <1>5, <1>6, <1>7, <1>8, <1>9 DEF Next

\* Whatever handlers and runs write a status, and in whatever order, it is one a
\* provider's answer about that connection called for.
THEOREM StatusAnswers == Spec => []StatusIsAnAnswer
<1>1. Init => AnswerInHand
  BY TenancyAssumption, ConnectionsAssumption
     DEF Init, AnswerInHand, StatusIsAnAnswer, NoRun, NoRequest
<1>2. AnswerInHand => StatusIsAnAnswer
  BY DEF AnswerInHand
<1> QED BY <1>1, <1>2, InitTypes, ConsoleTypesInductive, AnswerInHandStep, PTL DEF Spec

(***************************************************************************)
(* Deleted secrets.                                                        *)
(***************************************************************************)

\* Nobody holds the secret of a connection whose deletion nobody raced.
Sealed(c) ==
    /\ orgOf[c] # "none" /\ status[c] = "disconnected" /\ credential[c] = "none"
    /\ ~SecretHeld(c)

DeletionsHold ==
    /\ gone \subseteq Conns
    /\ \A c \in gone : orgOf[c] # "none"
    /\ \A c \in gone \ late : Sealed(c)
    /\ run.at \in {"reading", "mark"} => run.key # "none"

\* A step that hands out no secret of c and leaves its row alone keeps it sealed.
LEMMA StaysSealed ==
    ASSUME NEW c \in Conns, Sealed(c),
           \A h \in Slots : \/ request'[h] = request[h]
                            \/ request'[h].arg # c
                            \/ request'[h].at \notin {"call", "status"}
                            \/ request[h].arg = c /\ request[h].at \in {"call", "status"},
           \/ run' = run
           \/ run'.conn # c
           \/ run'.key = "none"
           \/ run'.key = run.key /\ run'.conn = run.conn,
           orgOf'[c] = orgOf[c], status'[c] = status[c], credential'[c] = credential[c]
    PROVE  Sealed(c)'
BY DEF Sealed, SecretHeld

LEMMA DeletionsStep == ConsoleTypes /\ DeletionsHold /\ [Next]_vars => DeletionsHold'
<1> SUFFICES ASSUME ConsoleTypes, DeletionsHold, [Next]_vars PROVE DeletionsHold'
  OBVIOUS
<1>b. NoRequest.at = "free" /\ "none" \notin Conns
  BY ConnectionsAssumption DEF NoRequest
<1>c. ASSUME gone' \subseteq gone, gone' \ late' \subseteq gone \ late,
             \A c \in gone : orgOf'[c] = orgOf[c],
             \A c \in gone' \ late' : Sealed(c)',
             run' = run \/ run'.key # "none" \/ run'.at \notin {"reading", "mark"}
      PROVE  DeletionsHold'
  BY <1>c DEF DeletionsHold
<1>1. CASE TenancyNext /\ UNCHANGED connections
  <2>1. ASSUME NEW c \in gone \ late PROVE Sealed(c)'
    BY <1>1, TenancyMoves, StaysSealed DEF connections, DeletionsHold
  <2> QED BY <1>1, <1>c, <2>1 DEF connections
<1>2. CASE BeginHandler
  <2> PICK h \in Slots, u \in Users :
        \/ \E org \in Orgs, c \in Conns :
              \/ BeginValidate(h, u, org, c) \/ BeginDiscover(h, u, org, c)
              \/ BeginAddAccount(h, u, org, c) \/ BeginDisconnect(h, u, org, c)
              \/ \E key \in Keys : \/ BeginConnect(h, u, org, c, key)
                                   \/ BeginReplaceCredential(h, u, org, c, key)
        \/ \E c \in Conns : BeginBind(h, u, c)
        \/ \E provider \in {"appsflyer", "tenjin"} : BeginChoose(h, u, provider)
    BY <1>2 DEF BeginHandler
  <2>1. /\ \A k \in Slots \ {h} : request'[k] = request[k]
        /\ \/ request'[h].at \notin {"call", "status"}
           \/ request'[h].arg \in Conns /\ credential[request'[h].arg] # "none"
    <3>1. ASSUME NEW org \in Orgs, NEW c \in Conns,
                 \/ BeginValidate(h, u, org, c) \/ BeginDiscover(h, u, org, c)
                 \/ BeginAddAccount(h, u, org, c) \/ BeginDisconnect(h, u, org, c)
                 \/ \E key \in Keys : \/ BeginConnect(h, u, org, c, key)
                                      \/ BeginReplaceCredential(h, u, org, c, key)
          PROVE  /\ \A k \in Slots \ {h} : request'[k] = request[k]
                 /\ \/ request'[h].at \notin {"call", "status"}
                    \/ request'[h].arg \in Conns /\ credential[request'[h].arg] # "none"
      BY <3>1, BeginMoves DEF Begins
    <3> QED BY <3>1, BeginMoves, ConnectionsAssumption DEF Begins
  <2>2. ASSUME NEW c \in gone \ late PROVE Sealed(c)'
    BY <1>2, <2>1, StaysSealed DEF BeginHandler, connections, DeletionsHold, Sealed
  <2> QED BY <1>2, <1>c, <2>2 DEF BeginHandler, connections
<1>3. ASSUME NEW h \in Slots, Handler(h) PROVE DeletionsHold'
  <2> DEFINE c == request[h].arg
  <2>1. run' = run
    BY <1>3 DEF Handler, CreateConnection, PutCredential, CallProvider, UpdateConnectionStatus,
          UpsertAccount, ReplaceCapabilities, MarkDisconnected, DeleteCredential,
          DeactivateBindings, ChoosePrimary, CreateBinding, EnsureSyncJobs
  <2>2. OnItsRoute(request[h]) /\ AtHome(request[h])
    BY DEF ConsoleTypes
  <2>3. CASE CreateConnection(h)
    <3>1. GoesOn(h, {"put"}) /\ c \in Conns
      BY <2>2, <2>3, HandlerMoves DEF CreateConnection, OnItsRoute, AtHome
    <3>2. /\ \A d \in Conns : orgOf[d] # "none" => orgOf'[d] = orgOf[d] /\ status'[d] = status[d]
          /\ UNCHANGED <<credential, gone, late>>
      BY <2>3, <3>1 DEF CreateConnection, ConsoleTypes, TypeOK
    <3>3. ASSUME NEW d \in gone \ late PROVE Sealed(d)'
      <4>1. d \in Conns /\ Sealed(d) /\ orgOf[d] # "none"
        BY DEF DeletionsHold
      <4> QED BY <1>b, <2>1, <3>1, <3>2, <4>1, StaysSealed DEF GoesOn
    <3> QED BY <1>c, <2>1, <3>2, <3>3 DEF DeletionsHold
  <2>4. CASE PutCredential(h)
    <3>1. GoesOn(h, {"call"}) /\ c \in Conns
      BY <2>2, <2>4, HandlerMoves DEF PutCredential, OnItsRoute, AtHome
    <3>2. /\ credential' = [credential EXCEPT ![c] = request[h].key]
          /\ gone' = gone \ {c} /\ late' = late \ {c} /\ UNCHANGED <<orgOf, status>>
      BY <2>4 DEF PutCredential
    <3>3. ASSUME NEW d \in gone' \ late' PROVE Sealed(d)'
      <4>1. d \in Conns /\ d # c /\ Sealed(d)
        BY <3>2 DEF DeletionsHold
      <4>2. credential'[d] = credential[d]
        BY <3>2, <4>1 DEF ConsoleTypes, TypeOK
      <4> QED BY <1>b, <2>1, <3>1, <3>2, <4>1, <4>2, StaysSealed DEF GoesOn
    <3> QED BY <1>c, <2>1, <3>2, <3>3
  <2>5. CASE CallProvider(h)
    <3>1. GoesOn(h, {"account", "status"}) /\ UNCHANGED <<orgOf, status, credential, gone, late>>
          /\ request[h].at = "call"
      BY <2>5, HandlerMoves DEF CallProvider
    <3>2. ASSUME NEW d \in gone \ late PROVE Sealed(d)'
      BY <1>b, <2>1, <3>1, StaysSealed DEF GoesOn, DeletionsHold
    <3> QED BY <1>c, <2>1, <3>1, <3>2
  <2>6. CASE UpdateConnectionStatus(h) \/ MarkDisconnected(h)
    <3>1. GoesOn(h, {"probe", "account", "delete"}) /\ UNCHANGED <<orgOf, credential, gone, late>>
      BY <2>6, HandlerMoves DEF GoesOn, UpdateConnectionStatus, MarkDisconnected
    <3>2. ASSUME NEW d \in gone \ late PROVE Sealed(d)'
      <4>1. d \in Conns /\ Sealed(d)
        BY DEF DeletionsHold
      <4>2. status'[d] = status[d]
        <5>1. CASE UpdateConnectionStatus(h)
          <6>1. d # c
            BY <4>1, <5>1 DEF UpdateConnectionStatus, Sealed, SecretHeld
          <6> QED BY <4>1, <5>1, <6>1 DEF UpdateConnectionStatus, ConsoleTypes, TypeOK
        <5>2. CASE MarkDisconnected(h)
          BY <4>1, <5>2 DEF MarkDisconnected, ConsoleTypes, TypeOK, Sealed
        <5> QED BY <2>6, <5>1, <5>2
      <4> QED BY <1>b, <2>1, <3>1, <4>1, <4>2, StaysSealed DEF GoesOn
    <3> QED BY <1>c, <2>1, <3>1, <3>2
  <2>7. CASE DeleteCredential(h)
    <3>1. GoesOn(h, {}) /\ c \in Conns /\ orgOf[c] # "none"
      BY <2>2, <2>7, TenancyAssumption, HandlerMoves DEF DeleteCredential, OnItsRoute, AtHome
    <3>2. /\ credential' = [credential EXCEPT ![c] = "none"]
          /\ gone' = gone \cup {c} /\ UNCHANGED <<orgOf, status>>
          /\ late' = IF SecretHeld(c) \/ status[c] # "disconnected" THEN late \cup {c} ELSE late
      BY <2>7 DEF DeleteCredential
    <3>3. ASSUME NEW d \in gone' \ late' PROVE Sealed(d)'
      <4>1. CASE d = c
        <5>1. ~SecretHeld(c) /\ status[c] = "disconnected" /\ credential'[c] = "none"
          BY <3>1, <3>2, <4>1 DEF ConsoleTypes, TypeOK
        <5> QED BY <1>b, <2>1, <3>1, <3>2, <4>1, <5>1 DEF Sealed, SecretHeld, GoesOn
      <4>2. CASE d # c
        <5>1. d \in gone \ late /\ d \in Conns /\ Sealed(d) /\ credential'[d] = credential[d]
          BY <3>2, <4>2 DEF DeletionsHold, ConsoleTypes, TypeOK
        <5> QED BY <1>b, <2>1, <3>1, <3>2, <5>1, StaysSealed DEF GoesOn
      <4> QED BY <4>1, <4>2
    <3> QED BY <2>1, <3>1, <3>2, <3>3 DEF DeletionsHold
  <2>8. CASE \/ UpsertAccount(h) \/ ReplaceCapabilities(h) \/ DeactivateBindings(h)
             \/ ChoosePrimary(h) \/ CreateBinding(h) \/ EnsureSyncJobs(h)
    <3>1. /\ GoesOn(h, {"probe", "choose", "bind", "jobs"})
          /\ UNCHANGED <<orgOf, status, credential, gone, late>>
      BY <2>8, HandlerMoves DEF GoesOn, UpsertAccount, ReplaceCapabilities, DeactivateBindings,
            ChoosePrimary, CreateBinding, EnsureSyncJobs
    <3>2. ASSUME NEW d \in gone \ late PROVE Sealed(d)'
      BY <1>b, <2>1, <3>1, StaysSealed DEF GoesOn, DeletionsHold
    <3> QED BY <1>c, <2>1, <3>1, <3>2
  <2> QED BY <1>3, <2>3, <2>4, <2>5, <2>6, <2>7, <2>8 DEF Handler
<1>4. CASE PlanRun
  <2>1. /\ UNCHANGED <<request, orgOf, status, credential, gone, late>>
        /\ run'.key = "none" /\ run'.at = "queued"
    BY <1>4 DEF PlanRun, NoRun
  <2>2. ASSUME NEW d \in gone \ late PROVE Sealed(d)'
    <3>1. d \in Conns /\ Sealed(d)
      BY DEF DeletionsHold
    <3> QED BY <2>1, <3>1 DEF Sealed, SecretHeld
  <2> QED BY <1>c, <2>1, <2>2
<1>5. CASE StartRun
  <2>1. UNCHANGED <<request, orgOf, status, credential, gone, late>>
    BY <1>5 DEF StartRun, tenancy
  <2>2. CASE run' = NoRun
    <3>1. run'.key = "none" /\ run'.at = "none"
      BY <2>2 DEF NoRun
    <3>2. ASSUME NEW d \in gone \ late PROVE Sealed(d)'
      <4>1. d \in Conns /\ Sealed(d)
        BY DEF DeletionsHold
      <4> QED BY <2>1, <3>1, <4>1 DEF Sealed, SecretHeld
    <3> QED BY <1>c, <2>1, <3>1, <3>2
  <2>3. ASSUME NEW key \in GetCredential(run.conn),
               run' = [run EXCEPT !.at = "reading", !.key = key]
        PROVE  DeletionsHold'
    <3>1. key # "none" /\ credential[run.conn] # "none"
      BY DEF GetCredential
    <3>2. run'.conn = run.conn /\ run'.key = key
      BY <2>3 DEF ConsoleTypes, RunTyped
    <3>3. ASSUME NEW d \in gone \ late PROVE Sealed(d)'
      BY <2>1, <3>1, <3>2, StaysSealed DEF DeletionsHold, Sealed
    <3> QED BY <1>c, <2>1, <3>1, <3>2, <3>3
  <2> QED BY <1>5, <2>2, <2>3 DEF StartRun
<1>6. CASE ReadProvider
  <2>1. UNCHANGED <<request, orgOf, status, credential, gone, late>>
    BY <1>6 DEF ReadProvider, tenancy
  <2>2. CASE run' = NoRun
    <3>1. run'.key = "none" /\ run'.at = "none"
      BY <2>2 DEF NoRun
    <3>2. ASSUME NEW d \in gone \ late PROVE Sealed(d)'
      <4>1. d \in Conns /\ Sealed(d)
        BY DEF DeletionsHold
      <4> QED BY <2>1, <3>1, <4>1 DEF Sealed, SecretHeld
    <3> QED BY <1>c, <2>1, <3>1, <3>2
  <2>3. ASSUME NEW said, run' = [run EXCEPT !.at = "mark", !.said = said]
        PROVE  DeletionsHold'
    <3>1. run'.conn = run.conn /\ run'.key = run.key /\ run.key # "none"
      BY <1>6, <2>3 DEF ReadProvider, ConsoleTypes, RunTyped, DeletionsHold
    <3>2. ASSUME NEW d \in gone \ late PROVE Sealed(d)'
      <4>1. d \in Conns /\ Sealed(d)
        BY DEF DeletionsHold
      <4> QED BY <2>1, <3>1, <4>1 DEF Sealed, SecretHeld
    <3> QED BY <1>c, <2>1, <3>1, <3>2
  <2> QED BY <1>6, <2>2, <2>3 DEF ReadProvider
<1>7. CASE MarkConnection
  <2>1. /\ UNCHANGED <<request, orgOf, credential, gone, late>>
        /\ run'.key = "none" /\ run'.at = "none" /\ run.key # "none"
        /\ status' = [status EXCEPT ![run.conn] = run.said]
    BY <1>7 DEF MarkConnection, tenancy, NoRun, DeletionsHold
  <2>2. ASSUME NEW d \in gone \ late PROVE Sealed(d)'
    <3>1. d \in Conns /\ Sealed(d) /\ d # run.conn
      BY <2>1 DEF DeletionsHold, Sealed, SecretHeld
    <3>2. status'[d] = status[d]
      BY <2>1, <3>1 DEF ConsoleTypes, TypeOK
    <3> QED BY <2>1, <3>1, <3>2 DEF Sealed, SecretHeld
  <2> QED BY <1>c, <2>1, <2>2
<1>8. CASE Revoke \/ UNCHANGED vars
  <2>1. UNCHANGED <<request, run, orgOf, status, credential, gone, late>>
    BY <1>8 DEF Revoke, vars, tenancy, connections
  <2>2. ASSUME NEW d \in gone \ late PROVE Sealed(d)'
    <3>1. d \in Conns /\ Sealed(d)
      BY DEF DeletionsHold
    <3> QED BY <2>1, <3>1 DEF Sealed, SecretHeld
  <2> QED BY <1>c, <2>1, <2>2
<1> QED BY <1>1, <1>2, <1>3, <1>4, <1>5, <1>6, <1>7, <1>8 DEF Next

\* A disconnected connection whose secret was deleted while nobody held it stays
\* disconnected until somebody stores a new one, whatever runs and handlers do.
THEOREM DisconnectionLasts == Spec => []RevivedOnlyInFlight
<1>1. Init => DeletionsHold
  BY DEF Init, DeletionsHold, NoRun
<1>2. DeletionsHold => RevivedOnlyInFlight
  BY DEF DeletionsHold, RevivedOnlyInFlight, Sealed
<1> QED BY <1>1, <1>2, InitTypes, ConsoleTypesInductive, DeletionsStep, PTL DEF Spec

(***************************************************************************)
(* The app's attribution provider.                                         *)
(***************************************************************************)

\* A binding request between ending the old attribution binding and making the
\* new one.
Switching(h) ==
    /\ request[h].route = "bind" /\ request[h].at \in {"choose", "bind"}
    /\ IsAttribution(request[h].arg)

NoneActive == \A c \in Conns : IsAttribution(c) => binding[c] # "active"

OneSwitch ==
    apart \/ /\ PrimaryAgrees
             /\ \A h \in Slots : Switching(h) =>
                   /\ NoneActive
                   /\ request[h].at = "bind" => primary = ProviderOf[request[h].arg]
                   /\ \A k \in Slots \ {h} : ~Switching(k)

\* A step that neither binds nor chooses starts no switch.
LEMMA NoNewSwitch ==
    ASSUME OneSwitch, UNCHANGED <<binding, primary, apart>>,
           \A h \in Slots : request'[h] = request[h] \/ ~Switching(h)'
    PROVE  OneSwitch'
BY DEF OneSwitch, PrimaryAgrees, Switching, NoneActive

LEMMA OneSwitchStep == ConsoleTypes /\ OneSwitch /\ [Next]_vars => OneSwitch'
<1> SUFFICES ASSUME ConsoleTypes, OneSwitch, [Next]_vars PROVE OneSwitch'
  OBVIOUS
<1>b. NoRequest.at = "free"
  BY DEF NoRequest
<1>1. CASE TenancyNext /\ UNCHANGED connections
  BY <1>1, TenancyMoves, NoNewSwitch DEF connections, Switching
<1>2. CASE BeginHandler
  <2> PICK h \in Slots, u \in Users :
        \/ \E org \in Orgs, c \in Conns :
              \/ BeginValidate(h, u, org, c) \/ BeginDiscover(h, u, org, c)
              \/ BeginAddAccount(h, u, org, c) \/ BeginDisconnect(h, u, org, c)
              \/ \E key \in Keys : \/ BeginConnect(h, u, org, c, key)
                                   \/ BeginReplaceCredential(h, u, org, c, key)
        \/ \E c \in Conns : BeginBind(h, u, c)
        \/ \E provider \in {"appsflyer", "tenjin"} : BeginChoose(h, u, provider)
    BY <1>2 DEF BeginHandler
  <2>1. \A k \in Slots \ {h} : request'[k] = request[k]
    BY BeginMoves, ConnectionsAssumption DEF Begins
  <2>2. ~Switching(h)'
    BY BeginMoves, ConnectionsAssumption DEF Begins, Switching
  <2> QED BY <1>2, <2>1, <2>2, NoNewSwitch DEF BeginHandler, connections
<1>3. ASSUME NEW h \in Slots, Handler(h) PROVE OneSwitch'
  <2> DEFINE c == request[h].arg
  <2>0. OnItsRoute(request[h]) /\ AtHome(request[h])
    BY DEF ConsoleTypes
  <2>1. CASE DeactivateBindings(h)
    <3>1. GoesOn(h, {"choose"})
      BY <2>1, HandlerMoves
    <3>2. /\ \A d \in Conns : IsAttribution(d) => binding'[d] # "active"
          /\ UNCHANGED primary
          /\ apart' = (apart \/ \E k \in Slots \ {h} : /\ request[k].route = "bind"
                                                       /\ request[k].at \in {"choose", "bind"})
      BY <2>1 DEF DeactivateBindings
    <3>3. apart' \/ \A k \in Slots \ {h} : ~Switching(k) /\ ~Switching(k)'
      BY <3>1, <3>2 DEF Switching, GoesOn
    <3>4. request'[h].at # "bind"
      BY <1>b, <3>1 DEF GoesOn
    <3> QED BY <3>2, <3>3, <3>4 DEF OneSwitch, PrimaryAgrees, NoneActive
  <2>2. CASE ChoosePrimary(h)
    <3>1. CASE request[h].route = "choose"
      BY <2>2, <3>1 DEF ChoosePrimary, OneSwitch
    <3>2. CASE request[h].route # "choose"
      <4>1. Switching(h)
        BY <2>0, <2>2, <3>2 DEF ChoosePrimary, Switching, OnItsRoute
      <4>2. /\ primary' = ProviderOf[c] /\ UNCHANGED <<binding, apart>>
            /\ GoesOn(h, {"bind"})
        BY <2>2, <3>2, HandlerMoves DEF ChoosePrimary
      <4>3. \A k \in Slots \ {h} : Switching(k)' <=> Switching(k)
        BY <4>2 DEF GoesOn, Switching
      <4>4. request'[h].arg = c \/ request'[h].at = "free"
        BY <1>b, <4>2 DEF GoesOn
      <4> QED BY <4>1, <4>2, <4>3, <4>4 DEF OneSwitch, PrimaryAgrees, NoneActive, Switching
    <3> QED BY <3>1, <3>2
  <2>3. CASE CreateBinding(h)
    <3>1. /\ GoesOn(h, {"jobs"}) /\ UNCHANGED <<primary, apart>> /\ request[h].at = "bind"
          /\ request[h].route = "bind" /\ c \in Conns
      BY <2>0, <2>3, HandlerMoves DEF CreateBinding, OnItsRoute, AtHome
    <3>2. ~Switching(h)' /\ \A k \in Slots \ {h} : Switching(k)' <=> Switching(k)
      BY <1>b, <3>1 DEF GoesOn, Switching
    <3>3. CASE UNCHANGED binding
      BY <3>1, <3>2, <3>3 DEF OneSwitch, PrimaryAgrees, NoneActive, GoesOn, Switching
    <3>4. CASE binding' = [binding EXCEPT ![c] = "active"]
      <4>1. \A d \in Conns \ {c} : binding'[d] = binding[d]
        BY <3>4 DEF ConsoleTypes, TypeOK
      <4>2. CASE IsAttribution(c)
        <5>1. Switching(h)
          BY <3>1, <4>2 DEF Switching
        <5> QED BY <3>1, <3>2, <4>1, <5>1 DEF OneSwitch, PrimaryAgrees, NoneActive
      <4>3. CASE ~IsAttribution(c)
        <5>1. \A d \in Conns : IsAttribution(d) => binding'[d] = binding[d]
          BY <4>1, <4>3
        <5>2. ASSUME NEW k \in Slots, Switching(k)' PROVE k # h /\ Switching(k) /\ request'[k] = request[k]
          BY <3>1, <3>2, <5>2 DEF GoesOn
        <5> QED BY <3>1, <3>2, <5>1, <5>2 DEF OneSwitch, PrimaryAgrees, NoneActive
      <4> QED BY <4>2, <4>3
    <3> QED BY <2>3, <3>3, <3>4 DEF CreateBinding
  <2>4. CASE ~(DeactivateBindings(h) \/ ChoosePrimary(h) \/ CreateBinding(h))
    <3>1. UNCHANGED <<binding, primary, apart>>
      BY <1>3, <2>4 DEF Handler, CreateConnection, PutCredential, CallProvider,
            UpdateConnectionStatus, UpsertAccount, ReplaceCapabilities, MarkDisconnected,
            DeleteCredential, EnsureSyncJobs
    <3>2. GoesOn(h, {"put", "call", "account", "status", "probe", "delete"})
      BY <1>3, <2>4, HandlerMoves DEF Handler, GoesOn
    <3> QED BY <1>b, <3>1, <3>2, NoNewSwitch DEF GoesOn, Switching
  <2> QED BY <2>1, <2>2, <2>3, <2>4
<1>4. CASE PlanRun \/ StartRun \/ ReadProvider \/ MarkConnection \/ Revoke \/ UNCHANGED vars
  <2>1. UNCHANGED <<request, binding, primary, apart>>
    BY <1>4 DEF PlanRun, StartRun, ReadProvider, MarkConnection, Revoke, vars, tenancy, connections
  <2> QED BY <2>1, NoNewSwitch
<1> QED BY <1>1, <1>2, <1>3, <1>4 DEF Next

\* However binding requests interleave with each other and with failures, the
\* app's attribution provider is that of its active primary binding, unless it
\* was chosen by its own route or two bindings were being made at once.
THEOREM PrimaryIsBound == Spec => []PrimaryAgrees
<1>1. Init => OneSwitch
  <2> SUFFICES ASSUME Init PROVE OneSwitch
    OBVIOUS
  <2>1. \A h \in Slots : ~Switching(h)
    BY DEF Init, Switching, NoRequest
  <2>2. PrimaryAgrees
    BY DEF Init, PrimaryAgrees
  <2> QED BY <2>1, <2>2 DEF OneSwitch
<1>2. OneSwitch => PrimaryAgrees
  BY DEF OneSwitch, PrimaryAgrees
<1> QED BY <1>1, <1>2, InitTypes, ConsoleTypesInductive, OneSwitchStep, PTL DEF Spec

(***************************************************************************)
(* Registration.                                                           *)
(***************************************************************************)
LEMMA RegisteredStep == ConsoleTypes /\ EveryUserHasOrganization /\ [Next]_vars
                            => EveryUserHasOrganization'
<1> SUFFICES ASSUME ConsoleTypes, EveryUserHasOrganization, [Next]_vars
             PROVE  EveryUserHasOrganization'
  OBVIOUS
<1>a. ASSUME users' \subseteq users,
             \A o \in Orgs, u \in Users : role[o][u] # "none" => role'[o][u] # "none"
      PROVE  EveryUserHasOrganization'
  BY <1>a DEF EveryUserHasOrganization, ConsoleTypes, TypeOK
<1>1. ASSUME NEW h \in Slots, CreateAccount(h) PROVE EveryUserHasOrganization'
  <2>1. CASE UNCHANGED <<users, role>>
    BY <2>1 DEF EveryUserHasOrganization
  <2>2. CASE ~UNCHANGED <<users, role>>
    <3> DEFINE u == request[h].user
    <3>1. u \in Users
      BY <1>1 DEF CreateAccount, ConsoleTypes, OnItsRoute
    <3>2. users' = users \cup {u}
      BY <1>1, <2>2 DEF CreateAccount
    <3>3. PICK o \in Orgs : Unused(o) /\ role' = [role EXCEPT ![o][u] = "owner"]
      BY <1>1, <2>2 DEF CreateAccount
    <3>4. role'[o][u] = "owner"
      BY <3>1, <3>3 DEF ConsoleTypes, TypeOK
    <3>5. \A p \in Orgs, v \in Users : role[p][v] # "none" => role'[p][v] # "none"
      BY <3>1, <3>3 DEF ConsoleTypes, TypeOK, Unused
    <3> QED BY <3>1, <3>2, <3>4, <3>5 DEF EveryUserHasOrganization, ConsoleTypes, TypeOK
  <2> QED BY <2>1, <2>2
<1>2. ASSUME NEW h \in Slots, AddMembership(h) PROVE EveryUserHasOrganization'
  <2>1. /\ request[h].org \in Orgs /\ request[h].arg \in Users
        /\ request[h].key # "none"
    BY <1>2, TenancyAssumption DEF AddMembership, ConsoleTypes, OnItsRoute
  <2> QED BY <1>a, <1>2, <2>1 DEF AddMembership, ConsoleTypes, TypeOK
<1>3. ASSUME NEW u \in Users, CreateOrganization(u) PROVE EveryUserHasOrganization'
  BY <1>a, <1>3 DEF CreateOrganization, ConsoleTypes, TypeOK, Unused
<1>4. CASE UNCHANGED <<users, role>>
  BY <1>4 DEF EveryUserHasOrganization
<1>5. CASE TenancyNext
  BY <1>1, <1>2, <1>3, <1>4, <1>5
     DEF TenancyNext, IssueSession, Interrupt, BeginRegister, BeginLogin, BeginAddMember, EndSession
<1>6. CASE ~TenancyNext
  <2>1. UNCHANGED <<users, role>>
    BY <1>6 DEF Next, vars, tenancy, BeginHandler, Handler, CreateConnection, PutCredential,
          CallProvider, UpdateConnectionStatus, UpsertAccount, ReplaceCapabilities,
          MarkDisconnected, DeleteCredential, DeactivateBindings, ChoosePrimary, CreateBinding,
          EnsureSyncJobs, PlanRun, StartRun, ReadProvider, MarkConnection, Revoke
  <2> QED BY <1>4, <2>1
<1> QED BY <1>5, <1>6

\* No user is left without an organization by racing registrations or by a
\* failure between two statements.
THEOREM Registered == Spec => []EveryUserHasOrganization
<1>1. Init => EveryUserHasOrganization
  BY ConnectionsAssumption DEF Init, EveryUserHasOrganization
<1> QED BY <1>1, InitTypes, ConsoleTypesInductive, RegisteredStep, PTL DEF Spec

=============================================================================
