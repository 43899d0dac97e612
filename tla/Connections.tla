---------------------------- MODULE Connections ----------------------------
(***************************************************************************)
(* Provider connections of an organization: their status, credential,      *)
(* account and capability rows, their bindings to one app, and the sync    *)
(* run that reads and writes them beside the API handlers.  One step is    *)
(* one SQL statement or one provider call; no handler here opens a         *)
(* transaction.                                                            *)
(***************************************************************************)
EXTENDS Tenancy

CONSTANTS
    Conns,          \* connection ids
    ProviderOf,     \* the provider each is created for
    AppOrg,         \* the organization of the app
    Bound,          \* the attribution connection bound to it at first
    Keys            \* secrets a user may paste

ASSUME ConnectionsAssumption ==
    /\ ProviderOf \in [Conns -> {"meta_ads", "appsflyer", "tenjin"}]
    /\ AppOrg \in Orgs /\ Bound \in Conns /\ ProviderOf[Bound] # "meta_ads"
    /\ "none" \notin Conns \cup Keys

VARIABLES
    orgOf,      \* integration_connections.organization_id, "none" if absent
    status,     \* integration_connections.status
    credential, \* the stored secret
    account,    \* connections with a stored account
    capability, \* provider_capabilities: "none", "declared" or "probed"
    binding,    \* integration_app_bindings of the app: "none", "active", "inactive"
    primary,    \* apps.primary_attribution_provider
    jobs,       \* connections with sync jobs
    run,        \* one sync run of the app
    accepted,   \* secrets the providers accept
    answers,    \* history: <<connection, status>> a provider's answer called for
    gone,       \* history: credential deleted by a disconnect, none stored since
    late,       \* history: someone held the secret when it was deleted
    apart,      \* history: the primary provider was chosen by itself, or by two at once
    trespass    \* history: connections written for a user outside their organization

connections == <<orgOf, status, credential, account, capability, binding, primary, jobs, run,
                 accepted, answers, gone, late, apart, trespass>>
vars == <<tenancy, connections>>

Statuses == {"none", "pending", "connected", "degraded", "invalid_credentials", "disconnected"}

IsAttribution(c) == ProviderOf[c] \in {"appsflyer", "tenjin"}

\* validateConnection and validateAccount: what a call with this secret may
\* say.  AppsFlyer's token is only looked at; an empty list leaves it open.
ValidateConnection(c, key) ==
    IF ProviderOf[c] = "appsflyer" THEN {"pending"}
    ELSE {"degraded"} \cup
         IF key \notin accepted THEN {"invalid_credentials"}
         ELSE {"connected"} \cup IF ProviderOf[c] = "meta_ads" THEN {"pending"} ELSE {}

ValidateAccount(c, key) ==
    {"degraded"} \cup
    IF key \notin accepted THEN {"invalid_credentials"}
    ELSE {"connected"} \cup IF ProviderOf[c] = "tenjin" THEN {"pending"} ELSE {}

NoRun == [at |-> "none", conn |-> "none", key |-> "none", said |-> "none"]

TypeOK ==
    /\ users \subseteq Users /\ role \in [Orgs -> [Users -> Roles \cup {"none"}]]
    /\ session \in [Users -> {"none", "live", "ended"}]
    /\ begun \in 0 .. MaxRequests
    /\ orgOf \in [Conns -> Orgs \cup {"none"}] /\ status \in [Conns -> Statuses]
    /\ credential \in [Conns -> Keys \cup {"none"}]
    /\ account \subseteq Conns /\ jobs \subseteq account
    /\ capability \in [Conns -> {"none", "declared", "probed"}]
    /\ binding \in [Conns -> {"none", "active", "inactive"}]
    /\ primary \in {"none", "appsflyer", "tenjin"}
    /\ accepted \subseteq Keys
    /\ \A c \in Conns : status[c] = "none" <=> orgOf[c] = "none"

\* An owner with one working connection, bound to the app, and perhaps a second.
Init ==
    /\ \E owner \in Users, second \in Conns, key \in Keys :
          /\ second # Bound /\ IsAttribution(second)
          /\ users = {owner}
          /\ role = [o \in Orgs |-> [u \in Users |->
                        IF o = AppOrg /\ u = owner THEN "owner" ELSE "none"]]
          /\ session = [u \in Users |-> IF u = owner THEN "live" ELSE "none"]
          /\ orgOf = [c \in Conns |-> IF c \in {Bound, second} THEN AppOrg ELSE "none"]
          /\ status = [c \in Conns |-> IF c \in {Bound, second} THEN "pending" ELSE "none"]
          /\ credential = [c \in Conns |-> IF c \in {Bound, second} THEN key ELSE "none"]
          /\ account = {Bound, second} /\ jobs = {Bound}
          /\ capability = [c \in Conns |-> IF c \in {Bound, second} THEN "probed" ELSE "none"]
          /\ binding = [c \in Conns |-> IF c = Bound THEN "active" ELSE "none"]
          /\ primary = ProviderOf[Bound]
    /\ request = [h \in Slots |-> NoRequest] /\ begun = 0
    /\ run = NoRun /\ accepted = Keys
    /\ answers = {} /\ gone = {} /\ late = {} /\ apart = FALSE /\ trespass = {}

-----------------------------------------------------------------------------
\* Beginning a handler: permission first, then requireConnection and the checks
\* that precede its first write.

At(route, u, org, c, at, key) ==
    [NoRequest EXCEPT !.route = route, !.user = u, !.org = org, !.arg = c, !.at = at, !.key = key]

\* Faulty variant: the connection is found by its id alone.
FoundAnywhere(org, c) == orgOf[c] # "none"

FindConnection(org, c) == orgOf[c] = org

BeginConnect(h, u, org, c, key) ==
    /\ Allowed(u, org, "integration:connect") /\ orgOf[c] = "none"
    /\ Begin(h, At("connect", u, org, c, "insert", key))

\* Faulty variant: a missing credential is not noticed.
GetCredentialUnchecked(c) == IF credential[c] = "none" THEN Keys ELSE {credential[c]}

\* The secret a handler goes on with; without one it answers not_found.
GetCredential(c) == {credential[c]} \ {"none"}

BeginValidate(h, u, org, c) ==
    /\ Allowed(u, org, "integration:read") /\ FindConnection(org, c)
    /\ \E key \in GetCredential(c) : Begin(h, At("validate", u, org, c, "call", key))

BeginReplaceCredential(h, u, org, c, key) ==
    /\ Allowed(u, org, "integration:manage_credentials") /\ FindConnection(org, c)
    /\ Begin(h, At("credentials", u, org, c, "put", key))

BeginDiscover(h, u, org, c) ==
    /\ Allowed(u, org, "integration:read") /\ FindConnection(org, c)
    /\ ProviderOf[c] # "appsflyer"
    /\ \E key \in GetCredential(c) : Begin(h, At("discover", u, org, c, "call", key))

BeginAddAccount(h, u, org, c) ==
    /\ Allowed(u, org, "integration:connect") /\ FindConnection(org, c)
    /\ \E key \in GetCredential(c) : Begin(h, At("account", u, org, c, "call", key))

BeginDisconnect(h, u, org, c) ==
    /\ Allowed(u, org, "integration:disconnect") /\ FindConnection(org, c)
    /\ Begin(h, At("disconnect", u, org, c, "mark", "none"))

\* The role follows the connection's category: a request for the other is refused.
BeginBind(h, u, c) ==
    /\ Allowed(u, AppOrg, "integration:connect") /\ FindConnection(AppOrg, c) /\ c \in account
    /\ Begin(h, At("bind", u, AppOrg, c, IF IsAttribution(c) THEN "deactivate" ELSE "bind", "none"))

\* POST /apps/:id/attribution-provider, when the provider really changes.
BeginChoose(h, u, provider) ==
    /\ Allowed(u, AppOrg, "app:update") /\ primary # provider
    /\ Begin(h, At("choose", u, AppOrg, "none", "choose", provider))

BeginHandler ==
    /\ \E h \in Slots, u \in Users :
          \/ \E org \in Orgs, c \in Conns :
                \/ BeginValidate(h, u, org, c) \/ BeginDiscover(h, u, org, c)
                \/ BeginAddAccount(h, u, org, c) \/ BeginDisconnect(h, u, org, c)
                \/ \E key \in Keys : \/ BeginConnect(h, u, org, c, key)
                                     \/ BeginReplaceCredential(h, u, org, c, key)
          \/ \E c \in Conns : BeginBind(h, u, c)
          \/ \E provider \in {"appsflyer", "tenjin"} : BeginChoose(h, u, provider)
    /\ UNCHANGED <<users, role, session, connections>>

-----------------------------------------------------------------------------
\* Steps of the handlers.

Touch(h) ==
    LET c == request[h].arg
    IN  trespass' = IF orgOf[c] = "none" \/ role[orgOf[c]][request[h].user] # "none"
                    THEN trespass ELSE trespass \cup {c}

Next1(h, at) == Proceed(h, [request[h] EXCEPT !.at = at])

\* Faulty variant: the row is stored without a status.
CreateConnectionUnstated(h) ==
    LET c == request[h].arg
    IN  /\ request[h].at = "insert"
        /\ IF orgOf[c] # "none" THEN Answer(h) /\ UNCHANGED <<orgOf, trespass>>
           ELSE /\ orgOf' = [orgOf EXCEPT ![c] = request[h].org]
                /\ Next1(h, "put") /\ Touch(h)
        /\ UNCHANGED <<users, role, session, begun, status, credential, account, capability, binding,
                       primary, jobs, run, accepted, answers, gone, late, apart>>

CreateConnection(h) ==
    LET c == request[h].arg
    IN  /\ request[h].at = "insert"
        /\ IF orgOf[c] # "none" THEN Answer(h) /\ UNCHANGED <<orgOf, status, trespass>>
           ELSE /\ orgOf' = [orgOf EXCEPT ![c] = request[h].org]
                /\ status' = [status EXCEPT ![c] = "pending"]
                /\ Next1(h, "put") /\ Touch(h)
        /\ UNCHANGED <<users, role, session, begun, credential, account, capability, binding,
                       primary, jobs, run, accepted, answers, gone, late, apart>>

PutCredential(h) ==
    LET c == request[h].arg
    IN  /\ request[h].at = "put"
        /\ credential' = [credential EXCEPT ![c] = request[h].key]
        /\ gone' = gone \ {c} /\ late' = late \ {c}
        /\ Next1(h, "call") /\ Touch(h)
        /\ UNCHANGED <<users, role, session, begun, orgOf, status, account, capability, binding,
                       primary, jobs, run, accepted, answers, apart>>

\* The provider is asked; the answer is written by a later statement.
CallProvider(h) ==
    LET c == request[h].arg
        key == request[h].key
        said == IF request[h].route \in {"account", "discover"} THEN ValidateAccount(c, key)
                ELSE ValidateConnection(c, key)
    IN  /\ request[h].at = "call"
        /\ \E s \in said :
              /\ answers' = answers \cup {<<c, s>>}
              /\ IF /\ request[h].route \in {"account", "discover"}
                    /\ s \notin {"connected", "pending"}
                 THEN Answer(h)
                 ELSE Proceed(h, [request[h] EXCEPT
                          !.said = s,
                          !.at = IF request[h].route = "discover" THEN "account" ELSE "status"])
        /\ UNCHANGED <<users, role, session, begun, orgOf, status, credential, account, capability,
                       binding, primary, jobs, run, accepted, gone, late, apart, trespass>>

\* What follows the writing of a status in each route.
AfterStatus(h) ==
    CASE request[h].route = "connect" -> Next1(h, "probe")
      [] request[h].route = "account" -> Next1(h, "account")
      [] OTHER -> Answer(h)

UpdateConnectionStatus(h) ==
    /\ request[h].at = "status"
    /\ status' = [status EXCEPT ![request[h].arg] = request[h].said]
    /\ AfterStatus(h) /\ Touch(h)
    /\ UNCHANGED <<users, role, session, begun, orgOf, credential, account, capability, binding,
                   primary, jobs, run, accepted, answers, gone, late, apart>>

UpsertAccount(h) ==
    /\ request[h].at = "account"
    /\ account' = account \cup {request[h].arg}
    /\ IF request[h].route = "account" THEN Next1(h, "probe") ELSE Answer(h)
    /\ Touch(h)
    /\ UNCHANGED <<users, role, session, begun, orgOf, status, credential, capability, binding,
                   primary, jobs, run, accepted, answers, gone, late, apart>>

\* Rows probed against an account outrank what the connection declares.
Probed(c, level) ==
    [capability EXCEPT ![c] = IF @ = "probed" THEN @ ELSE level]

ReplaceCapabilities(h) ==
    /\ request[h].at = "probe"
    /\ capability' = Probed(request[h].arg,
                            IF request[h].route = "account" THEN "probed" ELSE "declared")
    /\ Answer(h) /\ Touch(h)
    /\ UNCHANGED <<users, role, session, begun, orgOf, status, credential, account, binding,
                   primary, jobs, run, accepted, answers, gone, late, apart>>

MarkDisconnected(h) ==
    /\ request[h].at = "mark"
    /\ status' = [status EXCEPT ![request[h].arg] = "disconnected"]
    /\ answers' = answers \cup {<<request[h].arg, "disconnected">>}
    /\ Next1(h, "delete") /\ Touch(h)
    /\ UNCHANGED <<users, role, session, begun, orgOf, credential, account, capability, binding,
                   primary, jobs, run, accepted, gone, late, apart>>

\* Somebody read the secret of c and has not written the answer yet.
SecretHeld(c) ==
    \/ run.conn = c /\ run.key # "none"
    \/ \E h \in Slots : request[h].arg = c /\ request[h].at \in {"call", "status"}

DeleteCredential(h) ==
    LET c == request[h].arg
    IN  /\ request[h].at = "delete"
        /\ credential' = [credential EXCEPT ![c] = "none"]
        /\ gone' = gone \cup {c}
        /\ late' = IF SecretHeld(c) \/ status[c] # "disconnected" THEN late \cup {c} ELSE late
        /\ Answer(h) /\ Touch(h)
        /\ UNCHANGED <<users, role, session, begun, orgOf, status, account, capability, binding,
                       primary, jobs, run, accepted, answers, apart>>

\* The app's active primary binding is ended before its successor is made.
DeactivateBindings(h) ==
    /\ request[h].at = "deactivate"
    /\ binding' = [c \in Conns |-> IF IsAttribution(c) /\ binding[c] = "active"
                                   THEN "inactive" ELSE binding[c]]
    /\ Next1(h, "choose") /\ Touch(h)
    /\ apart' = (apart \/ \E k \in Slots \ {h} : /\ request[k].route = "bind"
                                                 /\ request[k].at \in {"choose", "bind"})
    /\ UNCHANGED <<users, role, session, begun, orgOf, status, credential, account, capability,
                   primary, jobs, run, accepted, answers, gone, late>>

\* Faulty variant: the app's own column is left for later.
KeepPrimary(h) ==
    LET r == request[h]
    IN  /\ r.at = "choose"
        /\ IF r.route = "choose"
           THEN primary' = r.key /\ apart' = TRUE /\ Answer(h)
           ELSE Next1(h, "bind") /\ UNCHANGED <<primary, apart>>
        /\ UNCHANGED <<users, role, session, begun, orgOf, status, credential, account, capability,
                       binding, jobs, run, accepted, answers, gone, late, trespass>>

ChoosePrimary(h) ==
    LET r == request[h]
    IN  /\ r.at = "choose"
        /\ IF r.route = "choose"
           THEN primary' = r.key /\ apart' = TRUE /\ Answer(h)
           ELSE primary' = ProviderOf[r.arg] /\ Next1(h, "bind") /\ UNCHANGED apart
        /\ UNCHANGED <<users, role, session, begun, orgOf, status, credential, account, capability,
                       binding, jobs, run, accepted, answers, gone, late, trespass>>

\* The partial unique indexes refuse a second active primary of the app and a
\* second active binding of one account.
CreateBinding(h) ==
    LET c == request[h].arg
        refused == \E d \in Conns :
                      binding[d] = "active" /\ (d = c \/ (IsAttribution(d) /\ IsAttribution(c)))
    IN  /\ request[h].at = "bind"
        /\ IF refused THEN Answer(h) /\ UNCHANGED <<binding, trespass>>
           ELSE binding' = [binding EXCEPT ![c] = "active"] /\ Next1(h, "jobs") /\ Touch(h)
        /\ UNCHANGED <<users, role, session, begun, orgOf, status, credential, account, capability,
                       primary, jobs, run, accepted, answers, gone, late, apart>>

EnsureSyncJobs(h) ==
    /\ request[h].at = "jobs"
    /\ jobs' = jobs \cup {c \in Conns : binding[c] = "active"}
    /\ Answer(h)
    /\ UNCHANGED <<users, role, session, begun, orgOf, status, credential, account, capability,
                   binding, primary, run, accepted, answers, gone, late, apart, trespass>>

Handler(h) ==
    \/ CreateConnection(h) \/ PutCredential(h) \/ CallProvider(h)
    \/ UpdateConnectionStatus(h) \/ UpsertAccount(h) \/ ReplaceCapabilities(h)
    \/ MarkDisconnected(h) \/ DeleteCredential(h)
    \/ DeactivateBindings(h) \/ ChoosePrimary(h) \/ CreateBinding(h) \/ EnsureSyncJobs(h)

-----------------------------------------------------------------------------
\* The run beside them.

\* planSyncs: an active binding of a connection that is not disconnected.
PlanRun ==
    /\ run = NoRun /\ begun < MaxRequests
    /\ begun' = begun + 1
    /\ \E c \in Conns : /\ binding[c] = "active" /\ status[c] # "disconnected"
                        /\ run' = [NoRun EXCEPT !.at = "queued", !.conn = c]
    /\ UNCHANGED <<users, role, session, request, orgOf, status, credential, account, capability,
                   binding, primary, jobs, accepted, answers, gone, late, apart, trespass>>

\* hydrateRequest and runSync's reading of the secret.  The connection's status
\* is not looked at; without a secret the run fails and the status is left.
StartRun ==
    /\ run.at = "queued"
    /\ \/ /\ binding[run.conn] = "active"
          /\ \E key \in GetCredential(run.conn) :
                run' = [run EXCEPT !.at = "reading", !.key = key]
       \/ /\ binding[run.conn] # "active" \/ GetCredential(run.conn) = {}
          /\ run' = NoRun
    /\ UNCHANGED <<tenancy, orgOf, status, credential, account, capability, binding, primary, jobs,
                   accepted, answers, gone, late, apart, trespass>>

\* The windows were read, or the secret refused, or the run failed otherwise; a
\* good attribution run probes the capabilities again.
ReadProvider ==
    /\ run.at = "reading"
    /\ \/ /\ run.key \in accepted
          /\ run' = [run EXCEPT !.at = "mark", !.said = "connected"]
          /\ answers' = answers \cup {<<run.conn, "connected">>}
          /\ capability' \in {capability} \cup
                IF IsAttribution(run.conn) THEN {Probed(run.conn, "probed")} ELSE {}
       \/ /\ run.key \notin accepted
          /\ run' = [run EXCEPT !.at = "mark", !.said = "invalid_credentials"]
          /\ answers' = answers \cup {<<run.conn, "invalid_credentials">>}
          /\ UNCHANGED capability
       \/ run' = NoRun /\ UNCHANGED <<answers, capability>>
    /\ UNCHANGED <<tenancy, orgOf, status, credential, account, binding, primary, jobs, accepted,
                   gone, late, apart, trespass>>

\* Faulty variant: the card says connected whatever the provider said.
MarkConnectionConnected ==
    /\ run.at = "mark"
    /\ status' = [status EXCEPT ![run.conn] = "connected"]
    /\ run' = NoRun
    /\ UNCHANGED <<tenancy, orgOf, credential, account, capability, binding, primary, jobs,
                   accepted, answers, gone, late, apart, trespass>>

MarkConnection ==
    /\ run.at = "mark"
    /\ status' = [status EXCEPT ![run.conn] = run.said]
    /\ run' = NoRun
    /\ UNCHANGED <<tenancy, orgOf, credential, account, capability, binding, primary, jobs,
                   accepted, answers, gone, late, apart, trespass>>

\* The provider stops accepting a secret.
Revoke ==
    /\ begun < MaxRequests
    /\ begun' = begun + 1
    /\ \E key \in accepted : accepted' = accepted \ {key}
    /\ UNCHANGED <<users, role, session, request, orgOf, status, credential, account, capability,
                   binding, primary, jobs, run, answers, gone, late, apart, trespass>>

Next ==
    \/ TenancyNext /\ UNCHANGED connections
    \/ BeginHandler
    \/ \E h \in Slots : Handler(h)
    \/ PlanRun \/ StartRun \/ ReadProvider \/ MarkConnection \/ Revoke

Spec == Init /\ [][Next]_vars

-----------------------------------------------------------------------------
\* The status on the card was an answer of the provider about this connection
\* (or the disconnecting of it), whichever handlers and runs wrote it and in
\* whatever order; 'pending' is also where a connection starts.
StatusIsAnAnswer ==
    \A c \in Conns : status[c] \in {"none", "pending"} \/ <<c, status[c]>> \in answers

\* A disconnected connection comes back without a new secret only through
\* somebody who held the old one when it was deleted (routes/integrations.ts:438-443,
\* engine.ts:462).
RevivedOnlyInFlight ==
    \A c \in gone : status[c] # "disconnected" => c \in late

\* The app's attribution provider is that of its active primary binding, unless
\* it was chosen by its own route or by two bindings made at once
\* (routes/integrations.ts:570-574).
PrimaryAgrees ==
    \A c \in Conns : binding[c] = "active" /\ IsAttribution(c) =>
        apart \/ ProviderOf[c] = primary

\* Every write to a connection was a member's of its own organization: the
\* organization and connection ids of a path are claims (context.ts:52-54).
TenantsStayApart == trespass = {}

=============================================================================
