------------------------------ MODULE Accounts ------------------------------
(***************************************************************************)
(* Accounts and what one signs in with                                     *)
(* (src/internal/auth: auth.go, users.go, oidc.go, access_token.go,        *)
(* api_keys.go, and the handlers of src/internal/server that call them).   *)
(*                                                                         *)
(* Requests run side by side and share the tables alone.  A step below is  *)
(* one statement (READ COMMITTED), or a transaction's last statement with  *)
(* its commit; what a request read before is in its call record and may    *)
(* be stale.  Sessions stand for their access tokens; a password stands    *)
(* for its hash.  Expiry is a session's end at any time.  JWT_SECRET is    *)
(* set: sessions outlive a restart.                                        *)
(***************************************************************************)
EXTENDS Naturals, FiniteSets

CONSTANTS
    Names,          \* usernames
    Passwords,      \* passwords
    NoPassword,     \* an account with SSO alone; ADMIN_PASSWORD left unset
    Keep,           \* an update that leaves the password
    Issuers,        \* trusted OIDC issuers
    Subjects,       \* what they call their users
    Local,          \* in place of issuer and subject: no SSO identity
    NoRole,         \* no role is asserted (OIDCIdentity.IsAdmin is nil)
    Issued,         \* a session an administrator issued as an API token
    SessionIds,     \* session IDs (bound on live sessions)
    KeyIds,         \* IDs of API keys
    NoOne,          \* the API key isn't registered
    Absent,         \* no row
    Requests,       \* bound: requests in flight at once
    FirstRows,      \* rows that earlier runs of the server may have left
    AdminName,      \* ADMIN_USERNAME
    AdminPassword,  \* ADMIN_PASSWORD, or NoPassword
    MaxUsers,       \* bound: rows ever created
    MaxRequests     \* bound: requests ever made

Ids == 1..MaxUsers
Subject == Subjects \union {Local}
Secret == Passwords \union {NoPassword}
Rows == [name : Names, password : Secret, admin : BOOLEAN,
         issuer : Issuers \union {Local}, subject : Subject]
Sessions == [id : SessionIds, user : Ids, password : Secret, by : Subject \union {Issued}]
Roles == BOOLEAN \union {NoRole}
Identities == [issuer : Issuers, subject : Subjects, role : Roles, bearer : BOOLEAN]

ASSUME BoundsAssumption == MaxUsers \in Nat /\ MaxRequests \in Nat
ASSUME ValuesAssumption ==
    /\ Local \notin Issuers \union Subjects /\ Issued \notin Subject
    /\ NoPassword \notin Passwords /\ Keep \notin Secret
    /\ NoRole \notin BOOLEAN /\ NoOne \notin Ids /\ Absent \notin Rows
ASSUME FirstRowsAssumption ==
    \A row \in FirstRows :
        /\ row \in Rows
        /\ row.issuer = Local <=> row.subject = Local
        /\ row.subject = Local => row.password # NoPassword
ASSUME AdminAssumption == AdminName \in Names /\ AdminPassword \in Secret

VARIABLES
    users,          \* the users table
    nextId,         \* its sequence
    sessions,       \* the sessions table (password: ghost, as of the sign-in)
    keys,           \* the api_keys table: whom each key acts as
    cache,          \* verified access tokens: the subject and the account found
    up,             \* the server runs
    login,          \* a login provider is configured (OIDC_ISSUER_URL)
    adminGroup,     \* OIDC_ADMIN_GROUP is set
    calls,          \* the requests in flight
    begun,          \* bound: requests so far
    granted,        \* ghost: the role the provider last granted an account
    raced,          \* ghost: accounts with an update or role sync that overlapped
    crowded         \* ghost: two administrators' requests were in flight at once

config == <<login, adminGroup>>
ghosts == <<granted, raced, crowded>>
tables == <<users, nextId, sessions, keys>>
vars == <<tables, cache, up, config, calls, begun, ghosts>>
-----------------------------------------------------------------------------
Idle == [step |-> "idle"]

\* What a request knows between two of its steps.
Creates == [step : {"create"}, who : Identities, name : Names, attempt : 0..2]
Retries == [step : {"again"}, who : Identities, name : Names, attempt : 0..1]
Syncs == [step : {"sync"}, user : Ids, row : Rows, who : Identities]
SignIns == [step : {"session"}, user : Ids, password : Secret, by : Subject \union {Issued}]
Stores == [step : {"store"}, user : Ids, subject : Subjects]
Admins == [step : {"admin"}, actor : Ids]
KeyCalls == [step : {"key"}, user : Ids]
Updates == [step : {"read"}, actor : Ids, user : Ids, admin : BOOLEAN,
            password : Passwords \union {Keep}]
Saves == [step : {"end", "save"}, actor : Ids, user : Ids, row : Rows, doomed : SUBSET Sessions]
CallRecords == {Idle} \union Creates \union Retries \union Syncs \union SignIns
                      \union Stores \union Admins \union KeyCalls \union Updates \union Saves

Exists(u) == users[u] # Absent

\* The provider's groups decide the administrator role of SSO accounts.
ManagesAdminRole == login /\ adminGroup
HasAdmin == \E u \in Ids : Exists(u) /\ users[u].admin

\* The unique indexes: usernames, and issuer with subject where not NULL.
Free(table, u, row) ==
    \A v \in Ids \ {u} :
        table[v] # Absent =>
            /\ table[v].name # row.name
            /\ row.subject # Local =>
                 <<table[v].issuer, table[v].subject>> # <<row.issuer, row.subject>>

Updating(call) == call.step \in {"read", "end", "save"}
Holding(call) == Updating(call) \/ call.step \in {"sync", "session"}
Administrating(call) == Updating(call) \/ call.step = "admin"

\* Accounts that one request updates while another holds what it read of them,
\* or for which two sign-ins are about to apply a role.
RacedIn(cs) ==
    {u \in Ids : \E c, d \in Requests :
        /\ c # d
        /\ Holding(cs[c]) /\ cs[c].user = u
        /\ Holding(cs[d]) /\ cs[d].user = u
        /\ Updating(cs[c]) \/ (cs[c].step = "sync" /\ cs[d].step = "sync")}

CrowdedIn(cs) ==
    \E c, d \in Requests : c # d /\ Administrating(cs[c]) /\ Administrating(cs[d])

\* Request c goes on as `call`.
Goes(c, call) ==
    /\ calls' = [calls EXCEPT ![c] = call]
    /\ raced' = raced \union RacedIn(calls')
    /\ crowded' = (crowded \/ CrowdedIn(calls'))

At(c, step) == calls[c].step = step

Begins(c, call) ==
    /\ up
    /\ At(c, "idle")
    /\ begun < MaxRequests
    /\ begun' = begun + 1
    /\ Goes(c, call)

\* The accounts so far: any that the indexes allow, with the roles the provider
\* granted where it manages them.
Init ==
    /\ users \in [Ids -> FirstRows \union {Absent}]
    /\ nextId \in 1..(MaxUsers + 1)
    /\ nextId > 1 => Exists(nextId - 1)
    /\ \A u \in Ids : Exists(u) => u < nextId /\ Free(users, u, users[u])
    /\ sessions = {} /\ keys = [k \in KeyIds |-> NoOne] /\ cache = {}
    /\ up = FALSE
    /\ login \in BOOLEAN /\ adminGroup \in BOOLEAN
    /\ calls = [c \in Requests |-> Idle]
    /\ begun = 0
    /\ granted = [u \in Ids |-> Exists(u) /\ users[u].admin]
    /\ raced = {} /\ crowded = FALSE
-----------------------------------------------------------------------------
Insert(row) ==
    /\ nextId \in Ids
    /\ Free(users, nextId, row)
    /\ users' = [users EXCEPT ![nextId] = row]
    /\ nextId' = nextId + 1

LocalRow(name, password, admin) ==
    [name |-> name, password |-> password, admin |-> admin, issuer |-> Local, subject |-> Local]

\* An administrator is created unless there is one, the name is taken or no
\* password is set.
EnsureAdmin ==
    IF \/ HasAdmin \/ AdminPassword = NoPassword
       \/ \E u \in Ids : Exists(u) /\ users[u].name = AdminName
       \/ nextId \notin Ids  \* bound
    THEN UNCHANGED <<users, nextId>>
    ELSE Insert(LocalRow(AdminName, AdminPassword, TRUE))

\* Without a password for a first administrator the server starts only where
\* people can sign in with SSO or a group grants the role.
Start ==
    /\ ~up
    /\ HasAdmin \/ AdminPassword # NoPassword \/ adminGroup \/ login
    /\ up' = TRUE
    /\ EnsureAdmin
    /\ UNCHANGED <<sessions, keys, cache, config, calls, begun, ghosts>>

\* The process ends, at any point: its transactions roll back.
Stops ==
    /\ up
    /\ up' = FALSE
    /\ calls' = [c \in Requests |-> Idle]
    /\ cache' = {}
    /\ UNCHANGED <<tables, config, begun, ghosts>>

\* A request ends early: its client is gone, or the database fails it.
Fails(c) ==
    /\ ~At(c, "idle")
    /\ Goes(c, Idle)
    /\ UNCHANGED <<tables, cache, up, config, begun, granted>>
-----------------------------------------------------------------------------
(***************************************************************************)
(* Sign-in with a password, and sessions                                   *)
(***************************************************************************)
\* The row is read and the password compared with its hash.
Login(c, u, password) ==
    /\ Exists(u)
    /\ users[u].password = password
    /\ Begins(c, [step |-> "session", user |-> u, password |-> password, by |-> Local])
    /\ UNCHANGED <<tables, cache, up, config, granted>>

\* The last step of a sign-in or of CreateToken; the foreign key needs the row.
CreateSession(c) ==
    /\ At(c, "session")
    /\ Exists(calls[c].user)
    /\ \E id \in SessionIds \ {s.id : s \in sessions} :
         sessions' = sessions \union
             {[id |-> id, user |-> calls[c].user, password |-> calls[c].password, by |-> calls[c].by]}
    /\ Goes(c, Idle)
    /\ UNCHANGED <<users, nextId, keys, cache, up, config, begun, granted>>

\* Sessions that an update's open transaction deleted are locked.
Locked == UNION {calls[c].doomed : c \in {d \in Requests : At(d, "save")}}

\* Logout, or expiry and its cleanup.
SessionEnds(s) ==
    /\ s \notin Locked
    /\ sessions' = sessions \ {s}
    /\ UNCHANGED <<users, nextId, keys, cache, up, config, calls, begun, ghosts>>
-----------------------------------------------------------------------------
(***************************************************************************)
(* Sign-in with SSO, and requests with a provider's access token           *)
(***************************************************************************)
\* userForOIDCIdentity's find: the oldest account of the subject (IDs ascend
\* with created_at, which comes first in the code's order).
Found(u, subject) ==
    /\ Exists(u) /\ users[u].subject = subject
    /\ \A v \in Ids : Exists(v) /\ users[v].subject = subject => u <= v

Unknown(subject) == \A u \in Ids : Exists(u) => users[u].subject # subject

Synced(u, row, who) == [step |-> "sync", user |-> u, row |-> row, who |-> who]
Creating(who, name, attempt) == [step |-> "create", who |-> who, name |-> name, attempt |-> attempt]

\* A sign-in at the login provider asserts a role where it manages the roles.
Exchanged(who) == login /\ ~who.bearer /\ (who.role # NoRole <=> ManagesAdminRole)

\* A trusted issuer's access token does where the group is set, with a login
\* provider or without, and if it carries the groups.
Verified(who) == who.bearer /\ (who.role # NoRole => adminGroup)

\* `who` is vouched for, with claims that give `name`.
Identified(c, who, name) ==
    /\ Exchanged(who) \/ Verified(who)
    /\ \/ \E u \in Ids : Found(u, who.subject) /\ Begins(c, Synced(u, users[u], who))
       \/ Unknown(who.subject) /\ Begins(c, Creating(who, name, 0))
    /\ UNCHANGED <<tables, cache, up, config, granted>>

SSORow(who, name) ==
    [name |-> name, password |-> NoPassword, admin |-> FALSE,
     issuer |-> who.issuer, subject |-> who.subject]

Create(c) ==
    /\ At(c, "create")
    /\ LET row == SSORow(calls[c].who, calls[c].name)
       IN  Insert(row) /\ Goes(c, Synced(nextId, row, calls[c].who))
    /\ UNCHANGED <<sessions, keys, cache, up, config, begun, granted>>

\* Mutant: retried without a limit.
CreateRetried(c) ==
    /\ At(c, "create")
    /\ ~Free(users, nextId, SSORow(calls[c].who, calls[c].name))
    /\ Goes(c, [step |-> "again", who |-> calls[c].who, name |-> calls[c].name,
                attempt |-> calls[c].attempt])
    /\ UNCHANGED <<tables, cache, up, config, begun, granted>>

\* The name or the identity is taken: the third failure is final.
CreateTaken(c) ==
    /\ At(c, "create")
    /\ ~Free(users, nextId, SSORow(calls[c].who, calls[c].name))
    /\ Goes(c, IF calls[c].attempt = 2 THEN Idle
               ELSE [step |-> "again", who |-> calls[c].who, name |-> calls[c].name,
                     attempt |-> calls[c].attempt])
    /\ UNCHANGED <<tables, cache, up, config, begun, granted>>

\* Mutant: whoever has the name is taken for the account of the sign-in.
FindAgainByName(c) ==
    /\ At(c, "again")
    /\ LET call == calls[c]
       IN  \/ \E u \in Ids : /\ Exists(u) /\ users[u].name = call.name
                             /\ Goes(c, Synced(u, users[u], call.who))
           \/ /\ \A u \in Ids : Exists(u) => users[u].name # call.name
              /\ \E name \in Names : Goes(c, Creating(call.who, name, call.attempt + 1))
    /\ UNCHANGED <<tables, cache, up, config, begun, granted>>

\* A sign-in of the same identity created it meanwhile; or that isn't found, or
\* the look-up fails, and the name is given a random suffix (to any name: another
\* account may have that one, too).
FindAgain(c) ==
    /\ At(c, "again")
    /\ LET call == calls[c]
       IN  \/ \E u \in Ids : /\ Found(u, call.who.subject)
                             /\ Goes(c, Synced(u, users[u], call.who))
           \/ \E name \in Names : Goes(c, Creating(call.who, name, call.attempt + 1))
    /\ UNCHANGED <<tables, cache, up, config, begun, granted>>

AfterSync(call) ==
    IF call.who.bearer
    THEN [step |-> "store", user |-> call.user, subject |-> call.who.subject]
    ELSE [step |-> "session", user |-> call.user, password |-> call.row.password,
          by |-> call.who.subject]

\* Mutant: the role is granted, never revoked.
SyncGrants(c) ==
    /\ At(c, "sync")
    /\ LET call == calls[c]
           u == call.user
           role == call.who.role
       IN  /\ Exists(u)
           /\ users' = IF role = TRUE /\ ~call.row.admin
                       THEN [users EXCEPT ![u].admin = TRUE] ELSE users
           /\ granted' = IF role = NoRole THEN granted ELSE [granted EXCEPT ![u] = role]
           /\ Goes(c, AfterSync(call))
    /\ UNCHANGED <<nextId, sessions, keys, cache, up, config, begun>>

\* syncOIDCGroups: the role is written if it differs from the one read.
Sync(c) ==
    /\ At(c, "sync")
    /\ LET call == calls[c]
           u == call.user
           role == call.who.role
       IN  /\ Exists(u)
           /\ users' = IF role # NoRole /\ role # call.row.admin
                       THEN [users EXCEPT ![u].admin = role] ELSE users
           /\ granted' = IF role = NoRole THEN granted ELSE [granted EXCEPT ![u] = role]
           /\ Goes(c, AfterSync(call))
    /\ UNCHANGED <<nextId, sessions, keys, cache, up, config, begun>>

\* The account is gone: with no membership to insert, nothing fails yet.
SyncGone(c) ==
    /\ At(c, "sync")
    /\ ~Exists(calls[c].user)
    /\ calls[c].who.role # TRUE
    /\ Goes(c, AfterSync(calls[c]))
    /\ UNCHANGED <<tables, cache, up, config, begun, granted>>

Store(c) ==
    /\ At(c, "store")
    /\ cache' = cache \union {[subject |-> calls[c].subject, user |-> calls[c].user]}
    /\ Goes(c, Idle)
    /\ UNCHANGED <<tables, up, config, begun, granted>>

\* The entry's minute or its token is over.
Evict(e) ==
    /\ cache' = cache \ {e}
    /\ UNCHANGED <<tables, up, config, calls, begun, ghosts>>
-----------------------------------------------------------------------------
(***************************************************************************)
(* Requests of administrators                                              *)
(***************************************************************************)
\* RequireAuth: a session, a cached access token or an API key of u; the row
\* itself is read in every request.
Authenticated(u) ==
    /\ Exists(u)
    /\ \/ \E s \in sessions : s.user = u
       \/ \E e \in cache : e.user = u
       \/ \E k \in KeyIds : keys[k] = u

AdminRequest(c, u) ==
    /\ Authenticated(u)
    /\ users[u].admin
    /\ Begins(c, [step |-> "admin", actor |-> u])
    /\ UNCHANGED <<tables, cache, up, config, granted>>

CreateUser(c, row) ==
    /\ At(c, "admin")
    /\ Insert(row)
    /\ Goes(c, Idle)
    /\ UNCHANGED <<sessions, keys, cache, up, config, begun, granted>>

\* Sessions and API keys go with the account, and units forget it.  An update
\* that deleted sessions of it holds up the cascade until it is over.
DeleteUser(c, u) ==
    /\ At(c, "admin")
    /\ u # calls[c].actor
    /\ Exists(u)
    /\ \A s \in Locked : s.user # u
    /\ users' = [users EXCEPT ![u] = Absent]
    /\ sessions' = {s \in sessions : s.user # u}
    /\ keys' = [k \in KeyIds |-> IF keys[k] = u THEN NoOne ELSE keys[k]]
    /\ Goes(c, Idle)
    /\ UNCHANGED <<nextId, cache, up, config, begun, granted>>

\* Mutant: administrators may give up their own role.
UpdateChecks(c, u, admin, password) ==
    /\ At(c, "admin")
    /\ Exists(u)
    /\ ManagesAdminRole /\ users[u].subject # Local => users[u].admin = admin
    /\ Goes(c, [step |-> "read", actor |-> calls[c].actor, user |-> u,
                admin |-> admin, password |-> password])
    /\ UNCHANGED <<tables, cache, up, config, begun, granted>>

\* handleUpdateUser up to its call of UpdateUser.
Update(c, u, admin, password) ==
    /\ At(c, "admin")
    /\ u = calls[c].actor => admin
    /\ Exists(u)
    /\ ManagesAdminRole /\ users[u].subject # Local => users[u].admin = admin
    /\ Goes(c, [step |-> "read", actor |-> calls[c].actor, user |-> u,
                admin |-> admin, password |-> password])
    /\ UNCHANGED <<tables, cache, up, config, begun, granted>>

\* The transaction reads the whole row, to write it back changed.
Changed(row, call) ==
    [name |-> row.name, password |-> IF call.password = Keep THEN row.password ELSE call.password,
     admin |-> call.admin, issuer |-> row.issuer, subject |-> row.subject]

ReadRow(c) ==
    /\ At(c, "read")
    /\ LET call == calls[c]
       IN  /\ Exists(call.user)
           /\ Goes(c, [step |-> IF call.password = Keep THEN "save" ELSE "end",
                       actor |-> call.actor, user |-> call.user,
                       row |-> Changed(users[call.user], call), doomed |-> {}])
    /\ UNCHANGED <<tables, cache, up, config, begun, granted>>

\* Mutant: only the sign-ins end, API tokens stay.
EndSignIns(c) ==
    /\ At(c, "end")
    /\ LET call == calls[c]
           mine == {s \in sessions : s.user = call.user /\ s.by # Issued}
       IN  /\ mine \intersect Locked = {}
           /\ Goes(c, [step |-> "save", actor |-> call.actor, user |-> call.user,
                       row |-> call.row, doomed |-> mine])
    /\ UNCHANGED <<tables, cache, up, config, begun, granted>>

\* A new password ends the account's sessions, once the transaction commits.
EndSessions(c) ==
    /\ At(c, "end")
    /\ LET call == calls[c]
           mine == {s \in sessions : s.user = call.user}
       IN  /\ mine \intersect Locked = {}
           /\ Goes(c, [step |-> "save", actor |-> call.actor, user |-> call.user,
                       row |-> call.row, doomed |-> mine])
    /\ UNCHANGED <<tables, cache, up, config, begun, granted>>

\* Save writes every column, and inserts the row again if it is gone.
Save(c) ==
    /\ At(c, "save")
    /\ LET call == calls[c]
       IN  /\ Free(users, call.user, call.row)
           /\ users' = [users EXCEPT ![call.user] = call.row]
           /\ sessions' = sessions \ call.doomed
    /\ Goes(c, Idle)
    /\ UNCHANGED <<nextId, keys, cache, up, config, begun, granted>>

\* handleCreateToken reads the account; CreateSession is the second step.
CreateToken(c, u) ==
    /\ At(c, "admin")
    /\ Exists(u)
    /\ Goes(c, [step |-> "session", user |-> u, password |-> users[u].password, by |-> Issued])
    /\ UNCHANGED <<tables, cache, up, config, begun, granted>>

RevokeToken(c, s) ==
    /\ At(c, "admin")
    /\ s.by = Issued
    /\ s \notin Locked
    /\ sessions' = sessions \ {s}
    /\ Goes(c, Idle)
    /\ UNCHANGED <<users, nextId, keys, cache, up, config, begun, granted>>

CreateAPIKey(c, u) ==
    /\ At(c, "admin")
    /\ Exists(u)
    /\ Goes(c, [step |-> "key", user |-> u])
    /\ UNCHANGED <<tables, cache, up, config, begun, granted>>

InsertKey(c, k) ==
    /\ At(c, "key")
    /\ Exists(calls[c].user)
    /\ keys[k] = NoOne
    /\ keys' = [keys EXCEPT ![k] = calls[c].user]
    /\ Goes(c, Idle)
    /\ UNCHANGED <<users, nextId, sessions, cache, up, config, begun, granted>>

DeleteAPIKey(c, k) ==
    /\ At(c, "admin")
    /\ keys[k] # NoOne
    /\ keys' = [keys EXCEPT ![k] = NoOne]
    /\ Goes(c, Idle)
    /\ UNCHANGED <<users, nextId, sessions, cache, up, config, begun, granted>>
-----------------------------------------------------------------------------
SignIn(c) ==
    \/ \E u \in Ids, password \in Passwords : Login(c, u, password)
    \/ \E who \in Identities, name \in Names : Identified(c, who, name)
    \/ Create(c) \/ CreateTaken(c) \/ FindAgain(c)
    \/ Sync(c) \/ SyncGone(c)
    \/ CreateSession(c) \/ Store(c)

Administer(c) ==
    \/ \E u \in Ids : AdminRequest(c, u) \/ DeleteUser(c, u) \/ CreateToken(c, u) \/ CreateAPIKey(c, u)
    \/ \E name \in Names, password \in Passwords, admin \in BOOLEAN :
         CreateUser(c, LocalRow(name, password, admin))
    \/ \E u \in Ids, admin \in BOOLEAN, password \in Passwords \union {Keep} :
         Update(c, u, admin, password)
    \/ ReadRow(c) \/ EndSessions(c) \/ Save(c)
    \/ \E s \in sessions : RevokeToken(c, s)
    \/ \E k \in KeyIds : InsertKey(c, k) \/ DeleteAPIKey(c, k)

Next ==
    \/ Start \/ Stops
    \/ \E c \in Requests : SignIn(c) \/ Administer(c) \/ Fails(c)
    \/ \E s \in sessions : SessionEnds(s)
    \/ \E e \in cache : Evict(e)

Spec == Init /\ [][Next]_vars
-----------------------------------------------------------------------------
(***************************************************************************)
(* Every variable has its type; in particular what each request knows fits *)
(* the step it is at, and an account's name is tried at most three times   *)
(* (userForOIDCIdentity).                                                  *)
(***************************************************************************)
TypeOK ==
    /\ users \in [Ids -> Rows \union {Absent}]
    /\ nextId \in 1..(MaxUsers + 1)
    /\ sessions \subseteq Sessions
    /\ keys \in [KeyIds -> Ids \union {NoOne}]
    /\ cache \subseteq [subject : Subjects, user : Ids]
    /\ up \in BOOLEAN /\ login \in BOOLEAN /\ adminGroup \in BOOLEAN
    /\ calls \in [Requests -> CallRecords]
    /\ begun \in Nat
    /\ granted \in [Ids -> BOOLEAN] /\ raced \subseteq Ids /\ crowded \in BOOLEAN

(***************************************************************************)
(* An SSO sign-in's session, and a verified access token, lead to an       *)
(* account of the subject that the provider vouched for, whatever the      *)
(* names, retries and concurrent sign-ins on the way (userForOIDCIdentity  *)
(* looks accounts up by subject alone, oidc.go:327).                       *)
(***************************************************************************)
SignedInAsSubject ==
    /\ \A s \in sessions : s.by \in Subjects => Exists(s.user) /\ users[s.user].subject = s.by
    /\ \A e \in cache : Exists(e.user) => users[e.user].subject = e.subject

(***************************************************************************)
(* Where no group grants the role, administrators cannot lock everyone out *)
(* of user management (user_handlers.go:94): they cannot demote or delete  *)
(* themselves, so the last one stays, unless two of them had requests in   *)
(* flight at once.                                                         *)
(***************************************************************************)
AdminRemains == [][HasAdmin /\ ~adminGroup /\ ~crowded' => HasAdmin']_vars

(***************************************************************************)
(* A new password ends all sessions from before, "so a leaked password     *)
(* stops working everywhere at once" (users.go:84): every session is of an *)
(* account that still has the password of when it signed in, unless an     *)
(* update overlapped another request that had read the account.            *)
(***************************************************************************)
ResetIsFinal ==
    \A s \in sessions :
        /\ Exists(s.user)
        /\ s.user \notin raced => users[s.user].password = s.password

(***************************************************************************)
(* Where the login provider manages the role, an SSO account has the one   *)
(* granted last, by a sign-in or an access token (README.md:24): neither   *)
(* an administrator nor a write of the whole row changes it, unless such   *)
(* an update or another sign-in overlapped.  Without a login provider the  *)
(* roles that access tokens grant are not protected: ManagesAdminRole is   *)
(* false and Update lets an administrator change them.                     *)
(***************************************************************************)
RoleAsGranted ==
    ManagesAdminRole => \A u \in Ids :
        Exists(u) /\ users[u].subject # Local /\ u \notin raced => users[u].admin = granted[u]
=============================================================================
