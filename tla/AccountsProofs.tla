--------------------------- MODULE AccountsProofs ---------------------------
(***************************************************************************)
(* Proofs about Accounts.  The inductive invariant says of every request   *)
(* in flight what may be relied on in what it read before: all of it for   *)
(* an account that is not `raced`, its id and subject always.              *)
(***************************************************************************)
EXTENDS Accounts, TLAPS

USE DEF config, ManagesAdminRole

IdsBelow ==
    /\ \A u \in Ids : Exists(u) => u < nextId
    /\ \A u \in Ids : u >= nextId => granted[u] = FALSE
    /\ \A s \in sessions : Exists(s.user)
    /\ \A e \in cache : e.user < nextId

BelowCall(k) ==
    k.step \in {"sync", "session", "store", "key", "read", "end", "save"} => k.user < nextId

\* The subject of an id never changes, not even by a row that is inserted again.
Owned(f) ==
    /\ \A u \in Ids : Exists(u) => users[u].subject = f[u]
    /\ \A s \in sessions : s.by \in Subjects => f[s.user] = s.by
    /\ \A e \in cache : f[e.user] = e.subject

OwnedCall(f, k) ==
    /\ k.step = "sync" => f[k.user] = k.who.subject
    /\ k.step = "session" /\ k.by \in Subjects => f[k.user] = k.by
    /\ k.step = "store" => f[k.user] = k.subject
    /\ k.step \in {"end", "save"} => f[k.user] = k.row.subject

OwnersFixed ==
    \E f \in [Ids -> Subject] : Owned(f) /\ \A c \in Requests : OwnedCall(f, calls[c])

Unraced(k) == k.user \notin raced

ResetCall(k) ==
    /\ k.step = "session" /\ Unraced(k) /\ Exists(k.user) => users[k.user].password = k.password
    /\ k.step = "sync" /\ Unraced(k) /\ Exists(k.user) => users[k.user].password = k.row.password
    /\ k.step = "save" /\ Unraced(k) =>
         \A s \in sessions : s.user = k.user => s \in k.doomed \/ s.password = k.row.password

RoleCall(k) ==
    /\ k.step \in {"create", "again", "sync"} /\ ~adminGroup => k.who.role = NoRole
    /\ k.step = "sync" /\ ManagesAdminRole /\ Unraced(k) /\ Exists(k.user) =>
         users[k.user].admin = k.row.admin
    /\ k.step = "read" /\ ManagesAdminRole /\ Unraced(k) /\ Exists(k.user) =>
         (users[k.user].subject # Local => k.admin = granted[k.user])
    /\ k.step \in {"end", "save"} /\ ManagesAdminRole /\ Unraced(k) =>
         (k.row.subject # Local => k.row.admin = granted[k.user])

ActorCall(k) ==
    /\ k.step \in {"admin", "read", "end", "save"} /\ ~adminGroup /\ ~crowded =>
         Exists(k.actor) /\ users[k.actor].admin
    /\ k.step = "read" /\ k.user = k.actor => k.admin
    /\ k.step \in {"end", "save"} /\ k.user = k.actor => k.row.admin

CallOK(k) == BelowCall(k) /\ ResetCall(k) /\ RoleCall(k) /\ ActorCall(k)

GhostsSeen == RacedIn(calls) \subseteq raced /\ (CrowdedIn(calls) => crowded)

AccountsInv ==
    /\ TypeOK /\ IdsBelow /\ OwnersFixed /\ GhostsSeen /\ ResetIsFinal /\ RoleAsGranted
    /\ \A c \in Requests : CallOK(calls[c])
-----------------------------------------------------------------------------
LEMMA CallTypes ==
    ASSUME NEW k \in CallRecords
    PROVE  /\ k.step = "create" => k \in Creates
           /\ k.step = "again" => k \in Retries
           /\ k.step = "sync" => k \in Syncs
           /\ k.step = "session" => k \in SignIns
           /\ k.step = "store" => k \in Stores
           /\ k.step = "admin" => k \in Admins
           /\ k.step = "key" => k \in KeyCalls
           /\ k.step = "read" => k \in Updates
           /\ k.step \in {"end", "save"} => k \in Saves
  <1>1. CASE k = Idle
    BY <1>1 DEF Idle
  <1>2. CASE k \in Creates
    BY <1>2 DEF Creates
  <1>3. CASE k \in Retries
    BY <1>3 DEF Retries
  <1>4. CASE k \in Syncs
    BY <1>4 DEF Syncs
  <1>5. CASE k \in SignIns
    BY <1>5 DEF SignIns
  <1>6. CASE k \in Stores
    BY <1>6 DEF Stores
  <1>7. CASE k \in Admins
    BY <1>7 DEF Admins
  <1>8. CASE k \in KeyCalls
    BY <1>8 DEF KeyCalls
  <1>9. CASE k \in Updates
    BY <1>9 DEF Updates
  <1>10. CASE k \in Saves
    BY <1>10 DEF Saves
  <1> QED
    BY <1>1, <1>2, <1>3, <1>4, <1>5, <1>6, <1>7, <1>8, <1>9, <1>10 DEF CallRecords

\* What is known of the user and the row in a call.
LEMMA CallFields ==
    ASSUME NEW k \in CallRecords
    PROVE  /\ k.step \in {"sync", "session", "store", "key", "read", "end", "save"} => k.user \in Ids
           /\ k.step \in {"admin", "read", "end", "save"} => k.actor \in Ids
           /\ k.step \in {"sync", "end", "save"} => k.row \in Rows
           /\ k.step \in {"create", "again", "sync"} => k.who \in Identities
  BY CallTypes DEF Creates, Retries, Syncs, SignIns, Stores, Admins, KeyCalls, Updates, Saves

LEMMA GoesFacts ==
    ASSUME TypeOK, NEW c \in Requests, NEW k \in CallRecords, Goes(c, k)
    PROVE  /\ calls' \in [Requests -> CallRecords]
           /\ calls'[c] = k
           /\ \A d \in Requests \ {c} : calls'[d] = calls[d]
           /\ raced \subseteq raced' /\ raced' \subseteq Ids
           /\ (crowded => crowded') /\ crowded' \in BOOLEAN
           /\ GhostsSeen'
  <1>1. /\ calls' \in [Requests -> CallRecords]
        /\ calls'[c] = k
        /\ \A d \in Requests \ {c} : calls'[d] = calls[d]
    BY DEF TypeOK, Goes
  <1>2. raced \subseteq raced' /\ raced' \subseteq Ids /\ RacedIn(calls') \subseteq raced'
    BY DEF TypeOK, Goes, RacedIn
  <1>3. (crowded => crowded') /\ crowded' \in BOOLEAN /\ (CrowdedIn(calls') => crowded')
    BY DEF TypeOK, Goes, CrowdedIn
  <1> QED
    BY <1>1, <1>2, <1>3 DEF GhostsSeen
\* What holds of a call goes on to hold while only sessions end.
LEMMA CallKept ==
    ASSUME NEW k \in CallRecords, CallOK(k),
           UNCHANGED <<users, nextId, config, granted>>, sessions' \subseteq sessions,
           raced \subseteq raced', crowded => crowded'
    PROVE  CallOK(k)'
  <1>1. BelowCall(k)'
    BY DEF CallOK, BelowCall
  <1>2. ResetCall(k)'
    BY DEF CallOK, ResetCall, Unraced, Exists
  <1>3. RoleCall(k)'
    BY DEF CallOK, RoleCall, Unraced, Exists
  <1>4. ActorCall(k)'
    BY DEF CallOK, ActorCall, Exists
  <1> QED
    BY <1>1, <1>2, <1>3, <1>4 DEF CallOK

\* A step that changes no table, and goes on with a call that reads it right.
LEMMA QuietStep ==
    ASSUME AccountsInv, NEW c \in Requests, NEW k \in CallRecords, Goes(c, k),
           UNCHANGED <<tables, cache, up, config, granted>>, begun' \in Nat,
           CallOK(k),
           \A f \in [Ids -> Subject] :
               Owned(f) /\ OwnedCall(f, calls[c]) => OwnedCall(f, k)
    PROVE  AccountsInv'
  <1>0. TypeOK /\ UNCHANGED <<users, nextId, sessions, keys>>
    BY DEF AccountsInv, tables
  <1>1. /\ calls' \in [Requests -> CallRecords]
        /\ calls'[c] = k
        /\ \A d \in Requests \ {c} : calls'[d] = calls[d]
        /\ raced \subseteq raced' /\ raced' \subseteq Ids
        /\ (crowded => crowded') /\ crowded' \in BOOLEAN
        /\ GhostsSeen'
    BY <1>0, GoesFacts
  <1>2. TypeOK'
    BY <1>0, <1>1 DEF TypeOK, tables
  <1>3. IdsBelow'
    BY <1>0 DEF AccountsInv, IdsBelow, Exists
  <1>4. OwnersFixed'
    <2>1. PICK f \in [Ids -> Subject] : Owned(f) /\ \A d \in Requests : OwnedCall(f, calls[d])
      BY DEF AccountsInv, OwnersFixed
    <2>2. Owned(f)'
      BY <1>0, <2>1 DEF Owned, Exists
    <2>3. OwnedCall(f, k)
      BY <2>1
    <2>4. ASSUME NEW d \in Requests
          PROVE  OwnedCall(f, calls[d])'
      BY <1>1, <2>1, <2>3 DEF OwnedCall
    <2> QED
      BY <2>2, <2>4 DEF OwnersFixed
  <1>5. ResetIsFinal' /\ RoleAsGranted'
    BY <1>0, <1>1 DEF AccountsInv, ResetIsFinal, RoleAsGranted, Exists
  <1>6. ASSUME NEW d \in Requests
        PROVE  CallOK(calls[d])'
    <2>1. CASE d = c
      <3>1. CallOK(k)'
        BY <1>0, <1>1, CallKept
      <3> QED
        BY <1>1, <2>1, <3>1 DEF CallOK, BelowCall, ResetCall, RoleCall, ActorCall, Unraced
    <2>2. CASE d # c
      <3>1. PICK j : j = calls[d]
        OBVIOUS
      <3>2. j \in CallRecords /\ CallOK(j)
        BY <1>0, <3>1 DEF AccountsInv, TypeOK
      <3>3. CallOK(j)'
        BY <1>0, <1>1, <3>2, CallKept
      <3>4. calls'[d] = j
        BY <1>1, <2>2, <3>1
      <3> QED
        BY <3>3, <3>4 DEF CallOK, BelowCall, ResetCall, RoleCall, ActorCall, Unraced
    <2> QED
      BY <2>1, <2>2
  <1> QED
    BY <1>1, <1>2, <1>3, <1>4, <1>5, <1>6 DEF AccountsInv
-----------------------------------------------------------------------------
\* The steps that change no table.
LEMMA FailsStep ==
    ASSUME AccountsInv, NEW c \in Requests, Fails(c)
    PROVE  AccountsInv'
  <1>1. Idle \in CallRecords /\ CallOK(Idle) /\ \A f : OwnedCall(f, Idle)
    BY DEF Idle, CallRecords, CallOK, BelowCall, ResetCall, RoleCall, ActorCall, OwnedCall
  <1>2. Goes(c, Idle) /\ UNCHANGED <<tables, cache, up, config, granted>> /\ begun' \in Nat
    BY DEF Fails, AccountsInv, TypeOK
  <1> QED
    BY <1>1, <1>2, QuietStep

LEMMA LoginStep ==
    ASSUME AccountsInv, NEW c \in Requests, NEW u \in Ids, NEW password \in Passwords,
           Login(c, u, password)
    PROVE  AccountsInv'
  <1>1. PICK k : k = [step |-> "session", user |-> u, password |-> password, by |-> Local]
    OBVIOUS
  <1>2. k \in CallRecords
    BY <1>1 DEF CallRecords, SignIns, Secret, Subject
  <1>3. Goes(c, k) /\ UNCHANGED <<tables, cache, up, config, granted>> /\ begun' \in Nat
    BY <1>1 DEF Login, Begins, AccountsInv, TypeOK
  <1>4. CallOK(k)
    BY <1>1 DEF Login, AccountsInv, IdsBelow, CallOK, BelowCall, ResetCall, RoleCall, ActorCall
  <1>5. \A f \in [Ids -> Subject] : OwnedCall(f, k)
    BY <1>1, ValuesAssumption DEF OwnedCall
  <1> QED
    BY <1>2, <1>3, <1>4, <1>5, QuietStep

\* A sign-in's call once its account is found.
LEMMA SyncedOK ==
    ASSUME AccountsInv, NEW u \in Ids, NEW who \in Identities, NEW k,
           Found(u, who.subject), ~adminGroup => who.role = NoRole,
           k = Synced(u, users[u], who)
    PROVE  /\ k \in CallRecords
           /\ CallOK(k)
           /\ \A f \in [Ids -> Subject] : Owned(f) => OwnedCall(f, k)
  <1>1. k \in CallRecords
    BY DEF Synced, CallRecords, Syncs, Found, Exists, AccountsInv, TypeOK
  <1>2. CallOK(k)
    BY DEF Synced, Found, AccountsInv, IdsBelow, CallOK, BelowCall, ResetCall, RoleCall, ActorCall
  <1>3. \A f \in [Ids -> Subject] : Owned(f) => OwnedCall(f, k)
    BY DEF Synced, Found, Owned, OwnedCall
  <1> QED
    BY <1>1, <1>2, <1>3

LEMMA CreatingOK ==
    ASSUME NEW who \in Identities, NEW name \in Names, NEW attempt \in 0..2, NEW k,
           ~adminGroup => who.role = NoRole,
           k = Creating(who, name, attempt)
    PROVE  /\ k \in CallRecords
           /\ CallOK(k)
           /\ \A f \in [Ids -> Subject] : OwnedCall(f, k)
  BY DEF Creating, CallRecords, Creates, CallOK, BelowCall, ResetCall, RoleCall, ActorCall, OwnedCall

LEMMA IdentifiedStep ==
    ASSUME AccountsInv, NEW c \in Requests, NEW who \in Identities, NEW name \in Names,
           Identified(c, who, name)
    PROVE  AccountsInv'
  <1>0. /\ UNCHANGED <<tables, cache, up, config, granted>>
        /\ ~adminGroup => who.role = NoRole
    BY DEF Identified, Exchanged, Verified
  <1>1. CASE \E u \in Ids : Found(u, who.subject) /\ Begins(c, Synced(u, users[u], who))
    <2>1. PICK u \in Ids : Found(u, who.subject) /\ Begins(c, Synced(u, users[u], who))
      BY <1>1
    <2>2. PICK k : k = Synced(u, users[u], who)
      OBVIOUS
    <2>3. Goes(c, k) /\ begun' \in Nat
      BY <2>1, <2>2 DEF Begins, AccountsInv, TypeOK
    <2> QED
      BY <1>0, <2>1, <2>2, <2>3, SyncedOK, QuietStep
  <1>2. CASE Begins(c, Creating(who, name, 0))
    <2>1. PICK k : k = Creating(who, name, 0)
      OBVIOUS
    <2>2. Goes(c, k) /\ begun' \in Nat
      BY <1>2, <2>1 DEF Begins, AccountsInv, TypeOK
    <2> QED
      BY <1>0, <2>1, <2>2, CreatingOK, QuietStep
  <1> QED
    BY <1>1, <1>2 DEF Identified

LEMMA CreateTakenStep ==
    ASSUME AccountsInv, NEW c \in Requests, CreateTaken(c)
    PROVE  AccountsInv'
  <1>0. /\ calls[c] \in Creates /\ RoleCall(calls[c])
        /\ UNCHANGED <<tables, cache, up, config, granted>> /\ begun' \in Nat
    BY CallTypes DEF CreateTaken, At, AccountsInv, TypeOK, CallOK
  <1>1. CASE calls[c].attempt = 2
    <2>1. Idle \in CallRecords /\ CallOK(Idle) /\ \A f : OwnedCall(f, Idle)
      BY DEF Idle, CallRecords, CallOK, BelowCall, ResetCall, RoleCall, ActorCall, OwnedCall
    <2>2. Goes(c, Idle)
      BY <1>1 DEF CreateTaken
    <2> QED
      BY <1>0, <2>1, <2>2, QuietStep
  <1>2. CASE calls[c].attempt # 2
    <2>1. PICK k : k = [step |-> "again", who |-> calls[c].who, name |-> calls[c].name,
                        attempt |-> calls[c].attempt]
      OBVIOUS
    <2>2. k \in CallRecords
      BY <1>0, <1>2, <2>1 DEF Creates, Retries, CallRecords
    <2>3. CallOK(k) /\ \A f : OwnedCall(f, k)
      BY <1>0, <2>1 DEF CallOK, BelowCall, ResetCall, RoleCall, ActorCall, OwnedCall, Creates
    <2>4. Goes(c, k)
      BY <1>2, <2>1 DEF CreateTaken
    <2> QED
      BY <1>0, <2>2, <2>3, <2>4, QuietStep
  <1> QED
    BY <1>1, <1>2

LEMMA FindAgainStep ==
    ASSUME AccountsInv, NEW c \in Requests, FindAgain(c)
    PROVE  AccountsInv'
  <1>0. /\ calls[c] \in Retries
        /\ ~adminGroup => calls[c].who.role = NoRole
        /\ UNCHANGED <<tables, cache, up, config, granted>> /\ begun' \in Nat
    BY CallTypes DEF FindAgain, At, AccountsInv, TypeOK, CallOK, RoleCall
  <1>1. PICK who \in Identities, attempt \in 0..1 : who = calls[c].who /\ attempt = calls[c].attempt
    BY <1>0 DEF Retries
  <1>2. CASE \E u \in Ids : Found(u, who.subject) /\ Goes(c, Synced(u, users[u], who))
    <2>1. PICK u \in Ids : Found(u, who.subject) /\ Goes(c, Synced(u, users[u], who))
      BY <1>2
    <2>2. PICK k : k = Synced(u, users[u], who)
      OBVIOUS
    <2> QED
      BY <1>0, <1>1, <2>1, <2>2, SyncedOK, QuietStep
  <1>3. CASE \E name \in Names : Goes(c, Creating(who, name, attempt + 1))
    <2>1. PICK name \in Names : Goes(c, Creating(who, name, attempt + 1))
      BY <1>3
    <2>2. PICK k : k = Creating(who, name, attempt + 1)
      OBVIOUS
    <2>3. attempt + 1 \in 0..2
      OBVIOUS
    <2> QED
      BY <1>0, <1>1, <2>1, <2>2, <2>3, CreatingOK, QuietStep
  <1> QED
    BY <1>1, <1>2, <1>3 DEF FindAgain
\* AfterSync is a call of the same account and subject.
LEMMA AfterSyncOK ==
    ASSUME NEW call \in Syncs, BelowCall(call), NEW k, k = AfterSync(call)
    PROVE  /\ k \in CallRecords
           /\ k.step \in {"session", "store"} /\ k.user = call.user
           /\ k.step = "session" => k.password = call.row.password
           /\ BelowCall(k) /\ RoleCall(k) /\ ActorCall(k)
           /\ \A f \in [Ids -> Subject] : OwnedCall(f, call) => OwnedCall(f, k)
  <1>1. k \in CallRecords
    BY DEF AfterSync, Syncs, SignIns, Stores, CallRecords, Rows, Identities, Subject
  <1>2. /\ k.step \in {"session", "store"} /\ k.user = call.user
        /\ k.step = "session" => k.password = call.row.password
    BY DEF AfterSync
  <1>3. BelowCall(k) /\ RoleCall(k) /\ ActorCall(k)
    BY DEF AfterSync, Syncs, BelowCall, RoleCall, ActorCall
  <1>4. \A f \in [Ids -> Subject] : OwnedCall(f, call) => OwnedCall(f, k)
    BY DEF AfterSync, Syncs, OwnedCall
  <1> QED
    BY <1>1, <1>2, <1>3, <1>4

LEMMA SyncGoneStep ==
    ASSUME AccountsInv, NEW c \in Requests, SyncGone(c)
    PROVE  AccountsInv'
  <1>0. /\ calls[c] \in Syncs /\ BelowCall(calls[c]) /\ ~Exists(calls[c].user)
        /\ UNCHANGED <<tables, cache, up, config, granted>> /\ begun' \in Nat
    BY CallTypes DEF SyncGone, At, AccountsInv, TypeOK, CallOK
  <1>1. PICK k : k = AfterSync(calls[c])
    OBVIOUS
  <1>2. Goes(c, k)
    BY <1>1 DEF SyncGone
  <1>3. ResetCall(k)
    BY <1>0, <1>1, AfterSyncOK DEF ResetCall
  <1> QED
    BY <1>0, <1>1, <1>2, <1>3, AfterSyncOK, QuietStep DEF CallOK

LEMMA AdminRequestStep ==
    ASSUME AccountsInv, NEW c \in Requests, NEW u \in Ids, AdminRequest(c, u)
    PROVE  AccountsInv'
  <1>1. PICK k : k = [step |-> "admin", actor |-> u]
    OBVIOUS
  <1>2. Goes(c, k) /\ UNCHANGED <<tables, cache, up, config, granted>> /\ begun' \in Nat
    BY <1>1 DEF AdminRequest, Begins, AccountsInv, TypeOK
  <1>3. k \in CallRecords /\ \A f : OwnedCall(f, k)
    BY <1>1 DEF CallRecords, Admins, OwnedCall
  <1>4. CallOK(k)
    BY <1>1 DEF AdminRequest, Authenticated, CallOK, BelowCall, ResetCall, RoleCall, ActorCall
  <1> QED
    BY <1>2, <1>3, <1>4, QuietStep

LEMMA UpdateStep ==
    ASSUME AccountsInv, NEW c \in Requests, NEW u \in Ids, NEW admin \in BOOLEAN,
           NEW password \in Passwords \union {Keep}, Update(c, u, admin, password)
    PROVE  AccountsInv'
  <1>0. /\ calls[c] \in Admins /\ ActorCall(calls[c]) /\ Exists(u) /\ u < nextId
        /\ UNCHANGED <<tables, cache, up, config, granted>> /\ begun' \in Nat
    BY CallTypes DEF Update, At, AccountsInv, TypeOK, IdsBelow, CallOK
  <1>1. PICK k : k = [step |-> "read", actor |-> calls[c].actor, user |-> u,
                      admin |-> admin, password |-> password]
    OBVIOUS
  <1>2. Goes(c, k)
    BY <1>1 DEF Update
  <1>3. k \in CallRecords /\ \A f : OwnedCall(f, k)
    BY <1>0, <1>1 DEF CallRecords, Updates, Admins, OwnedCall
  <1>4. BelowCall(k) /\ ResetCall(k)
    BY <1>0, <1>1 DEF BelowCall, ResetCall
  <1>5. ActorCall(k)
    BY <1>0, <1>1 DEF Update, Admins, ActorCall
  <1>6. RoleCall(k)
    BY <1>0, <1>1 DEF Update, RoleCall, AccountsInv, RoleAsGranted, Unraced
  <1> QED
    BY <1>0, <1>2, <1>3, <1>4, <1>5, <1>6, QuietStep DEF CallOK

LEMMA ReadRowStep ==
    ASSUME AccountsInv, NEW c \in Requests, ReadRow(c)
    PROVE  AccountsInv'
  <1>0. /\ calls[c] \in Updates /\ CallOK(calls[c]) /\ Exists(calls[c].user)
        /\ UNCHANGED <<tables, cache, up, config, granted>> /\ begun' \in Nat
    BY CallTypes DEF ReadRow, At, AccountsInv, TypeOK
  <1>1. PICK u \in Ids : u = calls[c].user
    BY <1>0 DEF Updates
  <1>2. PICK row : row = Changed(users[u], calls[c])
    OBVIOUS
  <1>3. PICK k : k = [step |-> IF calls[c].password = Keep THEN "save" ELSE "end",
                      actor |-> calls[c].actor, user |-> u, row |-> row, doomed |-> {}]
    OBVIOUS
  <1>4. Goes(c, k)
    BY <1>1, <1>2, <1>3 DEF ReadRow
  <1>5. users[u] \in Rows
    BY <1>0, <1>1 DEF AccountsInv, TypeOK, Exists
  <1>6. /\ row \in Rows /\ row.subject = users[u].subject /\ row.admin = calls[c].admin
        /\ calls[c].password = Keep => row.password = users[u].password
    BY <1>0, <1>2, <1>5 DEF Changed, Rows, Updates, Secret
  <1>7. k \in CallRecords
    BY <1>0, <1>3, <1>6 DEF CallRecords, Saves, Updates
  <1>8. \A f \in [Ids -> Subject] : Owned(f) => OwnedCall(f, k)
    BY <1>0, <1>1, <1>3, <1>6 DEF Owned, OwnedCall
  <1>9. BelowCall(k) /\ ActorCall(k)
    BY <1>0, <1>1, <1>3, <1>6 DEF CallOK, BelowCall, ActorCall, ReadRow, At
  <1>10. ResetCall(k)
    BY <1>0, <1>1, <1>3, <1>6 DEF ResetCall, Unraced, AccountsInv, ResetIsFinal
  <1>11. RoleCall(k)
    BY <1>0, <1>1, <1>3, <1>6 DEF RoleCall, Unraced, CallOK, ReadRow, At
  <1> QED
    BY <1>0, <1>4, <1>7, <1>8, <1>9, <1>10, <1>11, QuietStep DEF CallOK

LEMMA EndSessionsStep ==
    ASSUME AccountsInv, NEW c \in Requests, EndSessions(c)
    PROVE  AccountsInv'
  <1>0. /\ calls[c] \in Saves /\ calls[c].step = "end" /\ CallOK(calls[c])
        /\ UNCHANGED <<tables, cache, up, config, granted>> /\ begun' \in Nat
    BY CallTypes DEF EndSessions, At, AccountsInv, TypeOK
  <1>1. PICK mine : mine = {s \in sessions : s.user = calls[c].user}
    OBVIOUS
  <1>2. PICK k : k = [step |-> "save", actor |-> calls[c].actor, user |-> calls[c].user,
                      row |-> calls[c].row, doomed |-> mine]
    OBVIOUS
  <1>3. Goes(c, k)
    BY <1>1, <1>2 DEF EndSessions
  <1>4. k \in CallRecords
    BY <1>0, <1>1, <1>2 DEF CallRecords, Saves, AccountsInv, TypeOK
  <1>5. \A f \in [Ids -> Subject] : OwnedCall(f, calls[c]) => OwnedCall(f, k)
    BY <1>0, <1>2 DEF OwnedCall
  <1>6. ResetCall(k)
    BY <1>1, <1>2 DEF ResetCall
  <1>7. BelowCall(k) /\ RoleCall(k) /\ ActorCall(k)
    BY <1>0, <1>2 DEF CallOK, BelowCall, RoleCall, ActorCall, Unraced
  <1> QED
    BY <1>0, <1>3, <1>4, <1>5, <1>6, <1>7, QuietStep DEF CallOK

LEMMA CreateTokenStep ==
    ASSUME AccountsInv, NEW c \in Requests, NEW u \in Ids, CreateToken(c, u)
    PROVE  AccountsInv'
  <1>1. PICK k : k = [step |-> "session", user |-> u, password |-> users[u].password, by |-> Issued]
    OBVIOUS
  <1>2. Goes(c, k) /\ UNCHANGED <<tables, cache, up, config, granted>> /\ begun' \in Nat
    BY <1>1 DEF CreateToken, AccountsInv, TypeOK
  <1>3. k \in CallRecords
    BY <1>1 DEF CreateToken, CallRecords, SignIns, AccountsInv, TypeOK, Exists, Rows
  <1>4. CallOK(k)
    BY <1>1 DEF CreateToken, AccountsInv, IdsBelow, CallOK, BelowCall, ResetCall, RoleCall, ActorCall
  <1>5. \A f \in [Ids -> Subject] : OwnedCall(f, k)
    BY <1>1, ValuesAssumption DEF OwnedCall, Subject
  <1> QED
    BY <1>2, <1>3, <1>4, <1>5, QuietStep

LEMMA CreateAPIKeyStep ==
    ASSUME AccountsInv, NEW c \in Requests, NEW u \in Ids, CreateAPIKey(c, u)
    PROVE  AccountsInv'
  <1>1. PICK k : k = [step |-> "key", user |-> u]
    OBVIOUS
  <1>2. Goes(c, k) /\ UNCHANGED <<tables, cache, up, config, granted>> /\ begun' \in Nat
    BY <1>1 DEF CreateAPIKey, AccountsInv, TypeOK
  <1>3. k \in CallRecords /\ \A f : OwnedCall(f, k)
    BY <1>1 DEF CallRecords, KeyCalls, OwnedCall
  <1>4. CallOK(k)
    BY <1>1 DEF CreateAPIKey, AccountsInv, IdsBelow, CallOK, BelowCall, ResetCall, RoleCall, ActorCall
  <1> QED
    BY <1>2, <1>3, <1>4, QuietStep
-----------------------------------------------------------------------------
\* The steps that change a table.
LEMMA Assembled ==
    ASSUME TypeOK', IdsBelow', ResetIsFinal', RoleAsGranted', GhostsSeen',
           NEW f \in [Ids -> Subject], Owned(f)',
           \A d \in Requests : \A k \in CallRecords :
               calls'[d] = k => CallOK(k)' /\ OwnedCall(f, k)
    PROVE  AccountsInv'
  <1>1. ASSUME NEW d \in Requests
        PROVE  CallOK(calls[d])' /\ OwnedCall(f, calls[d])'
    <2>1. PICK k \in CallRecords : k = calls'[d]
      BY DEF TypeOK
    <2>2. CallOK(k)' /\ OwnedCall(f, k)
      BY <2>1
    <2> QED
      BY <2>1, <2>2 DEF CallOK, BelowCall, ResetCall, RoleCall, ActorCall, Unraced, OwnedCall
  <1>2. OwnersFixed'
    BY <1>1 DEF OwnersFixed
  <1> QED
    BY <1>1, <1>2 DEF AccountsInv

LEMMA IdleOK == Idle \in CallRecords /\ CallOK(Idle) /\ CallOK(Idle)' /\ \A f : OwnedCall(f, Idle)
  BY DEF Idle, CallRecords, CallOK, BelowCall, ResetCall, RoleCall, ActorCall, OwnedCall

\* An update and another request that hold one account race.
LEMMA Conflict ==
    ASSUME TypeOK, GhostsSeen, NEW c \in Requests, NEW d \in Requests, c # d,
           Holding(calls[c]), Holding(calls[d]), calls[c].user = calls[d].user,
           Updating(calls[c]) \/ (calls[c].step = "sync" /\ calls[d].step = "sync")
    PROVE  calls[c].user \in raced
  <1>1. calls[c].user \in Ids
    BY CallFields DEF TypeOK, Holding, Updating
  <1> QED
    BY <1>1 DEF GhostsSeen, RacedIn

\* A request ends, and with it at most sessions, cached tokens and API keys.
LEMMA EndingStep ==
    ASSUME AccountsInv, NEW c \in Requests, Goes(c, Idle), TypeOK',
           UNCHANGED <<users, nextId, config, granted>>, sessions' \subseteq sessions,
           \A e \in cache' : e.user < nextId /\ (e \in cache \/
               \A f \in [Ids -> Subject] : OwnedCall(f, calls[c]) => f[e.user] = e.subject)
    PROVE  AccountsInv'
  <1>1. TypeOK /\ Idle \in CallRecords
    BY IdleOK DEF AccountsInv
  <1>2. /\ calls'[c] = Idle
        /\ \A d \in Requests \ {c} : calls'[d] = calls[d]
        /\ raced \subseteq raced' /\ (crowded => crowded') /\ GhostsSeen'
    BY <1>1, GoesFacts
  <1>3. IdsBelow' /\ ResetIsFinal' /\ RoleAsGranted'
    BY <1>2 DEF AccountsInv, IdsBelow, ResetIsFinal, RoleAsGranted, Exists
  <1>4. PICK f \in [Ids -> Subject] : Owned(f) /\ \A d \in Requests : OwnedCall(f, calls[d])
    BY DEF AccountsInv, OwnersFixed
  <1>5. Owned(f)'
    BY <1>4 DEF Owned, Exists
  <1>6. ASSUME NEW d \in Requests, NEW k \in CallRecords, calls'[d] = k
        PROVE  CallOK(k)' /\ OwnedCall(f, k)
    <2>1. CASE d = c
      BY <1>2, <1>6, <2>1, IdleOK
    <2>2. CASE d # c
      <3>1. k = calls[d] /\ CallOK(k)
        BY <1>2, <1>6, <2>2 DEF AccountsInv
      <3> QED
        BY <1>2, <1>4, <3>1, CallKept
    <2> QED
      BY <2>1, <2>2
  <1> QED
    BY <1>2, <1>3, <1>5, <1>6, Assembled

LEMMA StoreStep ==
    ASSUME AccountsInv, NEW c \in Requests, Store(c)
    PROVE  AccountsInv'
  <1>0. /\ calls[c] \in Stores /\ BelowCall(calls[c]) /\ TypeOK
        /\ UNCHANGED <<tables, up, config, begun, granted>>
    BY CallTypes DEF Store, At, AccountsInv, TypeOK, CallOK
  <1>1. Goes(c, Idle)
    BY DEF Store
  <1>2. TypeOK'
    BY <1>0, <1>1, IdleOK, GoesFacts DEF TypeOK, tables, Store, Stores
  <1>3. \A e \in cache' : e.user < nextId /\ (e \in cache \/
            \A f \in [Ids -> Subject] : OwnedCall(f, calls[c]) => f[e.user] = e.subject)
    BY <1>0 DEF Store, Stores, BelowCall, OwnedCall, AccountsInv, IdsBelow
  <1> QED
    BY <1>0, <1>1, <1>2, <1>3, EndingStep DEF tables

LEMMA RevokeTokenStep ==
    ASSUME AccountsInv, NEW c \in Requests, NEW s \in sessions, RevokeToken(c, s)
    PROVE  AccountsInv'
  <1>1. TypeOK'
    BY IdleOK, GoesFacts DEF AccountsInv, TypeOK, RevokeToken
  <1> QED
    BY <1>1, EndingStep DEF RevokeToken, AccountsInv, IdsBelow

LEMMA KeySteps ==
    ASSUME AccountsInv, NEW c \in Requests, NEW id \in KeyIds,
           InsertKey(c, id) \/ DeleteAPIKey(c, id)
    PROVE  AccountsInv'
  <1>1. keys' \in [KeyIds -> Ids \union {NoOne}]
    <2>1. CASE InsertKey(c, id)
      BY <2>1, CallFields DEF InsertKey, At, AccountsInv, TypeOK
    <2>2. CASE DeleteAPIKey(c, id)
      BY <2>2 DEF DeleteAPIKey, AccountsInv, TypeOK
    <2> QED
      BY <2>1, <2>2
  <1>2. Goes(c, Idle) /\ UNCHANGED <<users, nextId, sessions, cache, up, config, begun, granted>>
    BY DEF InsertKey, DeleteAPIKey
  <1>3. TypeOK'
    BY <1>1, <1>2, IdleOK, GoesFacts DEF AccountsInv, TypeOK
  <1> QED
    BY <1>2, <1>3, EndingStep DEF AccountsInv, IdsBelow
\* Steps outside of any request: sessions and cached tokens end, or the process.
LEMMA OutsideStep ==
    ASSUME AccountsInv, TypeOK',
           UNCHANGED <<users, nextId, config, granted, raced, crowded>>,
           sessions' \subseteq sessions, cache' \subseteq cache,
           calls' = calls \/ calls' = [c \in Requests |-> Idle]
    PROVE  AccountsInv'
  <1>1. IdsBelow' /\ ResetIsFinal' /\ RoleAsGranted'
    BY DEF AccountsInv, IdsBelow, ResetIsFinal, RoleAsGranted, Exists
  <1>2. GhostsSeen'
    <2>1. CASE calls' = calls
      BY <2>1 DEF AccountsInv, GhostsSeen, RacedIn, CrowdedIn
    <2>2. CASE calls' = [c \in Requests |-> Idle]
      BY <2>2 DEF GhostsSeen, RacedIn, CrowdedIn, Idle, Holding, Updating, Administrating
    <2> QED
      BY <2>1, <2>2
  <1>3. PICK f \in [Ids -> Subject] : Owned(f) /\ \A d \in Requests : OwnedCall(f, calls[d])
    BY DEF AccountsInv, OwnersFixed
  <1>4. Owned(f)'
    BY <1>3 DEF Owned, Exists
  <1>5. ASSUME NEW d \in Requests, NEW k \in CallRecords, calls'[d] = k
        PROVE  CallOK(k)' /\ OwnedCall(f, k)
    <2>1. CASE k = Idle
      BY <2>1, IdleOK
    <2>2. CASE k = calls[d]
      <3>1. CallOK(k)
        BY <2>2 DEF AccountsInv
      <3> QED
        BY <1>3, <2>2, <3>1, CallKept
    <2> QED
      BY <1>5, <2>1, <2>2
  <1> QED
    BY <1>1, <1>2, <1>3, <1>4, <1>5, Assembled

LEMMA SessionEndsStep ==
    ASSUME AccountsInv, NEW s \in sessions, SessionEnds(s)
    PROVE  AccountsInv'
  <1>1. TypeOK'
    BY DEF AccountsInv, TypeOK, SessionEnds, ghosts
  <1> QED
    BY <1>1, OutsideStep DEF SessionEnds, ghosts

LEMMA EvictStep ==
    ASSUME AccountsInv, NEW e \in cache, Evict(e)
    PROVE  AccountsInv'
  <1>1. TypeOK'
    BY DEF AccountsInv, TypeOK, Evict, ghosts, tables
  <1> QED
    BY <1>1, OutsideStep DEF Evict, ghosts, tables

LEMMA StopsStep ==
    ASSUME AccountsInv, Stops
    PROVE  AccountsInv'
  <1>1. TypeOK'
    BY IdleOK DEF AccountsInv, TypeOK, Stops, ghosts, tables
  <1> QED
    BY <1>1, OutsideStep DEF Stops, ghosts, tables

LEMMA StutterStep ==
    ASSUME AccountsInv, UNCHANGED vars
    PROVE  AccountsInv'
  <1>1. TypeOK'
    BY DEF AccountsInv, TypeOK, vars, ghosts, tables
  <1> QED
    BY <1>1, OutsideStep DEF vars, ghosts, tables

\* A row with a new id leaves what is known of the others.
LEMMA Inserted ==
    ASSUME AccountsInv, NEW row \in Rows, Insert(row), row.subject # Local => ~row.admin,
           UNCHANGED <<sessions, cache, config, granted>>,
           raced \subseteq raced', crowded => crowded'
    PROVE  /\ IdsBelow' /\ ResetIsFinal' /\ RoleAsGranted'
           /\ \A k \in CallRecords : CallOK(k) => CallOK(k)'
  <1>0. /\ nextId \in Ids /\ ~Exists(nextId)
        /\ nextId' = nextId + 1 /\ users' = [users EXCEPT ![nextId] = row]
        /\ users \in [Ids -> Rows \union {Absent}]
        /\ \A u \in Ids : u # nextId => users'[u] = users[u]
        /\ users'[nextId] = row /\ row # Absent
        /\ sessions \subseteq Sessions /\ cache \subseteq [subject : Subjects, user : Ids]
    BY ValuesAssumption DEF Insert, AccountsInv, IdsBelow, TypeOK, Ids
  <1>1. IdsBelow'
    BY <1>0 DEF AccountsInv, IdsBelow, Exists, Ids, Sessions
  <1>2. ResetIsFinal'
    BY <1>0 DEF AccountsInv, IdsBelow, ResetIsFinal, Exists, Ids, Sessions
  <1>3. RoleAsGranted'
    <2>1. ASSUME NEW u \in Ids, ManagesAdminRole, Exists(u)', users'[u].subject # Local, u \notin raced'
          PROVE  users'[u].admin = granted'[u]
      <3>1. CASE u = nextId
        <4>1. users'[u].admin = FALSE
          BY <1>0, <2>1, <3>1 DEF Rows
        <4>2. granted'[u] = FALSE
          BY <1>0, <3>1 DEF AccountsInv, IdsBelow, Ids
        <4> QED
          BY <4>1, <4>2
      <3>2. CASE u # nextId
        BY <1>0, <2>1, <3>2 DEF AccountsInv, RoleAsGranted, Exists
      <3> QED
        BY <3>1, <3>2
    <2> QED
      BY <2>1 DEF RoleAsGranted
  <1>4. ASSUME NEW k \in CallRecords, CallOK(k)
        PROVE  CallOK(k)'
    <2>0. /\ k.step \in {"sync", "session", "store", "key", "read", "end", "save"} =>
              k.user \in Ids /\ k.user # nextId /\ k.user < nextId'
          /\ k.step \in {"admin", "read", "end", "save"} => k.actor \in Ids
      BY <1>0, <1>4, CallFields DEF CallOK, BelowCall, Ids
    <2>1. BelowCall(k)'
      BY <2>0 DEF BelowCall
    <2>2. ResetCall(k)'
      BY <1>0, <1>4, <2>0 DEF CallOK, ResetCall, Unraced, Exists
    <2>3. RoleCall(k)'
      BY <1>0, <1>4, <2>0 DEF CallOK, RoleCall, Unraced, Exists
    <2>4. ActorCall(k)'
      BY <1>0, <1>4, <2>0 DEF CallOK, ActorCall, Exists
    <2> QED
      BY <2>1, <2>2, <2>3, <2>4 DEF CallOK
  <1> QED
    BY <1>1, <1>2, <1>3, <1>4

LEMMA InsertedOwned ==
    ASSUME AccountsInv, NEW row \in Rows, Insert(row), UNCHANGED <<sessions, cache>>,
           NEW f \in [Ids -> Subject], Owned(f)
    PROVE  \E g \in [Ids -> Subject] :
               /\ g[nextId] = row.subject
               /\ Owned(g)'
               /\ \A k \in CallRecords : BelowCall(k) /\ OwnedCall(f, k) => OwnedCall(g, k)
  <1>0. /\ nextId \in Ids /\ ~Exists(nextId)
        /\ nextId' = nextId + 1 /\ users' = [users EXCEPT ![nextId] = row]
        /\ users \in [Ids -> Rows \union {Absent}]
        /\ \A u \in Ids : u # nextId => users'[u] = users[u]
        /\ users'[nextId] = row /\ row # Absent
        /\ sessions \subseteq Sessions /\ cache \subseteq [subject : Subjects, user : Ids]
    BY ValuesAssumption DEF Insert, AccountsInv, IdsBelow, TypeOK, Ids
  <1>3. PICK g : g = [f EXCEPT ![nextId] = row.subject]
    OBVIOUS
  <1>4. g \in [Ids -> Subject] /\ (\A u \in Ids : u # nextId => g[u] = f[u]) /\ g[nextId] = row.subject
    BY <1>0, <1>3 DEF Rows, Subject
  <1>5. Owned(g)'
    BY <1>0, <1>4 DEF Owned, AccountsInv, IdsBelow, Exists, Ids, Sessions
  <1>6. ASSUME NEW k \in CallRecords, BelowCall(k), OwnedCall(f, k)
        PROVE  OwnedCall(g, k)
    <2>0. k.step \in {"sync", "session", "store", "key", "read", "end", "save"} =>
              k.user \in Ids /\ k.user # nextId
      BY <1>0, <1>6, CallFields DEF BelowCall, Ids
    <2> QED
      BY <1>4, <1>6, <2>0 DEF OwnedCall
  <1> QED
    BY <1>4, <1>5, <1>6

LEMMA CreateStep ==
    ASSUME AccountsInv, NEW c \in Requests, Create(c)
    PROVE  AccountsInv'
  <1>0. calls[c] \in Creates /\ CallOK(calls[c]) /\ TypeOK
    BY CallTypes DEF Create, At, AccountsInv, TypeOK
  <1>1. PICK row, k : row = SSORow(calls[c].who, calls[c].name) /\ k = Synced(nextId, row, calls[c].who)
    OBVIOUS
  <1>2. Insert(row) /\ Goes(c, k) /\ UNCHANGED <<sessions, keys, cache, up, config, begun, granted>>
    BY <1>1 DEF Create
  <1>3. row \in Rows /\ row.subject = calls[c].who.subject /\ ~row.admin
    BY <1>0, <1>1 DEF SSORow, Rows, Creates, Identities, Secret, Subject
  <1>4. k \in CallRecords
    BY <1>0, <1>1, <1>2, <1>3 DEF Synced, Insert, Creates, Syncs, CallRecords
  <1>5. /\ calls' \in [Requests -> CallRecords]
        /\ calls'[c] = k
        /\ \A d \in Requests \ {c} : calls'[d] = calls[d]
        /\ raced \subseteq raced' /\ raced' \subseteq Ids
        /\ (crowded => crowded') /\ crowded' \in BOOLEAN /\ GhostsSeen'
    BY <1>0, <1>2, <1>4, GoesFacts
  <1>6. PICK f \in [Ids -> Subject] : Owned(f) /\ \A d \in Requests : OwnedCall(f, calls[d])
    BY DEF AccountsInv, OwnersFixed
  <1>8. /\ IdsBelow' /\ ResetIsFinal' /\ RoleAsGranted'
        /\ \A j \in CallRecords : CallOK(j) => CallOK(j)'
    BY <1>2, <1>3, <1>5, Inserted
  <1>7. PICK g \in [Ids -> Subject] :
            /\ g[nextId] = row.subject
            /\ Owned(g)'
            /\ \A j \in CallRecords : BelowCall(j) /\ OwnedCall(f, j) => OwnedCall(g, j)
    BY <1>2, <1>3, <1>6, InsertedOwned
  <1>9. TypeOK'
    BY <1>0, <1>2, <1>3, <1>5, BoundsAssumption DEF TypeOK, Insert, Ids
  <1>10. OwnedCall(g, k)
    BY <1>1, <1>2, <1>3, <1>7 DEF Synced, OwnedCall, Insert
  <1>11. CallOK(k)'
    <2>1. nextId \in Ids /\ users'[nextId] = row /\ nextId' = nextId + 1
      BY <1>0, <1>2 DEF Insert, TypeOK
    <2>2. BelowCall(k)' /\ ResetCall(k)' /\ ActorCall(k)'
      BY <1>1, <2>1 DEF Synced, BelowCall, ResetCall, ActorCall, Ids
    <2>3. RoleCall(k)'
      BY <1>0, <1>1, <1>2, <2>1 DEF Synced, RoleCall, CallOK, Creates
    <2> QED
      BY <2>2, <2>3 DEF CallOK
  <1>12. ASSUME NEW d \in Requests, NEW j \in CallRecords, calls'[d] = j
         PROVE  CallOK(j)' /\ OwnedCall(g, j)
    <2>1. CASE d = c
      BY <1>5, <1>10, <1>11, <1>12, <2>1
    <2>2. CASE d # c
      <3>1. j = calls[d] /\ CallOK(j)
        BY <1>5, <1>12, <2>2 DEF AccountsInv
      <3> QED
        BY <1>6, <1>8, <1>7, <3>1 DEF CallOK
    <2> QED
      BY <2>1, <2>2
  <1> QED
    BY <1>5, <1>8, <1>7, <1>9, <1>12, Assembled
LEMMA CreateUserStep ==
    ASSUME AccountsInv, NEW c \in Requests, NEW row \in Rows, row.subject = Local,
           CreateUser(c, row)
    PROVE  AccountsInv'
  <1>0. TypeOK /\ Insert(row) /\ Goes(c, Idle)
        /\ UNCHANGED <<sessions, keys, cache, up, config, begun, granted>>
    BY DEF AccountsInv, CreateUser
  <1>1. /\ calls' \in [Requests -> CallRecords]
        /\ calls'[c] = Idle
        /\ \A d \in Requests \ {c} : calls'[d] = calls[d]
        /\ raced \subseteq raced' /\ raced' \subseteq Ids
        /\ (crowded => crowded') /\ crowded' \in BOOLEAN /\ GhostsSeen'
    BY <1>0, IdleOK, GoesFacts
  <1>2. PICK f \in [Ids -> Subject] : Owned(f) /\ \A d \in Requests : OwnedCall(f, calls[d])
    BY DEF AccountsInv, OwnersFixed
  <1>3. PICK g \in [Ids -> Subject] :
            /\ Owned(g)'
            /\ \A j \in CallRecords : BelowCall(j) /\ OwnedCall(f, j) => OwnedCall(g, j)
    BY <1>0, <1>2, InsertedOwned
  <1>4. /\ IdsBelow' /\ ResetIsFinal' /\ RoleAsGranted'
        /\ \A j \in CallRecords : CallOK(j) => CallOK(j)'
    BY <1>0, <1>1, Inserted
  <1>5. TypeOK'
    BY <1>0, <1>1, BoundsAssumption DEF TypeOK, Insert, Ids
  <1>6. ASSUME NEW d \in Requests, NEW j \in CallRecords, calls'[d] = j
        PROVE  CallOK(j)' /\ OwnedCall(g, j)
    <2>1. CASE d = c
      BY <1>1, <1>6, <2>1, IdleOK
    <2>2. CASE d # c
      <3>1. j = calls[d] /\ CallOK(j)
        BY <1>1, <1>6, <2>2 DEF AccountsInv
      <3> QED
        BY <1>2, <1>3, <1>4, <3>1 DEF CallOK
    <2> QED
      BY <2>1, <2>2
  <1> QED
    BY <1>1, <1>3, <1>4, <1>5, <1>6, Assembled

LEMMA StartStep ==
    ASSUME AccountsInv, Start
    PROVE  AccountsInv'
  <1>0. TypeOK /\ UNCHANGED <<sessions, keys, cache, config, calls, begun, granted, raced, crowded>>
    BY DEF AccountsInv, Start, ghosts
  <1>1. CASE UNCHANGED <<users, nextId>>
    <2>1. TypeOK'
      BY <1>0, <1>1 DEF TypeOK, Start
    <2> QED
      BY <1>0, <1>1, <2>1, OutsideStep
  <1>2. CASE Insert(LocalRow(AdminName, AdminPassword, TRUE))
    <2>1. PICK row : row = LocalRow(AdminName, AdminPassword, TRUE)
      OBVIOUS
    <2>2. Insert(row) /\ row \in Rows /\ row.subject = Local
      BY <1>2, <2>1, AdminAssumption DEF LocalRow, Rows, Subject
    <2>3. PICK f \in [Ids -> Subject] : Owned(f) /\ \A d \in Requests : OwnedCall(f, calls[d])
      BY DEF AccountsInv, OwnersFixed
    <2>4. PICK g \in [Ids -> Subject] :
              /\ Owned(g)'
              /\ \A j \in CallRecords : BelowCall(j) /\ OwnedCall(f, j) => OwnedCall(g, j)
      BY <1>0, <2>2, <2>3, InsertedOwned
    <2>5. /\ IdsBelow' /\ ResetIsFinal' /\ RoleAsGranted'
          /\ \A j \in CallRecords : CallOK(j) => CallOK(j)'
      BY <1>0, <2>2, Inserted
    <2>6. TypeOK' /\ GhostsSeen'
      <3>1. TypeOK'
        BY <1>0, <2>2, BoundsAssumption DEF TypeOK, Insert, Ids, Start
      <3>2. GhostsSeen'
        BY <1>0 DEF AccountsInv, GhostsSeen, RacedIn, CrowdedIn
      <3> QED
        BY <3>1, <3>2
    <2>7. ASSUME NEW d \in Requests, NEW j \in CallRecords, calls'[d] = j
          PROVE  CallOK(j)' /\ OwnedCall(g, j)
      <3>1. j = calls[d] /\ CallOK(j)
        BY <1>0, <2>7 DEF AccountsInv
      <3> QED
        BY <2>3, <2>4, <2>5, <3>1 DEF CallOK
    <2> QED
      BY <2>4, <2>5, <2>6, <2>7, Assembled
  <1> QED
    BY <1>1, <1>2 DEF Start, EnsureAdmin

LEMMA CreateSessionStep ==
    ASSUME AccountsInv, NEW c \in Requests, CreateSession(c)
    PROVE  AccountsInv'
  <1>0. /\ TypeOK /\ calls[c] \in SignIns /\ calls[c].step = "session" /\ CallOK(calls[c])
        /\ UNCHANGED <<users, nextId, keys, cache, up, config, begun, granted>>
        /\ Goes(c, Idle) /\ Exists(calls[c].user)
    BY CallTypes DEF CreateSession, At, AccountsInv, TypeOK
  <1>1. PICK s : /\ s = [id |-> s.id, user |-> calls[c].user, password |-> calls[c].password, by |-> calls[c].by]
                 /\ s.id \in SessionIds
                 /\ sessions' = sessions \union {s}
    BY DEF CreateSession
  <1>2. /\ s \in Sessions /\ s.user = calls[c].user /\ s.password = calls[c].password
        /\ s.by = calls[c].by /\ s.user \in Ids
    BY <1>0, <1>1 DEF Sessions, SignIns
  <1>3. /\ calls' \in [Requests -> CallRecords]
        /\ calls'[c] = Idle
        /\ \A d \in Requests \ {c} : calls'[d] = calls[d]
        /\ raced \subseteq raced' /\ raced' \subseteq Ids
        /\ (crowded => crowded') /\ crowded' \in BOOLEAN /\ GhostsSeen'
    BY <1>0, IdleOK, GoesFacts
  <1>4. TypeOK'
    BY <1>0, <1>1, <1>2, <1>3 DEF TypeOK
  <1>5. IdsBelow'
    BY <1>0, <1>1, <1>2 DEF AccountsInv, IdsBelow, Exists
  <1>6. ResetIsFinal'
    BY <1>0, <1>1, <1>2, <1>3 DEF AccountsInv, ResetIsFinal, CallOK, ResetCall, Unraced, Exists
  <1>7. RoleAsGranted'
    BY <1>0, <1>3 DEF AccountsInv, RoleAsGranted, Exists
  <1>8. PICK f \in [Ids -> Subject] : Owned(f) /\ \A d \in Requests : OwnedCall(f, calls[d])
    BY DEF AccountsInv, OwnersFixed
  <1>9. Owned(f)'
    BY <1>0, <1>1, <1>2, <1>8 DEF Owned, OwnedCall, Exists
  <1>10. ASSUME NEW d \in Requests, NEW k \in CallRecords, calls'[d] = k
         PROVE  CallOK(k)' /\ OwnedCall(f, k)
    <2>1. CASE d = c
      BY <1>3, <1>10, <2>1, IdleOK
    <2>2. CASE d # c
      <3>1. k = calls[d] /\ CallOK(k)
        BY <1>3, <1>10, <2>2 DEF AccountsInv
      <3>2. k.step = "save" /\ k.user = s.user => k.user \in raced
        BY <1>0, <1>2, <2>2, <3>1, Conflict DEF AccountsInv, Holding, Updating
      <3>3. ResetCall(k)'
        BY <1>0, <1>1, <1>3, <3>1, <3>2 DEF CallOK, ResetCall, Unraced, Exists
      <3>4. BelowCall(k)' /\ RoleCall(k)' /\ ActorCall(k)'
        BY <1>0, <1>3, <3>1 DEF CallOK, BelowCall, RoleCall, ActorCall, Unraced, Exists
      <3> QED
        BY <1>8, <3>1, <3>3, <3>4 DEF CallOK
    <2> QED
      BY <2>1, <2>2
  <1> QED
    BY <1>3, <1>4, <1>5, <1>6, <1>7, <1>9, <1>10, Assembled
LEMMA SyncStep ==
    ASSUME AccountsInv, NEW c \in Requests, Sync(c)
    PROVE  AccountsInv'
  <1>0. /\ TypeOK /\ calls[c] \in Syncs /\ calls[c].step = "sync" /\ CallOK(calls[c])
        /\ UNCHANGED <<nextId, sessions, keys, cache, up, config, begun>>
        /\ Exists(calls[c].user)
    BY CallTypes DEF Sync, At, AccountsInv, TypeOK
  <1>a. PICK call, k, u, role, row :
            call = calls[c] /\ u = call.user /\ role = call.who.role /\ row = call.row /\ k = AfterSync(call)
    OBVIOUS
  <1>1. /\ call = calls[c] /\ u = call.user /\ role = call.who.role /\ row = call.row /\ k = AfterSync(call)
        /\ call \in Syncs /\ u \in Ids /\ role \in Roles /\ row \in Rows
    BY <1>0, <1>a DEF Syncs, Identities
  <1>2. /\ users' = IF role # NoRole /\ role # row.admin
                    THEN [users EXCEPT ![u].admin = role] ELSE users
        /\ granted' = IF role = NoRole THEN granted ELSE [granted EXCEPT ![u] = role]
        /\ Goes(c, k)
    BY <1>1 DEF Sync
  <1>3. /\ k \in CallRecords
        /\ k.step \in {"session", "store"} /\ k.user = u
        /\ k.step = "session" => k.password = row.password
        /\ RoleCall(k)' /\ ActorCall(k)' /\ BelowCall(k)'
        /\ \A f \in [Ids -> Subject] : OwnedCall(f, call) => OwnedCall(f, k)
    <2>1. BelowCall(call)
      BY <1>0, <1>1 DEF CallOK
    <2>2. /\ k \in CallRecords
          /\ k.step \in {"session", "store"} /\ k.user = u
          /\ k.step = "session" => k.password = row.password
          /\ BelowCall(k)
          /\ \A f \in [Ids -> Subject] : OwnedCall(f, call) => OwnedCall(f, k)
      BY <1>1, <2>1, AfterSyncOK
    <2>3. RoleCall(k)' /\ ActorCall(k)'
      BY <2>2 DEF RoleCall, ActorCall
    <2>4. BelowCall(k)'
      BY <1>0, <2>2 DEF BelowCall
    <2> QED
      BY <2>2, <2>3, <2>4
  <1>4. /\ calls' \in [Requests -> CallRecords]
        /\ calls'[c] = k
        /\ \A d \in Requests \ {c} : calls'[d] = calls[d]
        /\ raced \subseteq raced' /\ raced' \subseteq Ids
        /\ (crowded => crowded') /\ crowded' \in BOOLEAN /\ GhostsSeen'
    BY <1>0, <1>2, <1>3, GoesFacts
  <1>5. users[u] \in Rows /\ row.admin \in BOOLEAN /\ u < nextId /\ u \in Ids /\ (role = NoRole \/ role \in BOOLEAN)
    BY <1>0, <1>1 DEF TypeOK, Exists, Rows, AccountsInv, IdsBelow, Roles
  <1>6. /\ users' \in [Ids -> Rows \union {Absent}]
        /\ \A v \in Ids : v # u => users'[v] = users[v]
        /\ users'[u] \in Rows
        /\ users'[u].subject = users[u].subject /\ users'[u].password = users[u].password
        /\ users'[u].admin = IF role # NoRole /\ role # row.admin THEN role ELSE users[u].admin
    <2>0. users \in [Ids -> Rows \union {Absent}]
      BY <1>0 DEF TypeOK
    <2>1. CASE role # NoRole /\ role # row.admin
      <3>1. PICK new : new = [users[u] EXCEPT !.admin = role]
        OBVIOUS
      <3>2. new \in Rows /\ new.subject = users[u].subject /\ new.password = users[u].password /\ new.admin = role
        BY <1>5, <2>1, <3>1 DEF Rows
      <3>3. users' = [users EXCEPT ![u] = new]
        BY <1>2, <2>1, <3>1
      <3> QED
        BY <1>5, <2>0, <2>1, <3>2, <3>3
    <2>2. CASE ~(role # NoRole /\ role # row.admin)
      BY <1>2, <1>5, <2>0, <2>2
    <2> QED
      BY <2>1, <2>2
  <1>7. /\ granted' \in [Ids -> BOOLEAN]
        /\ \A v \in Ids : v # u => granted'[v] = granted[v]
        /\ granted'[u] = IF role = NoRole THEN granted[u] ELSE role
    BY <1>0, <1>2, <1>5 DEF TypeOK
  <1>8. \A v \in Ids : /\ Exists(v)' <=> Exists(v)
                       /\ Exists(v) => /\ users'[v].subject = users[v].subject
                                       /\ users'[v].password = users[v].password
    BY <1>0, <1>1, <1>5, <1>6, ValuesAssumption DEF Exists
  <1>9. TypeOK'
    BY <1>0, <1>4, <1>6, <1>7 DEF TypeOK
  <1>10. IdsBelow'
    <2>1. \A v \in Ids : v >= nextId => v # u
      BY <1>0, <1>5, BoundsAssumption DEF Ids, TypeOK
    <2> QED
      BY <1>0, <1>7, <1>8, <2>1 DEF AccountsInv, IdsBelow, TypeOK, Sessions
  <1>11. ResetIsFinal'
    BY <1>0, <1>4, <1>8 DEF AccountsInv, ResetIsFinal, TypeOK, Sessions
  <1>12. RoleAsGranted'
    <2>1. ASSUME NEW v \in Ids, ManagesAdminRole, Exists(v), users[v].subject # Local, v \notin raced
          PROVE  users'[v].admin = granted'[v]
      <3>1. CASE v # u
        BY <1>6, <1>7, <2>1, <3>1 DEF AccountsInv, RoleAsGranted
      <3>2. CASE v = u
        <4>1. users[u].admin = row.admin /\ users[u].admin = granted[u]
          BY <1>0, <1>1, <2>1, <3>2 DEF CallOK, RoleCall, Unraced, AccountsInv, RoleAsGranted
        <4> QED
          BY <1>5, <1>6, <1>7, <3>2, <4>1
      <3> QED
        BY <3>1, <3>2
    <2> QED
      BY <1>0, <1>4, <1>8, <2>1 DEF RoleAsGranted
  <1>13. PICK f \in [Ids -> Subject] : Owned(f) /\ \A d \in Requests : OwnedCall(f, calls[d])
    BY DEF AccountsInv, OwnersFixed
  <1>14. Owned(f)'
    BY <1>0, <1>8, <1>13 DEF Owned
  <1>15. ResetCall(k)'
    BY <1>0, <1>1, <1>3, <1>4, <1>8 DEF ResetCall, CallOK, Unraced
  <1>16. ASSUME NEW d \in Requests, NEW j \in CallRecords, calls'[d] = j, d # c
         PROVE  CallOK(j)'
    <2>1. j = calls[d] /\ CallOK(j)
      BY <1>4, <1>16 DEF AccountsInv
    <2>2. j.step \in {"sync", "read", "end", "save"} /\ j.user = u => u \in raced
      BY <1>0, <1>1, <1>16, <2>1, Conflict DEF AccountsInv, Holding, Updating
    <2>3. BelowCall(j)'
      BY <1>0, <2>1 DEF CallOK, BelowCall
    <2>4. ResetCall(j)'
      BY <1>0, <1>4, <1>8, <2>1, CallFields DEF CallOK, ResetCall, Unraced
    <2>5. RoleCall(j)'
      BY <1>0, <1>4, <1>6, <1>7, <1>8, <2>1, <2>2, CallFields DEF CallOK, RoleCall, Unraced
    <2>6. ActorCall(j)'
      <3>1. CASE adminGroup
        BY <1>0, <2>1, <3>1 DEF CallOK, ActorCall
      <3>2. CASE ~adminGroup
        <4>1. users' = users
          BY <1>0, <1>1, <1>2, <3>2 DEF CallOK, RoleCall
        <4> QED
          BY <1>0, <1>4, <2>1, <4>1 DEF CallOK, ActorCall, Exists
      <3> QED
        BY <3>1, <3>2
    <2> QED
      BY <2>3, <2>4, <2>5, <2>6 DEF CallOK
  <1>17. ASSUME NEW d \in Requests, NEW j \in CallRecords, calls'[d] = j
         PROVE  CallOK(j)' /\ OwnedCall(f, j)
    <2>1. CASE d = c
      <3>1. j = k
        BY <1>4, <1>17, <2>1
      <3>2. CallOK(k)' /\ OwnedCall(f, k)
        BY <1>1, <1>3, <1>13, <1>15 DEF CallOK
      <3> QED
        BY <3>1, <3>2
    <2>2. CASE d # c
      BY <1>4, <1>13, <1>16, <1>17, <2>2
    <2> QED
      BY <2>1, <2>2
  <1> QED
    BY <1>4, <1>9, <1>10, <1>11, <1>12, <1>14, <1>17, Assembled
LEMMA DeleteUserStep ==
    ASSUME AccountsInv, NEW c \in Requests, NEW u \in Ids, DeleteUser(c, u)
    PROVE  AccountsInv'
  <1>0. /\ TypeOK /\ calls[c] \in Admins /\ Goes(c, Idle)
        /\ u # calls[c].actor
        /\ users' = [users EXCEPT ![u] = Absent]
        /\ sessions' = {s \in sessions : s.user # u}
        /\ keys' = [k \in KeyIds |-> IF keys[k] = u THEN NoOne ELSE keys[k]]
        /\ UNCHANGED <<nextId, cache, up, config, begun, granted>>
    BY CallTypes DEF DeleteUser, At, AccountsInv, TypeOK
  <1>1. /\ calls' \in [Requests -> CallRecords]
        /\ calls'[c] = Idle
        /\ \A d \in Requests \ {c} : calls'[d] = calls[d]
        /\ raced \subseteq raced' /\ raced' \subseteq Ids
        /\ (crowded => crowded') /\ crowded' \in BOOLEAN /\ GhostsSeen'
    BY <1>0, IdleOK, GoesFacts
  <1>2. /\ users' \in [Ids -> Rows \union {Absent}]
        /\ ~Exists(u)'
        /\ \A v \in Ids : v # u => users'[v] = users[v]
        /\ \A v \in Ids : Exists(v)' => v # u /\ Exists(v)
    BY <1>0 DEF TypeOK, Exists
  <1>3. TypeOK'
    BY <1>0, <1>1, <1>2 DEF TypeOK
  <1>4. IdsBelow'
    BY <1>0, <1>2 DEF AccountsInv, IdsBelow, Exists, TypeOK, Sessions
  <1>5. ResetIsFinal'
    BY <1>0, <1>1, <1>2 DEF AccountsInv, ResetIsFinal, Exists, TypeOK, Sessions
  <1>6. RoleAsGranted'
    BY <1>0, <1>1, <1>2 DEF AccountsInv, RoleAsGranted
  <1>7. PICK f \in [Ids -> Subject] : Owned(f) /\ \A d \in Requests : OwnedCall(f, calls[d])
    BY DEF AccountsInv, OwnersFixed
  <1>8. Owned(f)'
    BY <1>0, <1>2, <1>7 DEF Owned
  <1>9. ASSUME NEW d \in Requests, NEW k \in CallRecords, calls'[d] = k
        PROVE  CallOK(k)' /\ OwnedCall(f, k)
    <2>1. CASE d = c
      BY <1>1, <1>9, <2>1, IdleOK
    <2>2. CASE d # c
      <3>1. k = calls[d] /\ CallOK(k)
        BY <1>1, <1>9, <2>2 DEF AccountsInv
      <3>2. BelowCall(k)' /\ ResetCall(k)' /\ RoleCall(k)'
        BY <1>0, <1>1, <1>2, <3>1, CallFields DEF CallOK, BelowCall, ResetCall, RoleCall, Unraced
      <3>3. k.step \in {"admin", "read", "end", "save"} => crowded'
        <4>1. k.step \in {"admin", "read", "end", "save"} => CrowdedIn(calls)
          BY <1>0, <2>2, <3>1 DEF CrowdedIn, Administrating, Updating, Admins
        <4> QED
          BY <1>1, <4>1 DEF AccountsInv, GhostsSeen
      <3>4. ActorCall(k)'
        BY <3>1, <3>3 DEF CallOK, ActorCall
      <3> QED
        BY <1>7, <3>1, <3>2, <3>4 DEF CallOK
    <2> QED
      BY <2>1, <2>2
  <1> QED
    BY <1>1, <1>3, <1>4, <1>5, <1>6, <1>8, <1>9, Assembled
LEMMA SaveStep ==
    ASSUME AccountsInv, NEW c \in Requests, Save(c)
    PROVE  AccountsInv'
  <1>0. /\ TypeOK /\ calls[c] \in Saves /\ calls[c].step = "save" /\ CallOK(calls[c])
        /\ Goes(c, Idle)
        /\ UNCHANGED <<nextId, keys, cache, up, config, begun, granted>>
    BY CallTypes DEF Save, At, AccountsInv, TypeOK
  <1>a. PICK call, u, row : call = calls[c] /\ u = call.user /\ row = call.row
    OBVIOUS
  <1>1. /\ call = calls[c] /\ u = call.user /\ row = call.row
        /\ call \in Saves /\ call.step = "save" /\ CallOK(call) /\ u \in Ids /\ row \in Rows
        /\ u < nextId
        /\ users' = [users EXCEPT ![u] = row]
        /\ sessions' = sessions \ call.doomed
    BY <1>0, <1>a DEF Save, Saves, CallOK, BelowCall
  <1>2. /\ calls' \in [Requests -> CallRecords]
        /\ calls'[c] = Idle
        /\ \A d \in Requests \ {c} : calls'[d] = calls[d]
        /\ raced \subseteq raced' /\ raced' \subseteq Ids
        /\ (crowded => crowded') /\ crowded' \in BOOLEAN /\ GhostsSeen'
    BY <1>0, IdleOK, GoesFacts
  <1>3. /\ users' \in [Ids -> Rows \union {Absent}]
        /\ users'[u] = row /\ Exists(u)'
        /\ \A v \in Ids : v # u => users'[v] = users[v] /\ (Exists(v)' <=> Exists(v))
        /\ \A v \in Ids : Exists(v) => Exists(v)'
    BY <1>0, <1>1, ValuesAssumption DEF TypeOK, Exists
  <1>4. TypeOK'
    BY <1>0, <1>1, <1>2, <1>3 DEF TypeOK
  <1>5. IdsBelow'
    BY <1>0, <1>1, <1>3 DEF AccountsInv, IdsBelow, TypeOK, Sessions
  <1>6. ResetIsFinal'
    <2>1. ASSUME NEW s \in sessions', s.user \notin raced'
          PROVE  users'[s.user].password = s.password
      <3>0. s \in sessions /\ s \notin call.doomed /\ s.user \in Ids /\ s.user \notin raced
        BY <1>0, <1>1, <1>2, <2>1 DEF TypeOK, Sessions
      <3>1. CASE s.user = u
        BY <1>1, <1>3, <3>0, <3>1 DEF CallOK, ResetCall, Unraced
      <3>2. CASE s.user # u
        BY <1>3, <3>0, <3>2 DEF AccountsInv, ResetIsFinal
      <3> QED
        BY <3>1, <3>2
    <2>2. \A s \in sessions' : Exists(s.user)'
      BY <1>5 DEF IdsBelow
    <2> QED
      BY <2>1, <2>2 DEF ResetIsFinal
  <1>7. RoleAsGranted'
    <2>1. ASSUME NEW v \in Ids, ManagesAdminRole, Exists(v)', users'[v].subject # Local, v \notin raced
          PROVE  users'[v].admin = granted[v]
      <3>1. CASE v = u
        BY <1>1, <1>3, <2>1, <3>1 DEF CallOK, RoleCall, Unraced
      <3>2. CASE v # u
        BY <1>3, <2>1, <3>2 DEF AccountsInv, RoleAsGranted
      <3> QED
        BY <3>1, <3>2
    <2> QED
      BY <1>0, <1>2, <2>1 DEF RoleAsGranted
  <1>8. PICK f \in [Ids -> Subject] : Owned(f) /\ \A d \in Requests : OwnedCall(f, calls[d])
    BY DEF AccountsInv, OwnersFixed
  <1>9. Owned(f)'
    <2>1. row.subject = f[u]
      BY <1>0, <1>1, <1>8 DEF OwnedCall
    <2> QED
      BY <1>0, <1>1, <1>3, <1>8, <2>1 DEF Owned
  <1>10. ASSUME NEW d \in Requests, NEW k \in CallRecords, calls'[d] = k
         PROVE  CallOK(k)' /\ OwnedCall(f, k)
    <2>1. CASE d = c
      BY <1>2, <1>10, <2>1, IdleOK
    <2>2. CASE d # c
      <3>1. k = calls[d] /\ CallOK(k)
        BY <1>2, <1>10, <2>2 DEF AccountsInv
      <3>2. k.step \in {"sync", "session", "read", "end", "save"} /\ k.user = u => u \in raced
        BY <1>0, <1>1, <2>2, <3>1, Conflict DEF AccountsInv, Holding, Updating
      <3>3. k.step \in {"sync", "session", "store", "key", "read", "end", "save"} => k.user \in Ids
        BY CallFields
      <3>4. BelowCall(k)'
        BY <1>0, <3>1 DEF CallOK, BelowCall
      <3>5. ResetCall(k)'
        BY <1>1, <1>2, <1>3, <3>1, <3>2, <3>3 DEF CallOK, ResetCall, Unraced
      <3>6. RoleCall(k)'
        BY <1>0, <1>1, <1>2, <1>3, <3>1, <3>2, <3>3 DEF CallOK, RoleCall, Unraced
      <3>7. k.step \in {"admin", "read", "end", "save"} => crowded'
        <4>1. k.step \in {"admin", "read", "end", "save"} => CrowdedIn(calls)
          BY <1>0, <2>2, <3>1 DEF CrowdedIn, Administrating, Updating
        <4> QED
          BY <1>2, <4>1 DEF AccountsInv, GhostsSeen
      <3>8. ActorCall(k)'
        BY <3>1, <3>7 DEF CallOK, ActorCall
      <3> QED
        BY <1>8, <3>1, <3>4, <3>5, <3>6, <3>8 DEF CallOK
    <2> QED
      BY <2>1, <2>2
  <1> QED
    BY <1>2, <1>4, <1>5, <1>6, <1>7, <1>9, <1>10, Assembled
-----------------------------------------------------------------------------
\* The first state: nothing is in flight and nobody is signed in.
LEMMA InitInv == Init => AccountsInv
  <1> SUFFICES ASSUME Init PROVE AccountsInv
    OBVIOUS
  <1>0. FirstRows \subseteq Rows
    BY FirstRowsAssumption
  <1>1. /\ users \in [Ids -> Rows \union {Absent}]
        /\ \A u \in Ids : Exists(u) => users[u] \in Rows /\ u < nextId
        /\ nextId \in 1..(MaxUsers + 1)
    BY <1>0 DEF Init, Exists
  <1>2. granted \in [Ids -> BOOLEAN]
    BY <1>1 DEF Init, Rows
  <1>3. TypeOK
    BY <1>1, <1>2, IdleOK DEF Init, TypeOK
  <1>4. IdsBelow
    <2>1. ASSUME NEW u \in Ids, u >= nextId
          PROVE  granted[u] = FALSE
      <3>1. ~Exists(u)
        BY <1>1, <2>1, BoundsAssumption DEF Ids
      <3> QED
        BY <3>1 DEF Init
    <2> QED
      BY <1>1, <2>1 DEF Init, IdsBelow
  <1>5. GhostsSeen
    BY DEF Init, GhostsSeen, RacedIn, CrowdedIn, Idle, Holding, Updating, Administrating
  <1>6. ResetIsFinal /\ RoleAsGranted
    BY <1>1, <1>2 DEF Init, ResetIsFinal, RoleAsGranted, Rows
  <1>7. OwnersFixed
    <2>1. PICK f : f = [u \in Ids |-> IF Exists(u) THEN users[u].subject ELSE Local]
      OBVIOUS
    <2>2. f \in [Ids -> Subject] /\ Owned(f)
      BY <1>1, <2>1 DEF Init, Owned, Rows, Subject
    <2>3. \A c \in Requests : OwnedCall(f, calls[c])
      BY DEF Init, Idle, OwnedCall
    <2> QED
      BY <2>2, <2>3 DEF OwnersFixed
  <1>8. \A c \in Requests : CallOK(calls[c])
    BY DEF Init, Idle, CallOK, BelowCall, ResetCall, RoleCall, ActorCall
  <1> QED
    BY <1>3, <1>4, <1>5, <1>6, <1>7, <1>8 DEF AccountsInv

LEMMA NextInv == AccountsInv /\ [Next]_vars => AccountsInv'
  <1> SUFFICES ASSUME AccountsInv, [Next]_vars PROVE AccountsInv'
    OBVIOUS
  <1>1. CASE UNCHANGED vars
    BY <1>1, StutterStep
  <1>2. CASE Start \/ Stops
    BY <1>2, StartStep, StopsStep
  <1>3. ASSUME NEW c \in Requests, SignIn(c)
        PROVE  AccountsInv'
    BY <1>3, LoginStep, IdentifiedStep, CreateStep, CreateTakenStep, FindAgainStep, SyncStep,
       SyncGoneStep, CreateSessionStep, StoreStep DEF SignIn
  <1>4. ASSUME NEW c \in Requests, Administer(c)
        PROVE  AccountsInv'
    <2>1. CASE \E u \in Ids : AdminRequest(c, u) \/ DeleteUser(c, u) \/ CreateToken(c, u) \/ CreateAPIKey(c, u)
      BY <2>1, AdminRequestStep, DeleteUserStep, CreateTokenStep, CreateAPIKeyStep
    <2>2. CASE \E name \in Names, password \in Passwords, admin \in BOOLEAN :
                 CreateUser(c, LocalRow(name, password, admin))
      <3>1. PICK name \in Names, password \in Passwords, admin \in BOOLEAN :
                CreateUser(c, LocalRow(name, password, admin))
        BY <2>2
      <3>2. PICK row : row = LocalRow(name, password, admin)
        OBVIOUS
      <3>3. row \in Rows /\ row.subject = Local
        BY <3>2 DEF LocalRow, Rows, Secret, Subject
      <3> QED
        BY <3>1, <3>2, <3>3, CreateUserStep
    <2>3. CASE \E u \in Ids, admin \in BOOLEAN, password \in Passwords \union {Keep} :
                 Update(c, u, admin, password)
      BY <2>3, UpdateStep
    <2>4. CASE ReadRow(c) \/ EndSessions(c) \/ Save(c)
      BY <2>4, ReadRowStep, EndSessionsStep, SaveStep
    <2>5. CASE \E s \in sessions : RevokeToken(c, s)
      BY <2>5, RevokeTokenStep
    <2>6. CASE \E k \in KeyIds : InsertKey(c, k) \/ DeleteAPIKey(c, k)
      BY <2>6, KeySteps
    <2> QED
      BY <1>4, <2>1, <2>2, <2>3, <2>4, <2>5, <2>6 DEF Administer
  <1>5. CASE \E c \in Requests : Fails(c)
    BY <1>5, FailsStep
  <1>6. CASE \E s \in sessions : SessionEnds(s)
    BY <1>6, SessionEndsStep
  <1>7. CASE \E e \in cache : Evict(e)
    BY <1>7, EvictStep
  <1> QED
    BY <1>1, <1>2, <1>3, <1>4, <1>5, <1>6, <1>7 DEF Next

(***************************************************************************)
(* The invariant the other theorems rest on: what every request in flight  *)
(* read of an account still holds, unless the account is in `raced`, and   *)
(* no id ever changes its SSO subject.                                     *)
(***************************************************************************)
THEOREM AccountsInvariant == Spec => []AccountsInv
  <1>1. Init => AccountsInv
    BY InitInv
  <1>2. AccountsInv /\ [Next]_vars => AccountsInv'
    BY NextInv
  <1> QED
    BY <1>1, <1>2, PTL DEF Spec

(***************************************************************************)
(* Every table, cached token and request in flight keeps its form, and no  *)
(* first sign-in tries a third name (oidc.go:351).                         *)
(***************************************************************************)
THEOREM AccountsTypeCorrect == Spec => []TypeOK
  <1>1. AccountsInv => TypeOK
    BY DEF AccountsInv
  <1> QED
    BY <1>1, AccountsInvariant, PTL

(***************************************************************************)
(* A session or access token of an SSO subject leads to an account of that *)
(* subject, for any number of concurrent sign-ins, updates and deletions.  *)
(***************************************************************************)
THEOREM SignInsFindTheirAccount == Spec => []SignedInAsSubject
  <1>1. AccountsInv => SignedInAsSubject
    <2> SUFFICES ASSUME AccountsInv PROVE SignedInAsSubject
      OBVIOUS
    <2>1. PICK f \in [Ids -> Subject] : Owned(f)
      BY DEF AccountsInv, OwnersFixed
    <2> QED
      BY <2>1 DEF AccountsInv, IdsBelow, TypeOK, Sessions, Owned, SignedInAsSubject
  <1> QED
    BY <1>1, AccountsInvariant, PTL

(***************************************************************************)
(* A password reset that no other request on the account overlapped leaves *)
(* no session from before it.                                              *)
(***************************************************************************)
THEOREM ResetEndsSessions == Spec => []ResetIsFinal
  <1>1. AccountsInv => ResetIsFinal
    BY DEF AccountsInv
  <1> QED
    BY <1>1, AccountsInvariant, PTL

(***************************************************************************)
(* Where the provider manages it, an SSO account has the role granted last *)
(* unless an update or another sign-in overlapped.                         *)
(***************************************************************************)
THEOREM ManagedRoleHolds == Spec => []RoleAsGranted
  <1>1. AccountsInv => RoleAsGranted
    BY DEF AccountsInv
  <1> QED
    BY <1>1, AccountsInvariant, PTL
\* An administrator's request leaves its own actor in the role.
LEMMA ActorStays ==
    ASSUME AccountsInv, ~adminGroup, ~crowded, NEW c \in Requests,
           calls[c].step \in {"admin", "save"},
           NEW u \in Ids, u = calls[c].actor => calls[c].step = "save" /\ u = calls[c].user,
           NEW row, users' = [users EXCEPT ![u] = row],
           calls[c].step = "save" => u = calls[c].user /\ row = calls[c].row /\ row \in Rows
    PROVE  HasAdmin'
  <1>1. PICK a \in Ids : a = calls[c].actor
    BY CallFields DEF AccountsInv, TypeOK
  <1>2. /\ Exists(a) /\ users[a].admin
        /\ calls[c].step = "save" /\ a = u => row.admin
    BY <1>1 DEF AccountsInv, CallOK, ActorCall
  <1>3. users \in [Ids -> Rows \union {Absent}]
    BY DEF AccountsInv, TypeOK
  <1>4. Exists(a)' /\ users'[a].admin
    BY <1>1, <1>2, <1>3, ValuesAssumption DEF Exists
  <1> QED
    BY <1>4 DEF HasAdmin

LEMMA InsertKeepsAdmin ==
    ASSUME AccountsInv, HasAdmin, NEW row, Insert(row)
    PROVE  HasAdmin'
  <1>1. PICK u \in Ids : Exists(u) /\ users[u].admin
    BY DEF HasAdmin
  <1>2. u # nextId /\ users' = [users EXCEPT ![nextId] = row] /\ users \in [Ids -> Rows \union {Absent}]
    BY <1>1, BoundsAssumption DEF AccountsInv, IdsBelow, TypeOK, Insert, Ids
  <1>3. users'[u] = users[u]
    BY <1>2
  <1> QED
    BY <1>1, <1>3 DEF HasAdmin, Exists

LEMMA AdminKept ==
    ASSUME AccountsInv, [Next]_vars, HasAdmin, ~adminGroup, ~crowded'
    PROVE  HasAdmin'
  <1>1. CASE users' = users
    BY <1>1 DEF HasAdmin, Exists
  <1>2. CASE \E row : Insert(row)
    BY <1>2, InsertKeepsAdmin
  <1>3. ASSUME NEW c \in Requests, Sync(c)
        PROVE  users' = users
    <2>1. calls[c].step = "sync" /\ RoleCall(calls[c])
      BY <1>3 DEF Sync, At, AccountsInv, CallOK
    <2>2. calls[c].who.role = NoRole
      BY <2>1 DEF RoleCall
    <2> QED
      BY <1>3, <2>2 DEF Sync
  <1>4. ASSUME NEW c \in Requests, NEW u \in Ids, DeleteUser(c, u)
        PROVE  HasAdmin'
    <2>1. calls[c].step = "admin" /\ ~crowded /\ u # calls[c].actor /\ users' = [users EXCEPT ![u] = Absent]
      BY <1>4 DEF DeleteUser, At, Goes
    <2> QED
      BY <2>1, ActorStays
  <1>5. ASSUME NEW c \in Requests, Save(c)
        PROVE  HasAdmin'
    <2>1. calls[c].step = "save" /\ calls[c] \in Saves /\ ~crowded
      BY <1>5, CallTypes DEF Save, At, Goes, AccountsInv, TypeOK
    <2>2. PICK u, row : u = calls[c].user /\ row = calls[c].row
      OBVIOUS
    <2>3. u \in Ids /\ row \in Rows /\ users' = [users EXCEPT ![u] = row]
      BY <1>5, <2>1, <2>2 DEF Save, Saves
    <2> QED
      BY <2>1, <2>2, <2>3, ActorStays
  <1>6. CASE Start
    BY <1>1, <1>2, <1>6 DEF Start, EnsureAdmin
  <1>7. ASSUME NEW c \in Requests, SignIn(c)
        PROVE  HasAdmin'
    <2>1. CASE Create(c)
      BY <1>2, <2>1 DEF Create
    <2>2. CASE Sync(c)
      BY <1>1, <1>3, <2>2
    <2>3. CASE ~Create(c) /\ ~Sync(c)
      <3>1. users' = users
        BY <1>7, <2>3 DEF SignIn, Login, Identified, CreateTaken, FindAgain, SyncGone,
           CreateSession, Store, tables
      <3> QED
        BY <1>1, <3>1
    <2> QED
      BY <2>1, <2>2, <2>3
  <1>8. ASSUME NEW c \in Requests, Administer(c)
        PROVE  HasAdmin'
    <2>1. CASE \E row : CreateUser(c, row)
      BY <1>2, <2>1 DEF CreateUser
    <2>2. CASE (\E u \in Ids : DeleteUser(c, u)) \/ Save(c)
      BY <1>4, <1>5, <2>2
    <2>3. CASE ~((\E row : CreateUser(c, row)) \/ (\E u \in Ids : DeleteUser(c, u)) \/ Save(c))
      <3>1. users' = users
        BY <1>8, <2>3 DEF Administer, AdminRequest, CreateToken, CreateAPIKey, Update, ReadRow,
           EndSessions, RevokeToken, InsertKey, DeleteAPIKey, tables
      <3> QED
        BY <1>1, <3>1
    <2> QED
      BY <2>1, <2>2, <2>3
  <1>9. CASE Stops \/ (\E c \in Requests : Fails(c)) \/ (\E s \in sessions : SessionEnds(s))
             \/ (\E e \in cache : Evict(e)) \/ UNCHANGED vars
    <2>1. users' = users
      BY <1>9 DEF Stops, Fails, SessionEnds, Evict, vars, tables
    <2> QED
      BY <1>1, <2>1
  <1> QED
    BY <1>6, <1>7, <1>8, <1>9 DEF Next

(***************************************************************************)
(* Where no group grants the role, there is always an administrator once   *)
(* there is one, as long as administrators' requests don't overlap.        *)
(***************************************************************************)
THEOREM LastAdminStays == Spec => AdminRemains
  <1>1. AccountsInv /\ [Next]_vars => [HasAdmin /\ ~adminGroup /\ ~crowded' => HasAdmin']_vars
    BY AdminKept
  <1> QED
    BY <1>1, AccountsInvariant, PTL DEF Spec, AdminRemains
=============================================================================
