# TLA+ models of go-unit-mangement

This directory holds TLA+ models of the server in `src/`, TLC configurations that
model-check them on small instances, and proofs checked by TLAPS. The server keeps a
table of tracked units with their positions, pushes every change to web clients over
WebSockets, and mirrors the units of other instances.

Contents: [parts of the system](#the-system) ·
[modules](#modules-and-how-they-correspond-to-the-code) ·
[runs](#runs) · [proofs](#proofs) · [findings](#where-code-and-documentation-differ) ·
[not modelled](#what-is-not-modelled) · [plan](#plan)

## The system

| part | source | state | operations | talks to |
|---|---|---|---|---|
| unit store | `internal/units/units.go`, `sync.go`, schema in `internal/models` | tables `units`, `unit_positions` | create, update, patch, set position, delete; upsert and delete of mirrored units; history cleanup; backfill at a start | publishes to the event stream; called by the HTTP handlers and the sync workers |
| unit event stream | `internal/units/events.go`, `internal/server/unit_events.go`, `server.go` | set of subscriber channels with 64 events each; one handler per WebSocket; the shutdown channel | publish, subscribe, cancel, drop; write, ping, session check, close | web clients and the sync workers of other instances |
| sync manager | `internal/remotesync/manager.go`, `logs.go` | table `sync_remotes`; running workers, their statuses and logs | run, reconcile, trigger, stop; create, update, delete a remote | starts and stops workers |
| sync worker | `internal/remotesync/worker.go`, `client.go` | stream connection, kick channel | full sync, listen, apply an event | a remote's API; `UpsertSynced`, `DeleteSynced` |
| accounts | `internal/auth`, `internal/server/user_handlers.go`, `auth_handlers.go` | users, groups, sessions, API keys, OIDC states, token cache | login, logout, SSO sign-in, create/update/delete a user, revoke, clean up | every authenticated handler; the event stream's session check |
| login throttle | `internal/server/ratelimit.go`, `proxy.go` | failures per address and per user | check, record, forget; find the client's address | the login handler |
| server identity | `internal/serverid`, `internal/serverkey` | a UUID setting, a key pair on disk | ensure, load | start of the process |
| settings, audit log | `internal/settings`, `internal/audit` | one row each, appended rows | update; record, clean up | HTTP handlers |
| web client | `src/frontend/src` | query cache of the unit list | fetch, apply an event, refetch on reconnect | unit API and event stream |

What is hard, and what would make each part correct:

* **Unit store.** A mutating call is atomic only up to its commit; it then reads the row
  again and publishes, while other calls, a cleanup or a crash come in between. Correct
  means: the table keeps its constraints, mirrored units are changed by their own remote
  alone, every change is announced by somebody, and the history backs the current
  position whatever order the measurements arrive in.
* **Event stream.** A slow client must never block a publisher or go on with a gap; two
  parties may end one subscription; a shutdown waits for every stream. Correct means a
  gap-free prefix of the events per client and termination.
* **Sync manager.** The set of running workers must follow the configured remotes, with
  at most one worker per remote and none after the shutdown, while requests, the periodic
  reconcile and the shutdown overlap.
* **Sync worker.** Snapshots and queued stream events of another instance are applied to
  a table with unique names. Correct means convergence once the remote is quiet, and
  nothing deleted that a failed listing does not show.
* **Accounts.** Checks and writes are separate statements. Correct means an administrator
  remains, revoked access ends and no account is written over.
* **Login throttle, identity, web client.** Counting at a window's boundary, crashes
  between two writes, and answers that overwrite newer events.

`PROJECT.json` lists these hazards at their lines, with the properties that cover them, or
with a note where none does.

## Modules and how they correspond to the code

### `UnitStore`

Units, their history and the change events. State: `units` (a row or `Absent` per id) and
`history` (entries with ascending ids) are the two tables; `remotes` are the rows of
`sync_remotes` that still exist. `calls[c]` is what thread `c` has left to do after its
commit, the one piece of state a running call keeps. `feed[id]` is the last event
published about a unit, which is what a client that keeps up shows, with the owner (`syncedFrom`)
it names. `commits`, `used`,
`version`, `best`, `lost` and `overlapped` are ghosts: numbers of transactions, ids ever used, the last
transaction on each unit, the event that shows the newest version, units whose newest
change was lost to a failed read, and units whose newest change was committed while another call
on them had not published. No guard reads a ghost but the bound on `commits` and
the freshness of a minted UUIDv7 (`used`).

| action | code |
|---|---|
| `Create`, `Update`, `SetPosition`, `Delete` | `Service.Create`, `Update`/`Patch` (with the field sets that the PUT and PATCH handlers build), `SetPosition`, `Delete`, up to the commit |
| `CreateSynced`, `UpdateSynced`, `DeleteSynced` | `UpsertSynced`, `DeleteSynced` |
| `GetRow`, `GetMissing`, `GetFails` | the `Get` after the commit of `Patch` and `UpsertSynced` |
| `Publish` | `Broker.Publish` at the end of a call |
| `DeleteRemote` | `ON DELETE SET NULL` when `Manager.Delete` removes a remote |
| `CleanupHistory` | one tick of `Service.CleanupHistory` |
| `Restart` | a crash, and the backfill of `database.Connect` |

One action is one transaction: PostgreSQL's row lock (`FOR UPDATE`) and the unique index on
`units.name` make it atomic against the others on the same unit or name. A call that
returns an error before its commit, or that finds nothing changed, changes no variable and
is a stuttering step. Data is abstracted to what the properties tell apart: a name, a label
(symbol and tactical name after normalisation) and a place are model values; a timestamp is
an integer that the database rounds down to a multiple of `Precision`, since a client may
send more digits than the column keeps. `Patch` compares the stored position with the
submitted one, as the code does, so rounding is visible in the model.

### `FeedPromise`, `EventBroker`

`FeedPromise` is what a subscription promises: every event from the subscription on, once
and in order, until the stream ends; an event may be withheld only by ending the stream.

`EventBroker` models the code that keeps it: `Publish`, `Subscribe`, `Unsubscribe` (the
deferred cancel) are the broker's operations, atomic under its mutex. `registered` is
`Broker.subs`, `buf[s]` the channel's content, `closes[s]` how often the channel was closed
(twice would panic). The handler is a small state machine per stream:

    new --Subscribe--> upgrade --Upgrade--> select <--Receive / Written--> writing
         each of the last three --one of StreamEnds--> ending --Unsubscribe--> ended

`StreamEnds` has one action per reason the code logs: channel closed ("too slow"), client
or ping gone, shutdown, session ended, failed upgrade, failed write. `Cap` is
`subscriberBuffer`. Events are numbers in the order of publication; `start`, `got` record
what a client saw. The refinement maps a stream to "open" from its subscription until its
handler leaves the loop.

`UnitStore` hands its events over in `Publish`; `EventBroker` starts there. The two are
separate modules because nothing flows back.

### `SyncManager`

The workers' life cycle. `table` is `sync_remotes`, of which a worker's URL and interval are
one value (`Configs`) and the name is left out. `workers` is `Manager.workers`; `live` are the
workers whose goroutine has not ended (a worker leaves it when its `done` channel closes), with
`canceled`, `fresh`, `busy`, `kicked` for their contexts, first pass, current pass and trigger
channel. A worker is identified by its remote, its settings and its number among that remote's
workers. `pc[t]` follows a thread through `reconcile`:

    lock --Lock--> list --List--> stop --Stop--> wait --Wait--> start --Start--> back
                        --ListFails--> back

`lock` is `reconcileMu`. The map's own lock `mu` is not a variable: it is held for exactly
one of these steps at a time. `Main` is the goroutine of `Manager.Run`; once the process is
told to stop (`Signal`) it goes through `StopAll`, `CancelAll` and `RunReturns`, the three parts
of `stopAll`. Requests may come after the signal, as the HTTP server lets running ones finish.
`Trigger` looks a worker up, `Kick` writes to its channel. `SyncManager` leaves out what
a pass does; deleting a remote's row has its effect on the units in `UnitStore.DeleteRemote`.

### `Mirror`

What sync workers do to the tables of two instances. `Nodes` are instances, an edge `<<n, r>>`
is n's worker for its remote r. `units[n]` is the table of n: name, owner and the number of the
client's write that the row stems from (`ver`, a ghost). `call[t]` is a committed change that
its caller, a client or a worker, has not announced yet; `pass[w]` is a full pass with the list
it read at its start; `stream`, `queue[w]` and `hand[w]` are the WebSocket, the events between
the remote's `Publish` and the worker, and the event a worker has read but not yet applied.

| action | code |
|---|---|
| `Create`, `Rename`, `Delete`, `ReadBack`, `Publish`, `Lose` | the `units.Service` calls of the remote's (and the follower's) own users |
| `BeginPass`, `ListFails`, `Upsert`, `UpsertFails`, `DeleteVanished`, `PassEnds`, `PassFails` | `syncOnce`, one database call at a time |
| `Connect`, `Break`, `Receive` | `listen`, `readEvents` |
| `Apply`, `ApplyFails` | `apply` |
| `Tick`, `WorkerRestarts` | the poll interval or a request; a crash or `reconcile` |

`worker.mu` is not a variable: a pass, or an event being applied, is under way exactly if
`MuFree` is false. A worker's own change is announced to the streams of *its* instance, so
chains and cycles of instances are instances of the module. A name stands for all of a unit's
fields, since it is the one with a constraint; `Rename` is any change of a unit.

### `CopyPromise`, `MirrorHistory`

`CopyPromise` is what one sync remote promises of its units: a unit's copy is at every time some
state the unit had at its instance, whole, and it goes only if the unit went there. It may lag
behind and go back. `MirrorHistory` is `Mirror` with a history variable `past`, the states each unit
had on each instance that somebody follows; `Remember` extends it in every step and no step reads
it. For each worker w, `Copy(w)` maps the remote's table to `source`, its past to `past`, and the
rows that w mirrors to `copy`; a local unit, or one mirrored from somebody else, is no copy of this
remote's. `Shown` is a row without its owner, which is all that differs between original and copy.
A write to the remote's table is a `Change`, an upsert or deletion by w a `Mirror`, and every other
step - lists, events, failures, restarts, the other workers - changes nothing in it. `KeepsCopy` is
`Copy(w)!Spec` for every w, with the quantifier inside so that TLC takes it.

### `Accounts`

Users, sessions, API keys, the cache of verified access tokens, and requests that run side by
side over them. One action is one SQL statement, or the last statement of a transaction with
its commit. `calls[c]` is what request c has read so far; it is a record of its `step`:

    password sign-in     idle --Login--> session --CreateSession--> idle
    SSO, access token    idle --Identified--> create --CreateTaken--> again --FindAgain--> ...
                                          \-> sync (--Create--> sync) --Sync--> session | store
    administrator        idle --AdminRequest--> admin --> one of the handlers' calls
    update               admin --Update--> read --ReadRow--> end --EndSessions--> save --Save--> idle

`Locked` are the rows an open update has deleted, which PostgreSQL keeps locked. `Start` makes
sure of an administrator (`EnsureAdmin`), `Stops` ends the process at any point, and `Fails`
any request. `login` (a login provider is configured) and `adminGroup` (`OIDC_ADMIN_GROUP` is set)
are the configuration, which any start may have: a sign-in asserts the role where both hold, which is
also what locks it against `Update` (`ManagesAdminRole`), an access token where the group is set
(`Verified`). Passwords stand for their hashes; a session remembers, as ghosts, the password it
was made under and whom the provider vouched for. `raced` and `crowded` are ghosts that name
the overlaps in which three of the properties are known not to hold (below).

### `LoginThrottle`

`byAddress` and `byUser` are the two `failureLimiter` tables. Times are ages in ticks, and what
has left the window has age `Window`, so the clock needs no bound. An attempt goes through
`Arrive`, `CheckAddress`, `Admit` or `Refuse`, `Verify`, then `FailAddress` and `FailUser`, or
`Succeed`, or `LoginError`; attempts interleave between these steps, since a limiter's mutex
covers one of them only. `ClientAddress` and `Forwarded` are `realIP` and `forwardedClient`;
`Routes` are the ways a request takes to the server: directly, through trusted proxies that append
to what the client forged in `X-Forwarded-For`, or through one that sets `X-Real-IP` only and passes
the client's own `X-Forwarded-For` on. A client may have an address in a trusted range, too. `origin`
is a ghost: the address an attempt comes from where the headers cannot be forged on its way, `Junk`
otherwise. `addressLog` and `userLog` are ghosts that record every failure in
the window, where the code keeps the newest `Limit`.

### `ServerIdentity`

The three files of the keys directory and a start that makes sure of them step by step. A file
is absent, torn (truncated by `os.WriteFile`, not yet written) or complete; the process may end
at any step (`Dies`) and starts again with what it finds. `Order` and `After` are the sequences
in which `EnsureKeyPair` writes its files and `run` calls the two packages. `RegisterShown` and
`RegisterFiles` are administrators of other instances, who copy the identity from the Sync page
or from the files. What is lost after a power failure because nothing is synced to disk is left
out: a process that dies leaves its completed writes behind.

### `MC` and proof modules

`MCUnitStore`, `MCMirror`, `MCAccounts` and `MCLoginThrottle` add values of constants and
symmetry sets for TLC. `UnitStoreProofs`, `EventBrokerProofs`, `SyncManagerProofs`,
`MirrorProofs`, `MirrorHistoryProofs`, `AccountsProofs`, `LoginThrottleProofs` and
`ServerIdentityProofs` hold the
theorems about the modules they are named after.

Definitions marked *Mutant* in a comment are plausible mistakes in the definition that
follows them. Putting one in place of the original makes TLC report the property that
`PROJECT.json` pairs it with; nothing else uses them.

## Runs

| run | instance | shows |
|---|---|---|
| `UnitStoreSerial` | 2 units, 2 names, 2 places, times 0..2 rounded to multiples of 2, cutoffs 1 and 3, 1 remote, 1 caller, 4 commits | `NewestBacksPosition`, `NewestNeverRegresses` |
| `UnitStoreConcurrent` | 2 units, 2 names, 2 labels, 2 remotes, 3 callers, 3 commits | `TableConsistent`, `OnlyOwnerWrites`, `EveryChangeAnnounced`, `NewestEventTellsTruth`, `FeedEndsInOrder` |
| `UnitHistoryClaim` | 1 unit, times 0..1 | violation, see below |
| `UnitFeedClaim` | 1 unit, 2 callers | violation, see below |
| `EventBroker` | 2 streams, buffer of 1, 3 events | `GapFree`, `NoPanic`; `ShutdownEndsStreams`, `RevokedEnds`, `KeepsPromise` under fairness |
| `SyncManager` | 1 remote, 2 settings, `Run` and 1 request thread, 2 writes | `OneWorkerPerRemote`, `WorkersInHand`, `ReconcileExact`, `RequestRemembered`; `WorkersFollowTable`, `RunReturnsInTheEnd`, `TriggerHonoured` under fairness |
| `SyncManagerClaim` | 1 remote, 1 request thread, 1 write | violation, see below |
| `Mirror` | b mirrors a; 2 units, 2 names, 1 client, a buffer of 1, 2 writes | `KeepsCopy`, `PassNeverRegresses`; `MirrorCatchesUp` under fairness |
| `MirrorClaim` | a and b mirror each other, 1 unit, 1 write | violation, see below |
| `Accounts` | 2 requests at once, 3 in all, 3 accounts, 2 names and passwords, 1 issuer and subject, 2 live sessions, 1 API key; any table of a local administrator and an SSO account (plain, or an administrator with a password), any configuration at the start | `SignedInAsSubject`, `ResetIsFinal`, `RoleAsGranted`, `AdminRemains` |
| `LoginThrottle` | 2 attempts at once, 1 client outside of the trusted range and 1 on the host of the 1 proxy, 1 username, a limit and a window of 2, sweep above 1 key | `ThrottleExact`, `WindowBounded`, `CountedAtOrigin`; `BlockEnds` under fairness |
| `ServerIdentity` | 3 key pairs, 2 UUIDs | `PublicMatchesPrivate`, `RegistrationHolds`, `RefusedOnlyIfCutShort` |

Run one with `tlc -config UnitStoreSerial.cfg MCUnitStore`; the other configurations go with the
`MC` module of their name, or where there is none (`EventBroker`, `SyncManager`,
`ServerIdentity`) with the module itself. `MCMirror` extends `MirrorHistory`, so its two runs have
the history variable.

*Bounds.* `MaxCommits` bounds the transactions, restarts included. Four are enough for a
unit to get a position, get an earlier one, have its history cleaned up and restart; three
are enough for every pair of calls on one unit plus the call that prepares it. Two units
are the fewest that compete for a name, two remotes the fewest that compete for a unit,
three callers the fewest with one that overtakes two. Times 0..2 with a precision of 2
contain a timestamp that is rounded, one that is not, and ties. A buffer of 1 and
3 events fill it, overflow it, and leave an event published after the drop.
In `SyncManager` `Run` and one request are two threads that reconcile at once; two writes
restart a worker, or create and delete one, while both are under way. Remotes influence each
other only by waiting for one lock, so one is enough; the theorems hold for any number.
In `Mirror` two writes delete a unit and create another under its name, or rename one twice, while
a pass over the old list and an event of the first write are both under way; a buffer of 1 is
overrun by the second event. Tables start with any units either instance may have of its own, so
a name can be taken by a local unit, or by the mirror of another one. In `Accounts` three requests
are a sign-in, the request that resets or deletes the account, and the one that notices; every
property that speaks of overlaps needs two. `MaxUsers` of 3 leaves room for an account to be
created, by `Start` too, beside two. In `LoginThrottle` two attempts pass the check together
when one failure is left, three failures overrun a limit of 2, and a window of 2 has a failure
in the middle of it; the two addresses can be forged one for the other. A key table is swept from 1
key on, so any second key triggers it.
`ServerIdentity` needs a second pair for a start after one that was cut short, and a third for
the one after.
`MaxEvents`, `MaxCommits`, `MaxUsers`, `MaxRequests` and `MaxWrites` appear in guards only (and `MaxWrites` in the set of
workers that the fairness ranges over, which holds every worker there can be). The theorems have no such bounds on the
instance: they hold for all values of the constants.

*Deadlock* is not checked in `UnitStore`, `EventBroker`, `SyncManager` and `Mirror`: once the
bounded counters are used up and no client is connected, these systems have nothing left to do.
It is checked in the other three.

*Fairness.* `UnitStore` states none; its properties are safety properties. In `EventBroker`
an upgrade and a write end (a write has a timeout), deferred calls run, and a handler at its
`select` takes a ready case: weak fairness. For the shutdown and the session check it is
strong fairness: the handler returns to the `select` again and again while events arrive,
Go picks among the ready cases at random, and the session ticker keeps firing, so a
case that is ready infinitely often is taken. Nothing is assumed of clients, publishers or
the administrator. In `SyncManager` every thread goes on, the lock is handed on in the end
(`sync.Mutex` doesn't starve a waiter: strong fairness), a pass ends, and `Run`'s list of the
remotes, repeated every 30 seconds, succeeds if tried for ever (strong fairness; any single one
may fail). The end of `Run`'s context competes with its ticker in a `select`: strong fairness.
A worker's own ticks come up to a day apart and have no fairness, so `TriggerHonoured` does not
lean on them. In `Mirror` they are what the mirror rests on when streams fail: the poll interval
passes, threads go on (weak fairness), and a list, an upsert and a deletion that are tried again
for ever succeed (strong fairness; each single one may fail). Neither a connection nor a delivery
is assumed: `MirrorCatchesUp` holds without any event stream. In `LoginThrottle` the clock goes on
and nothing else is assumed; attempts may go on for ever, too.

*Symmetry* is used for three safety runs only. In `UnitStore` units, names, callers and places
are interchangeable, and remotes, which no property names; in `Accounts` requests and session IDs are.

## Proofs

`tlapm UnitStoreProofs.tla` (and so on) checks some hundreds of obligations each. The assumptions are the named ones of the modules: times are integers, the
precision and the buffer's capacity are positive, the bounds are natural numbers and the
marker values are not members of the sets they are distinguished from.

**`UnitStoreProofs`.** `TypeCorrect` first. The properties about the history follow from an
invariant (`HistoryInvariant`) that is needed because they are not inductive: entry ids do
not exceed `commits`, so a new entry wins every tie; a unit that has entries has a newest one;
stored positions are rounded already, so storing one again changes nothing; and a positioned
unit's position is either that of the newest entry or was measured before it. From it follow
`NewestBacked`, `BackfillIsDone` and the action property `NewestStays`. `BackfillIsDone` (a start
finds no positioned unit without a history) is proved only: it is a consequence of `NewestBacked`,
which a run checks. The events have an invariant of
their own (`AnnounceInvariant`): no event or call carries a version newer than the unit's,
and the event or call that carries the newest version is a deletion exactly if the row is
absent. From it follow `ChangesAnnounced` and `NewestEventTrue`. `TableStaysConsistent`
is inductive as it stands, given the types. `OwnerWrites` (`OnlyOwnerWrites`) goes through the actions
that write a row: the owner they were guarded by is the caller that commits, while `DeleteRemote` changes
the owner and nothing else.

`FeedEndsAtTable` is violated when two calls on one unit overlap (below). What holds for any callers
and remotes is `FeedInOrder` (`FeedEndsInOrder`): when no call is under way on a unit, its last event
shows its row, unless its newest change was committed while another call on it had not published
(`overlapped`), or had its `Get` fail (`lost`, a change that nobody announces). One difference is allowed
in what it shows, and `ShowsRow` names it: a unit may be shown as synced from a remote that has been deleted,
since `DeleteRemote` publishes nothing. The invariant is `FeedInv`: a unit's last event is its newest version
and owner, unless a call is about to read or publish that, or an exception holds.
`FeedEndsAtTableSerially` is the case of one caller, where nothing overlaps.

**`EventBrokerProofs`.** `GapFree` alone is not inductive: before a stream is opened its
channel is empty and open, and after a drop at least one event was published that never
reached it. `StreamInv` says both, per stream, and is preserved because a step of one stream
leaves every other one alone. `NoGaps` and `NeverPanics` follow, and
`TooSlowIsTrue`: only a client that missed an event is told that it is too slow (proved, in no run).
`ImplementsPromise` shows that each step is a step of `FeedPromise` or changes nothing in
it: the safety half of the refinement that the run checks as `KeepsPromise`.

**`SyncManagerProofs`.** `OneWorkerPerRemote` rests on `ManagerInv`: `reconcileMu` is held by the
one thread inside `reconcile` (`LockInv`), a list has one configuration per remote
(`DesiredInv`), a new worker is none of the running ones (`NumberInv`), and until `Run`
stops them every running worker is in the map or in what the thread at `wait` waits for
(`AccountedInv`). So when a thread starts workers all running ones are in the map, and it starts
them for other remotes only. `QuietStep` disposes of the many steps that touch none of this.
`NoStrayWorker` (`WorkersInHand`) is inductive given the types.

A second invariant, `MapInv`, is about the map: its workers run and were not told to stop
(`MapTrue`), a worker that was has none of the numbers to come (`CanceledNumbers`), what `stopAll`
took out nobody else told to stop (`TakenInv`), and once a reconcile has stopped workers, its list
calls for all that are left in the map (`WantedInv`). From it
follow `ReconcileIsExact`, where the hard cases are two remotes with the same settings, a worker
of an older number of the same remote, and a `StopAll` that swaps the map halfway (the property
ends where `Run` begins to stop), and `RequestsRemembered`, where a request may find the worker in
a pass, its channel full, or already replaced.

**`MirrorProofs`.** For every set of instances, workers, units and clients, and every buffer.
`DeletionsAreReal` and `PassNeverRegresses` need to know what may lie in a list, a queue, a
worker's hand or a call: `MirrorInv` says that each such row, and each mirrored row, is one that
its own instance had at some time (`Past`), and that an absent one is gone there for good, as ids
are minted once; and that no mirrored row is newer than the list a pass is working on
(`PassNewer`), which holds because `worker.mu` keeps events out of a pass. Both are about remotes that mirror
nobody themselves (`Root`); for the others the finding below is a counterexample. `DeletionsAreReal`
(such a mirror deletes nothing that its remote still has) is proved only; the run checks `KeepsCopy`,
which for a remote that never has a deleted unit again comes to the same.

**`MirrorHistoryProofs`.** `MirrorsKeepPromise`: every mirror implements `CopyPromise`, with no
condition on who mirrors whom. The invariant `KnownInv` says that whatever is about to be announced,
is on a stream, in a worker's hand, on a pass's list or in a mirror is one of the unit's past
states at the instance it is said to come from; and that a unit which a pass did not list, but which is
mirrored, was gone there. For the last part it must be known that a unit which ever was at an instance and is
not there now has been gone (`PresentKnown`), and that no client mints its id again (`IdsMinted`).
`Effects` of `MirrorProofs` reduces a step to what it writes - nothing, a client's row, a worker's row - and each
of these is a `Change`, a `Mirror` or a stutter of `CopyPromise` (`CopyChanges`, `WorkerCopies`,
`ClientKeepsCopies`, `OthersKeepCopies`). TLC checked `KnownInv` on the `Mirror` instance and on two instances that
mirror each other before it was proved.

`PassesComplete` is the safety core of `MirrorCatchesUp`, which as a liveness property stays with
TLC. Its hypothesis is about the steps of a behaviour: no upsert of the worker fails or finds the
name taken (`Upsert(w, id)` and `UpsertFails(w, id)` are the same step where there is nothing to
write), and nobody takes away a unit of the follower that is local or another remote's
(`Undisturbed`); everything else may go on meanwhile - the remote's clients, streams, other workers and
restarts. Then a pass that ends leaves each unit in sync that the remote has not changed since it was listed.
The invariant is that what the pass has upserted stays as it was listed (`SettledInv`), which again rests
on `worker.mu` and on units belonging to one remote. Dropping the hypothesis makes TLC show the
taken name.

**`AccountsProofs`.** For any number of requests, accounts, names and providers. What a request
read may be stale; `AccountsInv` says what of it can still be relied on: the subject of an id for
ever (`OwnersFixed`: there is a function from ids to subjects that all rows, sessions, calls and
cache entries agree with, also those of deleted accounts), and password and role unless the
account is `raced`. From it follow `SignInsFindTheirAccount`, `ResetEndsSessions` and
`ManagedRoleHolds`, which is about configurations with a login provider and a group. For
`LastAdminStays`, about those without a group, the invariant also says that the actor of a request still
is an administrator as long as no two administrators' requests overlapped.

**`LoginThrottleProofs`.** For any limit, window, sweep size, and any number of attempts, clients,
proxies and forged entries. `ThrottleInv` relates what is stored of a key to the full record: it
is the end of the record behind expired entries (`Tracks`). That gives `BlockedExactlyAtLimit`.
`FailuresBounded` counts the attempts that may still fail: the record and those together stay
below the limit and the number of attempts. `AttemptsCountedAtOrigin` rests on a lemma about the walk of
`forwardedClient` over any forged entries and any chain of trusted proxies that append
(`ProxiesAreTransparent`), for a client outside of the trusted ranges; of the other routes it says
that they lead to some address.

**`ServerIdentityProofs`.** `IdentityInv` says what each file may be at each step of a start. A
UUID is written only beside a complete key pair, which nothing changes any more; this is what
`RegistrationsHold` rests on.

Every invariant and every action property that a run checks is stated by a theorem.
Only model-checked: the liveness properties (`ShutdownEndsStreams`, `RevokedEnds`,
`WorkersFollowTable`, `RunReturnsInTheEnd`, `TriggerHonoured`, `MirrorCatchesUp`, `BlockEnds`) and
the fairness half of `KeepsPromise`, since liveness under fairness is out of the prover's reach.

## Where code and documentation differ

* `units.go:290` says of the cleanup "Each unit's newest entry is kept, so its current
  position stays in its history". `UnitHistoryClaim` finds a position at time 1, then one at
  time 0: the second is the current one, the first is the newest entry, and the cleanup
  deletes the second. What does hold is `NewestBacksPosition`.
* `useUnitEvents.ts:9` says the hook "Keeps the cached unit list live by applying changes
  pushed over the WebSocket". `UnitFeedClaim` finds two calls on one unit that publish in
  the other order than they committed, so the client ends with an older row. `Publish` runs
  after the transaction, outside its lock. What does hold is `EveryChangeAnnounced`: the
  newest version was published at some time, but need not come last.
  `FeedEndsInOrder` says of which units it does. Not in it, apart from overlaps: a change whose `Get`
  fails is never announced, and when a remote is deleted its units become local without an event
  (`manager.go:288`), so clients show them as synced, and offer no edit, until they fetch the list.

* `manager.go:98` says that `Run`, once its context is canceled, "then stops every worker and
  waits for them". `SyncManagerClaim` finds a request whose `reconcile` listed the remotes before
  `stopAll` swapped the map: it then starts a worker, and `Run` returns without it. In the same
  way a worker may start beside the old one that `stopAll` is waiting for, against
  `manager.go:150`; this is why `OneWorkerPerRemote` ends when `Run` begins to stop. What does
  hold then is `WorkersInHand`.

* `README.md:46` says of mirrored units "Units A lists that B has itself (e.g. when both sync
  from each other) are left alone. A unit that disappears from A is deleted on B", and line 36 that
  a mirrored unit "can only be changed there", where it comes from. `MirrorClaim` finds two
  instances that mirror each other: a user deletes a unit on a, and a's own worker, whose list of b
  still shows it, creates it again on a as mirrored from b. b goes on mirroring it from a, so it
  stays on both sides and neither lets anybody change it. The list does not say whom a unit is
  mirrored from. What does hold is `KeepsCopy`, here too: each shows a state that the unit had at
  the other.

Two disagreements are met in the models and have no run of their own; the properties beside them are
stated for the rest:

* `README.md:24` says that with `OIDC_ADMIN_GROUP` set "The Users page then locks the role of SSO
  accounts". The lock is `ManagesAdminRole` (`oidc.go:94`, `user_handlers.go:104`), false without a login
  provider, where access tokens of `OIDC_ACCESS_TOKEN_ISSUERS` (allowed alone, `config.go:153-158`)
  grant the role all the same (`access_token.go:209`). There an administrator changes the role of an
  SSO account and the next access token changes it back. `RoleAsGranted` is about the configurations
  with a login provider; with `adminGroup` in place of `ManagesAdminRole` TLC shows the rest.
* `README.md:78` says of `X-Forwarded-For` and `X-Real-IP` that they "are ignored from anyone else, so
  they can't be spoofed". `forwardedClient` reads `X-Real-IP` only where there is no `X-Forwarded-For`
  (`proxy.go:44-49`), so behind a trusted proxy that sets `X-Real-IP` and passes the client's
  own `X-Forwarded-For` on, the client's entry counts. `CountedAtOrigin` is about the routes that
  vouch for the client; without its premise TLC shows this one, and the same for a client whose own
  address is in a trusted range.

Three properties of `Accounts` exclude overlaps, because they are violated in them; dropping the
exception makes TLC show how:

* `ResetIsFinal` without `raced`: a login compares the old password, a reset deletes the sessions
  and commits, and the login creates its session. `users.go:84` says that a reset makes "a leaked
  password [stop] working everywhere at once"; a sign-in under way escapes it.
* `RoleAsGranted` without `raced`: an update of the whole row that began before an SSO sign-in
  wrote the role puts the old one back, until the next sign-in.
* `AdminRemains` without `crowded`: two administrators demote each other at once (this needs four
  requests in all). `user_handlers.go:94` gives the check against demoting oneself as what keeps
  the last administrator.

Two units that swapped names on a remote that renamed both between two passes are never mirrored
again: each upsert meets the other's old name (`Blocked` in `MirrorCatchesUp`).

## What is not modelled

Field validation and normalisation (`apply`, `normalizeSymbol`) appear as the set of inputs
they let through. Reads that change nothing (`List`, `History`) have no action; the order
`History` sorts by is `Newer`. Not modelled at all:

* settings and audit log: single statements on independent rows that no other part reads;
* the sync log: the last 200 lines per remote, for display; the recorded status of a worker too;
* HTTP encoding, routing and configuration: they decide nothing that other steps depend on, and
  the inputs they let through are those of the models (`Submitted`, `Arrive`, `Update`);
* tokens' formats, signatures and expiry rules (`access_token.go`, `api_keys.go`): what they let
  through is `Identified` and `Authenticated`; expiry is a session's or cache entry's end at any
  time. Groups other than the administrators' one have no effect but their listing;
* without `JWT_SECRET` a restart ends every session; `Accounts` has the other case;
* the throttle's tables are in memory, so a restart forgets them: `LoginThrottle` has no restart;
* the web client: user interface, with one cache whose steps matter. `useUnitEvents.ts` applies
  events to the cached list while a fetch of the list may be under way, whose answer overwrites
  them. It depends on the scheduling of a library (TanStack Query) that is not part of `src/`,
  and is left out rather than guessed.

`created_by`, `updated_by` and time columns that no decision reads are left out. A remote is never
created in `UnitStore`: a new one has a new UUID, so it is one that had not synced yet. In `Mirror`
remotes are neither added nor deleted, and positions have no history; `UnitStore` and `SyncManager`
have these.

## Plan

Done, in this order because units and their events are what the server is for: `UnitStore`,
`EventBroker` with `FeedPromise`, `SyncManager`, `Mirror`, `Accounts`, `LoginThrottle`,
`ServerIdentity`, `MirrorHistory` with `CopyPromise`. What would be worth adding:

1. The same as `PassesComplete` for passes that do meet taken names: which units stay `Blocked`
   after it, and that two passes sort out any chain of renames without a circle.
2. `UnitCache`: the client's list under fetches, refetches and events, composed with
   `FeedPromise`, once the library's part is pinned down.
3. Chains of three instances in `Mirror`: the module allows them, the runs have two.
