----------------------------- MODULE UnitStore -----------------------------
(***************************************************************************)
(* The unit table, the position history and the change events that        *)
(* units.Service publishes (src/internal/units/units.go and sync.go).      *)
(*                                                                         *)
(* A mutating call is two or three steps, because only its database        *)
(* transaction is atomic (row lock FOR UPDATE and the unique name index):  *)
(*     commit  ->  Get of the row as it is by then  ->  Publish            *)
(* A created or deleted unit is published without the Get.  Other calls,   *)
(* the history cleanup and a crash of the process run in between.          *)
(*                                                                         *)
(* A call that ends with an error (invalid input, ErrUnitNotFound,         *)
(* ErrUnitSynced, ErrNameTaken, ErrNotMirrored, a missing remote) or that  *)
(* changes nothing leaves every variable alone: it is a stuttering step.   *)
(***************************************************************************)
EXTENDS Integers, FiniteSets

CONSTANTS
    UnitIds,      \* unit UUIDs, minted here or by another instance
    Names,        \* names that apply accepts, trimmed
    Labels,       \* the editable fields that have no rule of their own:
                  \* symbol and tactical name, after normalisation
    Places,       \* everything of a position but its timestamp
    Times,        \* timestamps as a client sends them
    Precision,    \* what the database rounds a timestamp down to
    Cutoffs,      \* the instants "now - retention" of a history cleanup
    Remotes,      \* sync remotes
    Calls,        \* threads of control that call the service
    Local,        \* sync_remote_id NULL
    Absent,       \* no such row
    NoPosition,   \* the position columns are NULL
    Idle,         \* a thread outside the service
    MaxCommits    \* bound: transactions that change the unit table

ASSUME TimesAssumption == Times \subseteq Int /\ Cutoffs \subseteq Int
ASSUME PrecisionAssumption == Precision \in Nat \ {0}
ASSUME MaxCommitsAssumption == MaxCommits \in Nat
ASSUME MarkersAssumption ==
    /\ Local \notin Remotes
    /\ NoPosition \notin [at : Places, ts : Int]
    /\ Absent \notin [name : Names, label : Labels,
                      position : [at : Places, ts : Int] \union {NoPosition},
                      remote : Remotes \union {Local}]
    /\ Idle \notin [step : {"get", "publish"}, type : {"created", "updated", "deleted"},
                    id : UnitIds, remote : Remotes \union {Local}, ver : Nat]

VARIABLES
    units,        \* the table: a row or Absent for every id
    history,      \* the position history entries
    remotes,      \* the sync_remotes rows
    commits,      \* ghost: number of transactions so far; also the source of
                  \* the history's ascending entry ids
    used,         \* ghost: ids that ever had a row; a UUIDv7 is never minted twice
    calls,        \* what each thread still has to do after its commit
    version,      \* ghost: the last transaction of this process on each unit
    feed,         \* the last event published about each unit
    best,         \* ghost: the published event that shows each unit's newest version
    lost,         \* ghost: units whose newest change no event will show, since
                  \* its call's Get failed with an error
    overlapped    \* ghost: units whose newest change was committed while
                  \* another call on the unit had not published yet

vars == <<units, history, remotes, commits, used, calls, version, feed, best, lost, overlapped>>
-----------------------------------------------------------------------------
Positions == [at : Places, ts : Int]
Rows == [name : Names, label : Labels, position : Positions \union {NoPosition},
         remote : Remotes \union {Local}]
Entries == [id : Nat, unit : UnitIds, position : Positions]
EventTypes == {"created", "updated", "deleted"}
InFlight == [step : {"get", "publish"}, type : EventTypes, id : UnitIds,
             remote : Remotes \union {Local}, ver : Nat]
Events == [type : EventTypes \union {"none"}, remote : Remotes \union {Local}, ver : Nat]

NoEvent == [type |-> "none", remote |-> Local, ver |-> 0]

Present(id) == units[id] # Absent

(***************************************************************************)
(* The fields of a row and what the database makes of them.  The column    *)
(* type of a timestamp keeps fewer digits than a client may send, so the   *)
(* stored position differs from the one that was compared and validated.   *)
(***************************************************************************)
StoredTime(t) == t - (t % Precision)

StoredPosition(p) == IF p = NoPosition THEN p ELSE [p EXCEPT !.ts = StoredTime(p.ts)]

Submitted == [at : Places, ts : Times] \union {NoPosition}

SamePosition(a, b) == a.position = b.position

Changed(a, b) == {f \in {"name", "label"} : a[f] # b[f]} \union
                 (IF SamePosition(a, b) THEN {} ELSE {"position"})

\* Mutant: names are unique among local units only.
NameFreeAmongLocal(id, name) ==
    \A other \in UnitIds \ {id} :
        Present(other) /\ units[other].remote = Local => units[other].name # name

\* The unique index on units.name: no other row has it.
NameFree(id, name) == \A other \in UnitIds \ {id} : Present(other) => units[other].name # name

\* "a was measured after b": the order of the history, ties broken by entry id.
Newer(a, b) == \/ a.position.ts > b.position.ts
               \/ a.position.ts = b.position.ts /\ a.id > b.id

EntriesOf(id) == {e \in history : e.unit = id}

IsNewest(e) == \A other \in history : other.unit = e.unit => ~ Newer(other, e)

\* Mutant: an entry is written for a cleared position too.
RecordAlways(id, position) ==
    history \union {[id |-> commits + 1, unit |-> id, position |-> StoredPosition(position)]}

RecordPosition(id, position) ==
    IF position = NoPosition THEN history
    ELSE history \union {[id |-> commits + 1, unit |-> id, position |-> StoredPosition(position)]}

\* Mutant: only the first position of a unit is recorded.
HistoryAfterFirst(id, old, new) ==
    IF old.position # NoPosition THEN history ELSE RecordPosition(id, new.position)

\* The history after the row `old` of unit id became `new`.
HistoryAfter(id, old, new) ==
    IF SamePosition(old, new) THEN history ELSE RecordPosition(id, new.position)

WriteRow(id, row) ==
    units' = [units EXCEPT ![id] = [row EXCEPT !.position = StoredPosition(row.position)]]
-----------------------------------------------------------------------------
(***************************************************************************)
(* Events: what a call carries from its commit to Publish.  `ver` is the   *)
(* version of the row that the event will show and `remote` the row's      *)
(* owner (its syncedFrom); from the commit to a Get that is the caller's,  *)
(* a sync worker's remote or Local for a handler.                          *)
(***************************************************************************)
InProgress(c, id) == calls[c] # Idle /\ calls[c].id = id

Commit(c, by, id, type, step) ==
    /\ calls[c] = Idle
    /\ commits < MaxCommits
    /\ commits' = commits + 1
    /\ used' = used \union {id}
    /\ version' = [version EXCEPT ![id] = commits + 1]
    /\ calls' = [calls EXCEPT ![c] = [step |-> step, type |-> type, id |-> id,
                                      remote |-> by, ver |-> commits + 1]]
    /\ lost' = lost \ {id}
    /\ overlapped' = IF \E other \in Calls : InProgress(other, id)
                     THEN overlapped \union {id} ELSE overlapped \ {id}
    /\ UNCHANGED <<remotes, feed, best>>

\* Mutant: the event shows the row as it was last published.
ReadLastPublished(id) == feed[id].ver

\* The version a Get after the commit returns: whatever the row is by then.
ReadVersion(id) == version[id]

\* Mutant: Get does not load the remote that the unit is synced from.
ReadRemoteUnloaded(id) == Local

ReadRemote(id) == units[id].remote

\* Mutant: the row is published though it is gone by now.
GetRowUnchecked(c) ==
    /\ calls[c] # Idle
    /\ calls[c].step = "get"
    /\ calls' = [calls EXCEPT ![c] = [@ EXCEPT !.step = "publish",
                                             !.ver = ReadVersion(calls[c].id)]]
    /\ UNCHANGED <<units, history, remotes, commits, used, version, feed, best, lost, overlapped>>

\* Get finds the row: the call goes on to Publish with it.
GetRow(c) ==
    /\ calls[c] # Idle
    /\ calls[c].step = "get"
    /\ Present(calls[c].id)
    /\ calls' = [calls EXCEPT ![c] = [@ EXCEPT !.step = "publish",
                                             !.remote = ReadRemote(calls[c].id),
                                             !.ver = ReadVersion(calls[c].id)]]
    /\ UNCHANGED <<units, history, remotes, commits, used, version, feed, best, lost, overlapped>>

\* Get finds nothing: another call deleted the unit after the commit.  The
\* caller gets ErrUnitNotFound and no event is published for its change.
GetMissing(c) ==
    /\ calls[c] # Idle
    /\ calls[c].step = "get"
    /\ ~ Present(calls[c].id)
    /\ calls' = [calls EXCEPT ![c] = Idle]
    /\ UNCHANGED <<units, history, remotes, commits, used, version, feed, best, lost, overlapped>>

\* Get fails: the request's or the worker's context ended, or the database did.
GetFails(c) ==
    /\ calls[c] # Idle
    /\ calls[c].step = "get"
    /\ calls' = [calls EXCEPT ![c] = Idle]
    /\ lost' = IF calls[c].ver = version[calls[c].id] THEN lost \union {calls[c].id} ELSE lost
    /\ UNCHANGED <<units, history, remotes, commits, used, version, feed, best, overlapped>>

\* Broker.Publish, as every subscriber that keeps up sees it (EventBroker).
Publish(c) ==
    /\ calls[c] # Idle
    /\ calls[c].step = "publish"
    /\ LET id == calls[c].id
           ev == [type |-> calls[c].type, remote |-> calls[c].remote, ver |-> calls[c].ver]
       IN /\ feed' = [feed EXCEPT ![id] = ev]
          /\ best' = [best EXCEPT ![id] = IF ev.ver > @.ver THEN ev ELSE @]
    /\ calls' = [calls EXCEPT ![c] = Idle]
    /\ UNCHANGED <<units, history, remotes, commits, used, version, lost, overlapped>>
-----------------------------------------------------------------------------
(***************************************************************************)
(* The calls of the HTTP handlers: local units.                            *)
(***************************************************************************)

\* Create: the id is minted here; unit bodies carry no position.
Create(c, id, name, label) ==
    LET row == [name |-> name, label |-> label, position |-> NoPosition, remote |-> Local]
    IN /\ id \notin used
       /\ ~ Present(id)
       /\ NameFree(id, name)
       /\ WriteRow(id, row)
       /\ history' = RecordPosition(id, row.position)
       /\ Commit(c, Local, id, "created", "publish")

\* Only a local unit can be edited here (ErrUnitSynced).
Editable(row) == row.remote = Local

\* Patch: the row under its lock becomes `new`, unless nothing changed.
PatchRow(c, id, new) ==
    /\ Present(id)
    /\ Editable(units[id])
    /\ Changed(units[id], new) # {}
    /\ NameFree(id, new.name)
    /\ WriteRow(id, new)
    /\ history' = HistoryAfter(id, units[id], new)
    /\ Commit(c, Local, id, "updated", "get")

\* PUT and PATCH of a unit: any of the fields but the position.
Update(c, id, fields, name, label) ==
    PatchRow(c, id, [units[id] EXCEPT !.name = IF "name" \in fields THEN name ELSE @,
                                      !.label = IF "label" \in fields THEN label ELSE @])

\* PUT and DELETE of a unit's position.
SetPosition(c, id, position) ==
    PatchRow(c, id, [units[id] EXCEPT !.position = position])

RemoveRow(id) ==
    /\ units' = [units EXCEPT ![id] = Absent]
    /\ history' = history \ EntriesOf(id)       \* ON DELETE CASCADE

Delete(c, id) ==
    /\ Present(id)
    /\ Editable(units[id])
    /\ RemoveRow(id)
    /\ Commit(c, Local, id, "deleted", "publish")
-----------------------------------------------------------------------------
(***************************************************************************)
(* The calls of the sync workers: units mirrored from remote r.            *)
(***************************************************************************)
\* Mutant: any mirrored row counts as this remote's.
MirroredFromAny(row, r) == row.remote # Local /\ r \in Remotes

MirroredFrom(row, r) == row.remote = r

\* UpsertSynced of an id without a row; the foreign key needs the remote.
CreateSynced(c, r, id, name, label, position) ==
    LET row == [name |-> name, label |-> label, position |-> position, remote |-> r]
    IN /\ ~ Present(id)
       /\ r \in remotes
       /\ NameFree(id, name)
       /\ WriteRow(id, row)
       /\ history' = RecordPosition(id, position)
       /\ Commit(c, r, id, "created", "get")

\* UpsertSynced of a row mirrored from r already; any other is left alone.
UpdateSynced(c, r, id, name, label, position) ==
    /\ Present(id)
    /\ MirroredFrom(units[id], r)
    /\ LET old == units[id]
           new == [old EXCEPT !.name = name, !.label = label, !.position = position]
       IN /\ Changed(old, new) # {}
          /\ NameFree(id, name)
          /\ WriteRow(id, new)
          /\ history' = HistoryAfter(id, old, new)
    /\ Commit(c, r, id, "updated", "get")

DeleteSynced(c, r, id) ==
    /\ Present(id)
    /\ MirroredFrom(units[id], r)
    /\ RemoveRow(id)
    /\ Commit(c, r, id, "deleted", "publish")

\* Manager.Delete removes the remote's row; its units become local ones (ON
\* DELETE SET NULL).  No unit event is published and no version is written.
DeleteRemote(r) ==
    /\ r \in remotes
    /\ remotes' = remotes \ {r}
    /\ units' = [id \in UnitIds |->
                   IF Present(id) /\ MirroredFrom(units[id], r)
                   THEN [units[id] EXCEPT !.remote = Local] ELSE units[id]]
    /\ UNCHANGED <<history, commits, used, calls, version, feed, best, lost, overlapped>>
-----------------------------------------------------------------------------
\* Mutant: the entry recorded last is spared.
ExpendableByAge(e, cutoff) ==
    /\ e.position.ts < cutoff
    /\ \E other \in history : other.unit = e.unit /\ other.id > e.id

\* deleteHistoryBefore deletes the old entries except each unit's newest one.
Expendable(e, cutoff) == e.position.ts < cutoff /\ ~ IsNewest(e)

CleanupHistory(cutoff) ==
    /\ history' = history \ {e \in history : Expendable(e, cutoff)}
    /\ UNCHANGED <<units, remotes, commits, used, calls, version, feed, best, lost, overlapped>>

\* A crash and the next start of the process: calls, subscribers and versions
\* are gone, and database.Connect gives every positioned unit without a
\* history an entry for its current position.
Backfill == {id \in UnitIds : /\ Present(id)
                              /\ units[id].position # NoPosition
                              /\ EntriesOf(id) = {}}

Restart ==
    /\ commits < MaxCommits
    /\ commits' = commits + 1
    /\ history' = history \union {[id |-> commits + 1, unit |-> id,
                                   position |-> units[id].position] : id \in Backfill}
    /\ calls' = [c \in Calls |-> Idle]
    /\ version' = [id \in UnitIds |-> 0]
    /\ feed' = [id \in UnitIds |-> NoEvent]
    /\ best' = [id \in UnitIds |-> NoEvent]
    /\ lost' = {}
    /\ overlapped' = {}
    /\ UNCHANGED <<units, remotes, used>>
-----------------------------------------------------------------------------
Init ==
    /\ units = [id \in UnitIds |-> Absent]
    /\ history = {}
    /\ remotes = Remotes
    /\ commits = 0
    /\ used = {}
    /\ calls = [c \in Calls |-> Idle]
    /\ version = [id \in UnitIds |-> 0]
    /\ feed = [id \in UnitIds |-> NoEvent]
    /\ best = [id \in UnitIds |-> NoEvent]
    /\ lost = {}
    /\ overlapped = {}

CallStep(c) == GetRow(c) \/ GetMissing(c) \/ GetFails(c) \/ Publish(c)

LocalStep(c, id) ==
    \/ \E name \in Names, label \in Labels : Create(c, id, name, label)
    \/ \E fields \in SUBSET {"name", "label"}, name \in Names, label \in Labels :
          Update(c, id, fields, name, label)
    \/ \E position \in Submitted : SetPosition(c, id, position)
    \/ Delete(c, id)

SyncStep(c, r, id) ==
    \/ \E name \in Names, label \in Labels, position \in Submitted :
          \/ CreateSynced(c, r, id, name, label, position)
          \/ UpdateSynced(c, r, id, name, label, position)
    \/ DeleteSynced(c, r, id)

Next ==
    \/ \E c \in Calls : CallStep(c)
    \/ \E c \in Calls, id \in UnitIds : LocalStep(c, id)
    \/ \E c \in Calls, r \in Remotes, id \in UnitIds : SyncStep(c, r, id)
    \/ \E r \in Remotes : DeleteRemote(r)
    \/ \E cutoff \in Cutoffs : CleanupHistory(cutoff)
    \/ Restart

Spec == Init /\ [][Next]_vars
-----------------------------------------------------------------------------
TypeOK ==
    /\ units \in [UnitIds -> Rows \union {Absent}]
    /\ history \subseteq Entries
    /\ remotes \subseteq Remotes
    /\ commits \in Nat
    /\ used \subseteq UnitIds
    /\ calls \in [Calls -> InFlight \union {Idle}]
    /\ version \in [UnitIds -> Nat]
    /\ feed \in [UnitIds -> Events]
    /\ best \in [UnitIds -> Events]
    /\ lost \subseteq UnitIds
    /\ overlapped \subseteq UnitIds

(***************************************************************************)
(* What the unique index, the foreign keys and the cascades together leave *)
(* after any order of the transactions: no two units share a name, a       *)
(* mirrored unit's remote exists, and an entry's unit does.                *)
(***************************************************************************)
TableConsistent ==
    /\ \A a, b \in UnitIds :
          Present(a) /\ Present(b) /\ a # b => units[a].name # units[b].name
    /\ \A id \in UnitIds : Present(id) => units[id].remote \in remotes \union {Local}
    /\ \A e \in history : Present(e.unit)

(***************************************************************************)
(* A unit with a position has a history entry which is its newest, and that *)
(* entry is its current position or was measured later.  Cleanups, cleared  *)
(* positions and timestamps that go backwards don't break it.  (The entry   *)
(* need not be the current position: see CurrentPositionInHistory.)         *)
(***************************************************************************)
NewestBacksPosition ==
    \A id \in UnitIds :
        Present(id) /\ units[id].position # NoPosition =>
            \E e \in history :
                /\ e.unit = id
                /\ IsNewest(e)
                /\ \/ e.position = units[id].position
                   \/ e.position.ts > units[id].position.ts

\* Of the entries of a unit one is the newest: what cleanup keeps exists.
NewestExists ==
    \A e \in history : \E n \in history : n.unit = e.unit /\ IsNewest(n)

\* The history that database.Connect finds at a start is complete: "every
\* unit's position is in its history, so this finds nothing" (database.go:67).
BackfillFindsNothing == Backfill = {}

(***************************************************************************)
(* While a unit exists its history is not emptied and its newest entry is   *)
(* only replaced by one measured no earlier: what the map shows as the last *)
(* known trail never jumps back, whatever is cleaned up or restarted.       *)
(***************************************************************************)
NewestNeverRegresses ==
    [][\A e \in history : Present(e.unit)' =>
          \E n \in history' : n.unit = e.unit /\ n.position.ts >= e.position.ts]_vars

(***************************************************************************)
(* A unit's name, label and position are changed, and the unit is deleted, *)
(* by its owner alone: a mirrored unit by its own remote's worker, not by  *)
(* another remote's and not by a handler (sync.go:41 and 90, units.go:166  *)
(* and 214), and a local one by a handler.  In particular a worker that is *)
(* still in a pass when its remote is deleted leaves the units alone that  *)
(* became local, and may have been edited here since.                      *)
(***************************************************************************)
CommitsFor(c, by, id) ==
    calls[c] = Idle /\ InProgress(c, id)' /\ calls'[c].remote = by

OnlyOwnerWrites ==
    [][\A id \in UnitIds :
          Present(id) /\ (~ Present(id)' \/ Changed(units[id], units'[id]) # {}) =>
             \E c \in Calls : CommitsFor(c, units[id].remote, id)]_vars

(***************************************************************************)
(* "Subscribe streams every successful create, update and delete"           *)
(* (units.go:81), as far as it holds: the newest change of a unit has been  *)
(* published, or a call that has not published yet carries it, or its Get   *)
(* failed.  A call whose unit was deleted under it publishes nothing, and   *)
(* another call's event covers for it.                                      *)
(***************************************************************************)
EveryChangeAnnounced ==
    \A id \in UnitIds :
        \/ best[id].ver = version[id]
        \/ id \in lost
        \/ \E c \in Calls : /\ calls[c] # Idle
                            /\ calls[c].id = id
                            /\ calls[c].ver = version[id]

(***************************************************************************)
(* The event that shows a unit's newest version is a "deleted" exactly if   *)
(* the unit is gone: no reordering makes a deletion look like an update.    *)
(***************************************************************************)
NewestEventTellsTruth ==
    \A id \in UnitIds :
        version[id] > 0 /\ best[id].ver = version[id] =>
            (best[id].type = "deleted" <=> ~ Present(id))

(***************************************************************************)
(* Violated.  Cleanup keeps each unit's newest entry, "so its current       *)
(* position stays in its history" (units.go:290): but a client may set a    *)
(* position measured before one that is in the history already.             *)
(***************************************************************************)
CurrentPositionInHistory ==
    \A id \in UnitIds :
        Present(id) /\ units[id].position # NoPosition =>
            \E e \in history : e.unit = id /\ e.position = units[id].position

(***************************************************************************)
(* What a client shows of a unit when it has applied the last event about  *)
(* it is the unit's row, but for one thing: DeleteRemote makes units local *)
(* without an event, so the client may go on showing a unit as synced from *)
(* a remote that has been deleted (unit_handlers.go:97).                   *)
(***************************************************************************)
ShowsRow(id) ==
    /\ feed[id].ver = version[id]
    /\ version[id] > 0 /\ Present(id) =>
          \/ feed[id].remote = units[id].remote
          \/ units[id].remote = Local /\ feed[id].remote \in Remotes \ remotes

\* No call is under way on the unit, and its newest change's Get did not fail.
AtRest(id) == id \notin lost /\ \A c \in Calls : ~ InProgress(c, id)

(***************************************************************************)
(* A client that keeps its list "live by applying changes pushed"          *)
(* (useUnitEvents.ts:9) ends at the table, as far as that holds: once no   *)
(* call is under way on a unit, the last event about it shows its row.     *)
(* Excepted are a unit whose newest change was committed while another     *)
(* call on it had not published, one whose newest change's Get failed, and *)
(* the owner that a deleted remote leaves behind (ShowsRow).               *)
(***************************************************************************)
FeedEndsInOrder ==
    \A id \in UnitIds : AtRest(id) /\ id \notin overlapped => ShowsRow(id)

(***************************************************************************)
(* Violated.  The same when calls on one unit overlap: Publish is after    *)
(* the commit and outside its lock.                                        *)
(***************************************************************************)
FeedEndsAtTable == \A id \in UnitIds : AtRest(id) => ShowsRow(id)
=============================================================================
