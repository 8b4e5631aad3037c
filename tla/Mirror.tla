------------------------------- MODULE Mirror -------------------------------
(***************************************************************************)
(* What a sync worker does to the units of two instances                   *)
(* (src/internal/remotesync/worker.go and client.go over the units.Service *)
(* of both sides).                                                         *)
(*                                                                         *)
(* A worker <<n, r>> runs on instance n and mirrors the units of instance  *)
(* r: full passes over a list read once at their start, and between them   *)
(* the events that r pushes on a WebSocket.  worker.mu makes a pass        *)
(* exclude the handling of an event, which may have been read from the     *)
(* socket before.  A change is announced after it was committed, by the    *)
(* call that made it: other calls and lists come in between.               *)
(*                                                                         *)
(* A restart of an instance is, for each worker in turn, a WorkerRestarts  *)
(* of its own, a Break of the streams from it and a Lose of its calls.     *)
(* Which workers exist is module SyncManager; positions, histories and     *)
(* deleted remotes are module UnitStore.                                   *)
(***************************************************************************)
EXTENDS Naturals, Sequences

CONSTANTS
    Nodes,       \* instances
    Edges,       \* <<n, r>>: n has r as an enabled sync remote
    UnitIds,     \* UUIDs; one is never minted twice
    Names,       \* unique per instance; they stand for all of a unit's fields
    Home,        \* which instance mints an id
    Clients,     \* HTTP requests that change units, on any instance
    Local,       \* owner of the units an instance has itself
    Absent,      \* no such row
    Nothing,     \* no call, no event, no pass; a row that is not read yet
    Buffer,      \* how many events may be on the way to a worker
    MaxWrites    \* bound: changes by clients

ASSUME EdgesAssumption == Edges \subseteq {e \in Nodes \X Nodes : e[1] # e[2]}
ASSUME HomeAssumption == Home \in [UnitIds -> Nodes]
ASSUME LocalAssumption == Local \notin Nodes
ASSUME ClientsAssumption == Clients \intersect Edges = {}
ASSUME BoundsAssumption == Buffer \in Nat /\ MaxWrites \in Nat

Rows == [name : Names, owner : Nodes \union {Local}, ver : Nat]
Messages == [type : {"created", "updated", "deleted"}, id : UnitIds,
             row : Rows \union {Absent}]
CallRecords == [node : Nodes, type : {"created", "updated", "deleted"}, id : UnitIds,
                row : Rows \union {Absent, Nothing}]
Passes == [todo : SUBSET UnitIds, listed : [UnitIds -> Rows \union {Absent}]]

ASSUME AbsentAssumption == Absent \notin Rows /\ Absent # Nothing
ASSUME NothingAssumption == Nothing \notin Rows \union Messages \union CallRecords \union Passes

VARIABLES
    units,       \* each instance's table; ver (ghost) is the write a row stems from
    used,        \* ids minted so far
    writes,      \* bound: changes by clients so far
    call,        \* committed changes that are not announced yet
    due,         \* workers with a full pass to start: first, tick or trigger
    pass,        \* each worker's full pass: what it listed and still upserts
    stream,      \* workers whose event stream is up
    queue,       \* events on the way, from the subscription to the socket
    hand         \* an event that was read and waits for worker.mu

table == <<units, used, writes>>
links == <<stream, queue, hand>>
vars == <<table, call, due, pass, links>>
-----------------------------------------------------------------------------
Threads == Clients \union Edges
Here(w) == w[1]
There(w) == w[2]
Has(n, id) == units[n][id] # Absent
Mirrored(w, id) == Has(Here(w), id) /\ units[Here(w)][id].owner = There(w)

\* The unique index on the name.
NameFree(n, id, name) ==
    \A other \in UnitIds \ {id} : Has(n, other) => units[n][other].name # name

\* The instances start with local units of their own or kept from remotes
\* that were deleted, and their workers with their first pass to do.
Init ==
    /\ units \in [Nodes -> [UnitIds -> [name : Names, owner : {Local}, ver : {0}] \union {Absent}]]
    /\ \A n \in Nodes, id \in UnitIds : Has(n, id) => NameFree(n, id, units[n][id].name)
    /\ used = {id \in UnitIds : \E n \in Nodes : Has(n, id)}
    /\ writes = 0
    /\ call = [t \in Threads |-> Nothing]
    /\ due = [w \in Edges |-> TRUE]
    /\ pass = [w \in Edges |-> Nothing]
    /\ stream = [w \in Edges |-> FALSE]
    /\ queue = [w \in Edges |-> <<>>]
    /\ hand = [w \in Edges |-> Nothing]
-----------------------------------------------------------------------------
(***************************************************************************)
(* Changes and their announcement                                          *)
(***************************************************************************)
\* A call that is to be announced; without a follower nobody would notice.
Committed(t, n, type, id, row) ==
    call' = [call EXCEPT ![t] = IF \E w \in Edges : There(w) = n
                                THEN [node |-> n, type |-> type, id |-> id, row |-> row]
                                ELSE Nothing]

Write(n, id, row) == units' = [units EXCEPT ![n][id] = row]

ClientWrites(c, n, id, row) ==
    /\ call[c] = Nothing
    /\ writes < MaxWrites
    /\ writes' = writes + 1
    /\ Write(n, id, row)
    /\ UNCHANGED <<due, pass, links>>

LocalRow(name) == [name |-> name, owner |-> Local, ver |-> writes + 1]

\* Service.Create announces the row it inserted.
Create(c, n, id, name) ==
    /\ id \notin used
    /\ Home[id] = n
    /\ used' = used \union {id}
    /\ NameFree(n, id, name)
    /\ ClientWrites(c, n, id, LocalRow(name))
    /\ Committed(c, n, "created", id, LocalRow(name))

\* ErrUnitSynced
Editable(n, id) == Has(n, id) /\ units[n][id].owner = Local

\* Service.Patch reads the row again to announce it.
Rename(c, n, id, name) ==
    /\ Editable(n, id)
    /\ units[n][id].name # name
    /\ NameFree(n, id, name)
    /\ ClientWrites(c, n, id, LocalRow(name))
    /\ Committed(c, n, "updated", id, Nothing)
    /\ UNCHANGED used

Delete(c, n, id) ==
    /\ Editable(n, id)
    /\ ClientWrites(c, n, id, Absent)
    /\ Committed(c, n, "deleted", id, Absent)
    /\ UNCHANGED used

\* Get after a commit; a row that is gone is not announced.
ReadBack(t) ==
    /\ call[t] # Nothing
    /\ call[t].row = Nothing
    /\ LET row == units[call[t].node][call[t].id]
       IN call' = [call EXCEPT ![t] = IF row = Absent THEN Nothing ELSE [@ EXCEPT !.row = row]]
    /\ UNCHANGED <<table, due, pass, links>>

\* The Get fails, or the instance crashes after the commit.
Lose(t) ==
    /\ call[t] # Nothing
    /\ call' = [call EXCEPT ![t] = Nothing]
    /\ UNCHANGED <<table, due, pass, links>>

\* To every stream that is up; one that falls behind breaks (EventBroker).
Publish(t) ==
    /\ call[t] # Nothing
    /\ call[t].row # Nothing
    /\ LET message == [type |-> call[t].type, id |-> call[t].id, row |-> call[t].row]
           told == {w \in Edges : stream[w] /\ There(w) = call[t].node}
           dropped == {w \in told : Len(queue[w]) = Buffer}
       IN /\ queue' = [w \in Edges |-> IF w \in dropped THEN <<>>
                                       ELSE IF w \in told THEN Append(queue[w], message)
                                       ELSE queue[w]]
          /\ stream' = [w \in Edges |-> stream[w] /\ w \notin dropped]
    /\ call' = [call EXCEPT ![t] = Nothing]
    /\ UNCHANGED <<table, due, pass, hand>>
-----------------------------------------------------------------------------
(***************************************************************************)
(* UpsertSynced and DeleteSynced, for worker w                             *)
(***************************************************************************)
\* Mutant: mirrored units are never changed.
UpsertCreates(w, id, row) ==
    IF ~ Has(Here(w), id)
    THEN /\ Write(Here(w), id, [row EXCEPT !.owner = There(w)])
         /\ Committed(w, Here(w), "created", id, Nothing)
    ELSE UNCHANGED <<units, call>>

\* The unit is created, changed, or left alone: it is not mirrored from There(w)
\* (ErrNotMirrored), it is up to date, or its name is taken here.
UpsertSynced(w, id, row) ==
    LET mirror == [row EXCEPT !.owner = There(w)]
        changes == /\ ~ Has(Here(w), id) \/ Mirrored(w, id)
                   /\ Has(Here(w), id) => units[Here(w)][id].name # row.name
                   /\ NameFree(Here(w), id, row.name)
    IN IF changes
       THEN /\ Write(Here(w), id, mirror)
            /\ Committed(w, Here(w), IF Has(Here(w), id) THEN "updated" ELSE "created", id, Nothing)
       ELSE UNCHANGED <<units, call>>

DeleteSynced(w, id) ==
    IF Mirrored(w, id)
    THEN Write(Here(w), id, Absent) /\ Committed(w, Here(w), "deleted", id, Absent)
    ELSE UNCHANGED <<units, call>>
-----------------------------------------------------------------------------
(***************************************************************************)
(* Full passes                                                             *)
(***************************************************************************)
\* worker.mu is free: no pass, no event being applied.
MuFree(w) == pass[w] = Nothing /\ call[w] = Nothing

\* The poll interval is over, or somebody asks for a pass (SyncManager).
Tick(w) ==
    /\ ~ due[w]
    /\ due' = [due EXCEPT ![w] = TRUE]
    /\ UNCHANGED <<table, call, pass, links>>

StartPass(w, listed) ==
    /\ due[w]
    /\ MuFree(w)
    /\ due' = [due EXCEPT ![w] = FALSE]
    /\ pass' = [pass EXCEPT ![w] = [todo |-> {id \in UnitIds : listed[id] # Absent},
                                    listed |-> listed]]
    /\ UNCHANGED <<table, call, links>>

\* syncOnce takes the lock and lists the units of the remote.
BeginPass(w) == StartPass(w, units[There(w)])

\* Mutant: an answer that could not be read counts as an empty list.
ListFailsEmpty(w) == StartPass(w, [id \in UnitIds |-> Absent])

\* The remote is down or refuses: the pass changes nothing.
ListFails(w) ==
    /\ due[w]
    /\ MuFree(w)
    /\ due' = [due EXCEPT ![w] = FALSE]
    /\ UNCHANGED <<table, call, pass, links>>

Upserted(w, id) == pass' = [pass EXCEPT ![w].todo = @ \ {id}]

\* The lock is held, and the change before this one is announced.
InPass(w) == pass[w] # Nothing /\ call[w] = Nothing

Upsert(w, id) ==
    /\ InPass(w)
    /\ id \in pass[w].todo
    /\ UpsertSynced(w, id, pass[w].listed[id])
    /\ Upserted(w, id)
    /\ UNCHANGED <<used, writes, due, links>>

\* The database fails for one unit; the others are still done.
UpsertFails(w, id) ==
    /\ InPass(w)
    /\ id \in pass[w].todo
    /\ Upserted(w, id)
    /\ UNCHANGED <<table, call, due, links>>

Vanished(w, id) == Mirrored(w, id) /\ pass[w].listed[id] = Absent

DeleteVanished(w, id) ==
    /\ InPass(w)
    /\ pass[w].todo = {}
    /\ Vanished(w, id)
    /\ DeleteSynced(w, id)
    /\ UNCHANGED <<used, writes, due, pass, links>>

PassOver(w) ==
    /\ InPass(w)
    /\ pass[w].todo = {}
    /\ pass' = [pass EXCEPT ![w] = Nothing]
    /\ UNCHANGED <<table, call, due, links>>

PassEnds(w) == PassOver(w) /\ \A id \in UnitIds : ~ Vanished(w, id)

\* SyncedIDs fails, or the deletion of some units.
PassFails(w) == PassOver(w) /\ \E id \in UnitIds : Vanished(w, id)
-----------------------------------------------------------------------------
(***************************************************************************)
(* The event stream                                                        *)
(***************************************************************************)
\* listen dials and asks for a pass; the subscription begins with no event.
Connect(w) ==
    /\ ~ stream[w]
    /\ hand[w] = Nothing
    /\ stream' = [stream EXCEPT ![w] = TRUE]
    /\ due' = [due EXCEPT ![w] = TRUE]
    /\ UNCHANGED <<table, call, pass, queue, hand>>

\* Mutant: what an old connection had not delivered is kept.
BreakKeeps(w) ==
    /\ stream[w]
    /\ stream' = [stream EXCEPT ![w] = FALSE]
    /\ UNCHANGED <<table, call, due, pass, queue, hand>>

\* The connection fails, the token expires, the remote stops, or the worker was
\* too slow.  An event that was read is still applied.
Break(w) ==
    /\ stream[w]
    /\ stream' = [stream EXCEPT ![w] = FALSE]
    /\ queue' = [queue EXCEPT ![w] = <<>>]
    /\ UNCHANGED <<table, call, due, pass, hand>>

\* readEvents reads the next event once the one before is applied.
Receive(w) ==
    /\ hand[w] = Nothing
    /\ pass[w] = Nothing => call[w] = Nothing
    /\ queue[w] # <<>>
    /\ hand' = [hand EXCEPT ![w] = Head(queue[w])]
    /\ queue' = [queue EXCEPT ![w] = Tail(@)]
    /\ UNCHANGED <<table, call, due, pass, stream>>

\* Mutant: an event does not wait for a pass to end.
MayApplyAtOnce(w) == call[w] = Nothing

MayApply(w) == MuFree(w)

Apply(w) ==
    /\ hand[w] # Nothing
    /\ MayApply(w)
    /\ IF hand[w].type = "deleted"
       THEN DeleteSynced(w, hand[w].id)
       ELSE UpsertSynced(w, hand[w].id, hand[w].row)
    /\ hand' = [hand EXCEPT ![w] = Nothing]
    /\ UNCHANGED <<used, writes, due, pass, stream, queue>>

\* The database fails: the event is logged and forgotten.
ApplyFails(w) ==
    /\ hand[w] # Nothing
    /\ MayApply(w)
    /\ hand' = [hand EXCEPT ![w] = Nothing]
    /\ UNCHANGED <<table, call, due, pass, stream, queue>>

\* The worker is stopped, by a crash or by reconcile, wherever it is; the next
\* one starts with a full pass.  A unit it committed is not announced any more.
WorkerRestarts(w) ==
    /\ call' = [call EXCEPT ![w] = Nothing]
    /\ due' = [due EXCEPT ![w] = TRUE]
    /\ pass' = [pass EXCEPT ![w] = Nothing]
    /\ stream' = [stream EXCEPT ![w] = FALSE]
    /\ queue' = [queue EXCEPT ![w] = <<>>]
    /\ hand' = [hand EXCEPT ![w] = Nothing]
    /\ UNCHANGED table
-----------------------------------------------------------------------------
ClientNext ==
    \E c \in Clients, n \in Nodes, id \in UnitIds :
        \/ \E name \in Names : Create(c, n, id, name) \/ Rename(c, n, id, name)
        \/ Delete(c, n, id)

CallNext == \E t \in Threads : ReadBack(t) \/ Lose(t) \/ Publish(t)

PassNext ==
    \E w \in Edges :
        \/ Tick(w) \/ BeginPass(w) \/ ListFails(w) \/ PassEnds(w) \/ PassFails(w)
        \/ \E id \in UnitIds : Upsert(w, id) \/ UpsertFails(w, id) \/ DeleteVanished(w, id)

StreamNext ==
    \E w \in Edges :
        \/ Connect(w) \/ Break(w) \/ Receive(w)
        \/ Apply(w) \/ ApplyFails(w) \/ WorkerRestarts(w)

Next == ClientNext \/ CallNext \/ PassNext \/ StreamNext

Safe == Init /\ [][Next]_vars

\* The poll interval passes, handlers and workers go on, and what is tried
\* again forever - listing, writing a unit, deleting one - works in the end.
Fairness ==
    /\ \A t \in Threads : WF_vars(ReadBack(t) \/ Lose(t) \/ Publish(t))
    /\ \A w \in Edges :
          /\ WF_vars(Tick(w))
          /\ SF_vars(BeginPass(w))
          /\ WF_vars(PassEnds(w) \/ PassFails(w))
          /\ WF_vars(Receive(w))
          /\ WF_vars(Apply(w) \/ ApplyFails(w))
          /\ \A id \in UnitIds : SF_vars(Upsert(w, id)) /\ SF_vars(DeleteVanished(w, id))

Spec == Safe /\ Fairness
-----------------------------------------------------------------------------
\* Owners are the remotes an instance has, and names are unique.
TablesOK ==
    /\ units \in [Nodes -> [UnitIds -> Rows \union {Absent}]]
    /\ \A n \in Nodes, id \in UnitIds :
          Has(n, id) => /\ NameFree(n, id, units[n][id].name)
                        /\ units[n][id].owner # Local => <<n, units[n][id].owner>> \in Edges

\* Exactly a deletion has no row.
ShowsRow(m) == m.type = "deleted" <=> m.row = Absent

Sendable == {m \in Messages : ShowsRow(m)}

CallsOK ==
    /\ call \in [Threads -> CallRecords \union {Nothing}]
    /\ \A t \in Threads : call[t] # Nothing => ShowsRow(call[t])

PassesOK ==
    /\ pass \in [Edges -> Passes \union {Nothing}]
    /\ \A w \in Edges :
          pass[w] # Nothing => \A id \in pass[w].todo : pass[w].listed[id] # Absent

\* Only a stream that is up carries events.
LinksOK ==
    /\ stream \in [Edges -> BOOLEAN]
    /\ queue \in [Edges -> Seq(Sendable)]
    /\ \A w \in Edges : Len(queue[w]) <= Buffer /\ (~ stream[w] => queue[w] = <<>>)
    /\ hand \in [Edges -> Sendable \union {Nothing}]

(***************************************************************************)
(* Every table stays one the database takes, and whatever workers read,    *)
(* list and receive is about units.                                        *)
(***************************************************************************)
TypeOK ==
    /\ TablesOK /\ CallsOK /\ PassesOK /\ LinksOK
    /\ used \subseteq UnitIds
    /\ writes \in 0 .. MaxWrites
    /\ due \in [Edges -> BOOLEAN]

\* An instance that mirrors nobody.
Root(n) == \A w \in Edges : Here(w) # n

(***************************************************************************)
(* A mirrored unit goes only when its instance deleted it ("A unit that    *)
(* disappears from A is deleted on B", src/README.md:46, and nothing else  *)
(* is): not because a list failed, a unit of it could not be written, or   *)
(* a worker was stopped halfway.                                           *)
(***************************************************************************)
DeletionsAreReal ==
    [][\A w \in Edges, id \in UnitIds :
          (Root(There(w)) /\ Mirrored(w, id) /\ units'[Here(w)][id] = Absent)
             => units'[There(w)][id] = Absent]_vars

(***************************************************************************)
(* No step during a pass puts a unit back to an older state ("the pass's   *)
(* older snapshot of the unit can't overwrite the newer event",            *)
(* worker.go:46), for a remote that mirrors nobody itself (Root).  An      *)
(* event that is applied after the pass may, until the next one.           *)
(***************************************************************************)
PassNeverRegresses ==
    [][\A w \in Edges, id \in UnitIds :
          (Root(There(w)) /\ pass[w] # Nothing /\ Mirrored(w, id) /\ units'[Here(w)][id] # Absent)
             => units'[Here(w)][id].ver >= units[Here(w)][id].ver]_vars

\* What the worker has to reach: the row is the remote's, or nobody's to sync.
InSync(w, id) ==
    IF Has(There(w), id)
    THEN /\ Has(Here(w), id)
         /\ Mirrored(w, id) => units[Here(w)][id].name = units[There(w)][id].name
    ELSE ~ Mirrored(w, id)

\* Another unit has its name here: a local one, or a mirrored one that is itself
\* behind.
Blocked(w, id) == Has(There(w), id) /\ ~ NameFree(Here(w), id, units[There(w)][id].name)

(***************************************************************************)
(* Whatever was lost, failed, reordered or restarted, once clients change  *)
(* nothing any more the mirror is complete and stays so ("a full pass,     *)
(* which catches up on whatever changed while it was down",                *)
(* worker.go:158) - but for units whose name is taken.  Two mirrored units *)
(* that swapped their names take each other's forever.                     *)
(***************************************************************************)
MirrorCatchesUp ==
    \A w \in Edges, id \in UnitIds : <>[](InSync(w, id) \/ Blocked(w, id))

(***************************************************************************)
(* A unit that no instance has as its own - it was deleted where it could  *)
(* be changed, src/README.md:36 - disappears everywhere (src/README.md:46: *)
(* "A unit that disappears from A is deleted on B").                       *)
(***************************************************************************)
DeletedEverywhere ==
    \A id \in UnitIds :
        (id \in used /\ \A n \in Nodes : ~ Editable(n, id)) ~> (\A n \in Nodes : ~ Has(n, id))
=============================================================================
