---------------------------- MODULE MirrorProofs ----------------------------
(***************************************************************************)
(* Proofs about Mirror for any instances, remotes, units and buffer.       *)
(***************************************************************************)
EXTENDS Mirror, TLAPS

\* What may be written to an instance's table.
Fits(n, id, row) ==
    row # Absent => /\ row \in Rows
                    /\ NameFree(n, id, row.name)
                    /\ row.owner # Local => <<n, row.owner>> \in Edges

LEMMA EdgeTypes ==
    ASSUME NEW w \in Edges
    PROVE  Here(w) \in Nodes /\ There(w) \in Nodes /\ Here(w) # There(w)
           /\ w = <<Here(w), There(w)>> /\ There(w) # Local /\ w \in Threads
  BY EdgesAssumption, LocalAssumption DEF Here, There, Threads

LEMMA InitTypes == Init => TypeOK
  <1> SUFFICES ASSUME Init PROVE TypeOK
    OBVIOUS
  <1> USE DEF Init
  <1>1. TablesOK
    <2>1. [name : Names, owner : {Local}, ver : {0}] \subseteq Rows
      BY DEF Rows
    <2>2. units \in [Nodes -> [UnitIds -> Rows \union {Absent}]]
      BY <2>1
    <2>3. ASSUME NEW n \in Nodes, NEW id \in UnitIds, Has(n, id)
          PROVE  NameFree(n, id, units[n][id].name) /\ units[n][id].owner = Local
      BY <2>3 DEF Has
    <2>4. QED
      BY <2>2, <2>3 DEF TablesOK
  <1>2. CallsOK /\ PassesOK
    BY DEF CallsOK, PassesOK
  <1>3. LinksOK
    BY BoundsAssumption DEF LinksOK
  <1>4. QED
    BY <1>1, <1>2, <1>3, BoundsAssumption DEF TypeOK

LEMMA WriteTypes ==
    ASSUME TablesOK, NEW n \in Nodes, NEW id \in UnitIds, NEW row, Fits(n, id, row), Write(n, id, row)
    PROVE  TablesOK'
  <1>1. units' \in [Nodes -> [UnitIds -> Rows \union {Absent}]]
    BY DEF TablesOK, Write, Fits
  <1>2. ASSUME NEW m \in Nodes, NEW other \in UnitIds, Has(m, other)'
        PROVE  /\ NameFree(m, other, units[m][other].name)'
               /\ units'[m][other].owner # Local => <<m, units'[m][other].owner>> \in Edges
    <2>1. units'[m][other] = IF m = n /\ other = id THEN row ELSE units[m][other]
      BY DEF TablesOK, Write
    <2>2. \A third \in UnitIds : units'[m][third] = IF m = n /\ third = id THEN row ELSE units[m][third]
      BY DEF TablesOK, Write
    <2>3. CASE m = n /\ other = id
      <3>1. NameFree(n, id, row.name)
        BY <1>2, <2>1, <2>3 DEF Fits, Has
      <3>2. QED
        BY <1>2, <2>1, <2>2, <2>3, <3>1 DEF Fits, Has, NameFree
    <2>4. CASE m = n /\ other # id
      <3>1. Has(n, other) /\ NameFree(n, other, units[n][other].name)
        BY <1>2, <2>1, <2>4 DEF Has, TablesOK
      <3>2. row # Absent => row.name # units[n][other].name
        BY <3>1, <2>4 DEF Fits, NameFree, Has
      <3>3. QED
        BY <1>2, <2>1, <2>2, <2>4, <3>1, <3>2 DEF Has, NameFree, TablesOK
    <2>5. CASE m # n
      BY <1>2, <2>1, <2>2, <2>5 DEF Has, NameFree, TablesOK
    <2>6. QED
      BY <2>3, <2>4, <2>5
  <1>3. QED
    BY <1>1, <1>2 DEF TablesOK

LEMMA CommittedTypes ==
    ASSUME CallsOK, NEW t \in Threads, NEW n \in Nodes, NEW id \in UnitIds,
           NEW type \in {"created", "updated", "deleted"}, NEW row \in Rows \union {Absent, Nothing},
           type = "deleted" <=> row = Absent,
           Committed(t, n, type, id, row)
    PROVE  CallsOK'
  <1> DEFINE record == [node |-> n, type |-> type, id |-> id, row |-> row]
  <1>1. record \in CallRecords /\ ShowsRow(record)
    BY DEF CallRecords, ShowsRow
  <1>2. \A s \in Threads : call'[s] = call[s] \/ call'[s] = Nothing \/ call'[s] = record
    BY DEF Committed, CallsOK
  <1>3. call' \in [Threads -> CallRecords \union {Nothing}]
    BY <1>1 DEF Committed, CallsOK
  <1> HIDE DEF record
  <1>4. QED
    BY <1>1, <1>2, <1>3 DEF CallsOK

LEMMA UpsertTypes ==
    ASSUME TablesOK, CallsOK, NEW w \in Edges, NEW id \in UnitIds, NEW row \in Rows,
           UpsertSynced(w, id, row)
    PROVE  TablesOK' /\ CallsOK'
  <1> DEFINE mirror == [row EXCEPT !.owner = There(w)]
  <1> USE EdgeTypes
  <1>1. CASE UNCHANGED <<units, call>>
    BY <1>1 DEF TablesOK, CallsOK, Has, NameFree
  <1>2. CASE /\ NameFree(Here(w), id, row.name)
             /\ Write(Here(w), id, mirror)
             /\ \E type \in {"created", "updated"} : Committed(w, Here(w), type, id, Nothing)
    <2>1. mirror \in Rows /\ mirror.name = row.name /\ mirror.owner = There(w)
      BY DEF Rows
    <2>2. Fits(Here(w), id, mirror)
      BY <1>2, <2>1 DEF Fits
    <2>3. TablesOK'
      BY <1>2, <2>2, WriteTypes
    <2>4. CallsOK'
      BY <1>2, CommittedTypes, AbsentAssumption
    <2>5. QED
      BY <2>3, <2>4
  <1>3. QED
    BY <1>1, <1>2 DEF UpsertSynced

LEMMA DeleteTypes ==
    ASSUME TablesOK, CallsOK, NEW w \in Edges, NEW id \in UnitIds, DeleteSynced(w, id)
    PROVE  TablesOK' /\ CallsOK'
  <1> USE EdgeTypes
  <1>1. CASE UNCHANGED <<units, call>>
    BY <1>1 DEF TablesOK, CallsOK, Has, NameFree
  <1>2. CASE Write(Here(w), id, Absent) /\ Committed(w, Here(w), "deleted", id, Absent)
    <2>1. TablesOK'
      BY <1>2, WriteTypes DEF Fits
    <2>2. CallsOK'
      BY <1>2, CommittedTypes
    <2>3. QED
      BY <2>1, <2>2
  <1>3. QED
    BY <1>1, <1>2 DEF DeleteSynced

LEMMA UnchangedTypes ==
    /\ TablesOK /\ UNCHANGED units => TablesOK'
    /\ CallsOK /\ UNCHANGED call => CallsOK'
    /\ PassesOK /\ UNCHANGED pass => PassesOK'
    /\ LinksOK /\ UNCHANGED links => LinksOK'
  <1>1. TablesOK /\ UNCHANGED units => TablesOK'
    BY DEF TablesOK, Has, NameFree
  <1>2. CallsOK /\ UNCHANGED call => CallsOK'
    BY DEF CallsOK
  <1>3. PassesOK /\ UNCHANGED pass => PassesOK'
    BY DEF PassesOK
  <1>4. LinksOK /\ UNCHANGED links => LinksOK'
    BY DEF LinksOK, links
  <1>5. QED
    BY <1>1, <1>2, <1>3, <1>4

\* What a client's request does to the tables and to its call.
LEMMA ClientTypes ==
    ASSUME TypeOK, NEW c \in Clients, NEW n \in Nodes, NEW id \in UnitIds,
           \/ \E name \in Names : Create(c, n, id, name) \/ Rename(c, n, id, name)
           \/ Delete(c, n, id)
    PROVE  TypeOK'
  <1> USE UnchangedTypes, BoundsAssumption
  <1>0. c \in Threads /\ Absent \notin Rows /\ Absent # Nothing /\ Nothing \notin Rows
    BY AbsentAssumption, NothingAssumption DEF Threads
  <1>1. writes + 1 \in 0 .. MaxWrites /\ PassesOK' /\ LinksOK' /\ due' = due
    <2>1. writes < MaxWrites /\ UNCHANGED <<due, pass, links>>
      BY DEF Create, Rename, Delete, ClientWrites
    <2>2. writes + 1 \in 0 .. MaxWrites
      BY <2>1 DEF TypeOK
    <2>3. PassesOK' /\ LinksOK'
      BY <2>1 DEF TypeOK
    <2>4. QED
      BY <2>1, <2>2, <2>3
  <1>2. CASE \E name \in Names : Create(c, n, id, name)
    <2>1. PICK name \in Names : Create(c, n, id, name)
      BY <1>2
    <2>2. LocalRow(name) \in Rows /\ Fits(n, id, LocalRow(name))
      BY <2>1, <1>1 DEF Rows, Fits, Create, LocalRow
    <2>3. Write(n, id, LocalRow(name)) /\ Committed(c, n, "created", id, LocalRow(name))
      BY <2>1 DEF Create, ClientWrites
    <2>4. TablesOK'
      BY <2>2, <2>3, WriteTypes DEF TypeOK
    <2>5. CallsOK'
      BY <2>2, <2>3, <1>0, CommittedTypes DEF TypeOK
    <2>6. QED
      BY <2>1, <2>4, <2>5, <1>1 DEF TypeOK, Create, ClientWrites
  <1>3. CASE \E name \in Names : Rename(c, n, id, name)
    <2>1. PICK name \in Names : Rename(c, n, id, name)
      BY <1>3
    <2>2. LocalRow(name) \in Rows /\ Fits(n, id, LocalRow(name))
      BY <2>1, <1>1 DEF Rows, Fits, Rename, LocalRow
    <2>3. Write(n, id, LocalRow(name)) /\ Committed(c, n, "updated", id, Nothing)
      BY <2>1 DEF Rename, ClientWrites
    <2>4. TablesOK'
      BY <2>2, <2>3, WriteTypes DEF TypeOK
    <2>5. CallsOK'
      BY <2>3, <1>0, CommittedTypes DEF TypeOK
    <2>6. QED
      BY <2>1, <2>4, <2>5, <1>1 DEF TypeOK, Rename, ClientWrites
  <1>4. CASE Delete(c, n, id)
    <2>1. Write(n, id, Absent) /\ Committed(c, n, "deleted", id, Absent)
      BY <1>4 DEF Delete, ClientWrites
    <2>2. TablesOK'
      BY <2>1, WriteTypes DEF TypeOK, Fits
    <2>3. CallsOK'
      BY <2>1, <1>0, CommittedTypes DEF TypeOK
    <2>4. QED
      BY <1>4, <2>2, <2>3, <1>1 DEF TypeOK, Delete, ClientWrites
  <1>5. QED
    BY <1>2, <1>3, <1>4

LEMMA CallTypes ==
    ASSUME TypeOK, NEW t \in Threads, ReadBack(t) \/ Lose(t) \/ Publish(t)
    PROVE  TypeOK'
  <1> USE UnchangedTypes, BoundsAssumption
  <1>1. TablesOK' /\ PassesOK' /\ UNCHANGED <<used, writes, due>>
    BY DEF TypeOK, ReadBack, Lose, Publish, table
  <1>2. Absent # Nothing
    BY AbsentAssumption
  <1>3. CASE ReadBack(t)
    <2> DEFINE row == units[call[t].node][call[t].id]
    <2>1. call[t] \in CallRecords /\ call[t].type # "deleted"
      BY <1>2, <1>3 DEF ReadBack, TypeOK, CallsOK, ShowsRow
    <2>2. row \in Rows \union {Absent}
      BY <2>1 DEF TypeOK, TablesOK, CallRecords
    <2>3. row # Absent =>
             [call[t] EXCEPT !.row = row] \in CallRecords /\ ShowsRow([call[t] EXCEPT !.row = row])
      BY <2>1, <2>2 DEF CallRecords, ShowsRow
    <2>4. call' = [call EXCEPT ![t] = IF row = Absent THEN Nothing ELSE [call[t] EXCEPT !.row = row]]
      BY <1>3 DEF ReadBack, TypeOK, CallsOK
    <2> HIDE DEF row
    <2>5. CallsOK'
      BY <2>3, <2>4 DEF TypeOK, CallsOK
    <2>6. LinksOK'
      BY <1>3 DEF TypeOK, ReadBack
    <2>7. QED
      BY <1>1, <2>5, <2>6 DEF TypeOK
  <1>4. CASE Lose(t)
    <2>1. CallsOK' /\ LinksOK'
      BY <1>4 DEF TypeOK, CallsOK, Lose
    <2>2. QED
      BY <1>1, <2>1 DEF TypeOK
  <1>5. CASE Publish(t)
    <2> DEFINE message == [type |-> call[t].type, id |-> call[t].id, row |-> call[t].row]
    <2>1. CallsOK'
      BY <1>5 DEF TypeOK, CallsOK, Publish
    <2>2. message \in Sendable
      BY <1>5 DEF Publish, TypeOK, CallsOK, CallRecords, Messages, Sendable, ShowsRow
    <2>3. \A w \in Edges : \/ queue'[w] = <<>>
                           \/ queue'[w] = queue[w] /\ stream'[w] = stream[w]
                           \/ /\ queue'[w] = Append(queue[w], message)
                              /\ Len(queue[w]) # Buffer /\ stream[w] /\ stream'[w]
      BY <1>5 DEF Publish, TypeOK, LinksOK
    <2>4. queue' = [w \in Edges |-> queue'[w]] /\ stream' \in [Edges -> BOOLEAN] /\ hand' = hand
      BY <1>5 DEF Publish, TypeOK, LinksOK
    <2> HIDE DEF message
    <2>5. ASSUME NEW w \in Edges
          PROVE  /\ queue'[w] \in Seq(Sendable) /\ Len(queue'[w]) <= Buffer
                 /\ ~ stream'[w] => queue'[w] = <<>>
      <3>1. queue[w] \in Seq(Sendable) /\ Len(queue[w]) <= Buffer /\ Len(queue[w]) \in Nat
        BY DEF TypeOK, LinksOK
      <3>2. ~ stream[w] => queue[w] = <<>>
        BY DEF TypeOK, LinksOK
      <3>3. CASE queue'[w] = Append(queue[w], message) /\ Len(queue[w]) # Buffer /\ stream'[w]
        <4>1. Append(queue[w], message) \in Seq(Sendable)
              /\ Len(Append(queue[w], message)) = Len(queue[w]) + 1
          BY <2>2, <3>1
        <4>2. QED
          BY <3>1, <3>3, <4>1
      <3>4. CASE queue'[w] = <<>>
        BY <3>4
      <3>5. CASE queue'[w] = queue[w] /\ stream'[w] = stream[w]
        BY <3>1, <3>2, <3>5
      <3>6. QED
        BY <2>3, <3>3, <3>4, <3>5
    <2>6. LinksOK'
      BY <2>4, <2>5 DEF TypeOK, LinksOK
    <2>7. QED
      BY <1>1, <2>1, <2>6 DEF TypeOK
  <1>6. QED
    BY <1>3, <1>4, <1>5

LEMMA PassTypes ==
    ASSUME TypeOK, NEW w \in Edges,
           \/ Tick(w) \/ BeginPass(w) \/ ListFails(w) \/ PassEnds(w) \/ PassFails(w)
           \/ \E id \in UnitIds : Upsert(w, id) \/ UpsertFails(w, id) \/ DeleteVanished(w, id)
    PROVE  TypeOK'
  <1> USE UnchangedTypes, EdgeTypes
  <1>1. LinksOK' /\ UNCHANGED <<used, writes>>
    BY DEF TypeOK, Tick, BeginPass, StartPass, ListFails, PassEnds, PassFails, PassOver, Upsert,
           UpsertFails, DeleteVanished, table
  <1>2. CASE Tick(w) \/ ListFails(w)
    <2>1. TablesOK' /\ CallsOK' /\ PassesOK' /\ due' \in [Edges -> BOOLEAN]
      BY <1>2 DEF TypeOK, Tick, ListFails, table
    <2>2. QED
      BY <1>1, <2>1 DEF TypeOK
  <1>3. CASE BeginPass(w)
    <2> DEFINE listed == units[There(w)]
               new == [todo |-> {id \in UnitIds : listed[id] # Absent}, listed |-> listed]
    <2>1. new \in Passes /\ \A id \in new.todo : new.listed[id] # Absent
      BY DEF TypeOK, TablesOK, Passes
    <2>2. pass' = [pass EXCEPT ![w] = new] /\ UNCHANGED <<table, call>>
      BY <1>3 DEF BeginPass, StartPass
    <2>3. TablesOK' /\ CallsOK' /\ due' \in [Edges -> BOOLEAN]
      BY <1>3, <2>2 DEF TypeOK, BeginPass, StartPass, table
    <2> HIDE DEF new
    <2>4. PassesOK'
      BY <2>1, <2>2 DEF TypeOK, PassesOK
    <2>5. QED
      BY <1>1, <2>3, <2>4 DEF TypeOK
  <1>4. CASE PassEnds(w) \/ PassFails(w)
    <2>1. TablesOK' /\ CallsOK' /\ due' = due
      BY <1>4 DEF TypeOK, PassEnds, PassFails, PassOver, table
    <2>2. PassesOK'
      BY <1>4 DEF TypeOK, PassesOK, PassEnds, PassFails, PassOver
    <2>3. QED
      BY <1>1, <2>1, <2>2 DEF TypeOK
  <1>5. ASSUME NEW id \in UnitIds, Upsert(w, id) \/ UpsertFails(w, id) \/ DeleteVanished(w, id)
        PROVE  TypeOK'
    <2>1. pass[w] # Nothing /\ pass[w] \in Passes /\ due' = due
      BY <1>5 DEF TypeOK, PassesOK, Upsert, UpsertFails, DeleteVanished, InPass
    <2>2. PassesOK'
      <3>1. pass' = pass \/ pass' = [pass EXCEPT ![w].todo = @ \ {id}]
        BY <1>5 DEF Upsert, UpsertFails, DeleteVanished, Upserted
      <3>2. CASE pass' = [pass EXCEPT ![w].todo = @ \ {id}]
        <4> DEFINE rest == [pass[w] EXCEPT !.todo = @ \ {id}]
        <4>1. rest \in Passes /\ rest.todo \subseteq pass[w].todo /\ rest.listed = pass[w].listed
          BY <2>1 DEF Passes
        <4>2. pass' = [pass EXCEPT ![w] = rest]
          BY <3>2
        <4> HIDE DEF rest
        <4>3. QED
          BY <2>1, <4>1, <4>2 DEF TypeOK, PassesOK
      <3>3. QED
        BY <3>1, <3>2 DEF TypeOK
    <2>3. TablesOK' /\ CallsOK'
      <3>1. CASE Upsert(w, id)
        <4>1. pass[w].listed[id] \in Rows
          BY <2>1, <3>1 DEF Upsert, TypeOK, PassesOK, Passes
        <4>2. QED
          BY <3>1, <4>1, UpsertTypes DEF Upsert, TypeOK
      <3>2. CASE UpsertFails(w, id)
        BY <3>2 DEF UpsertFails, TypeOK, table
      <3>3. CASE DeleteVanished(w, id)
        BY <3>3, DeleteTypes DEF DeleteVanished, TypeOK
      <3>4. QED
        BY <1>5, <3>1, <3>2, <3>3
    <2>4. QED
      BY <1>1, <2>1, <2>2, <2>3 DEF TypeOK
  <1>6. QED
    BY <1>2, <1>3, <1>4, <1>5

LEMMA StreamTypes ==
    ASSUME TypeOK, NEW w \in Edges,
           Connect(w) \/ Break(w) \/ Receive(w) \/ Apply(w) \/ ApplyFails(w) \/ WorkerRestarts(w)
    PROVE  TypeOK'
  <1> USE UnchangedTypes, EdgeTypes, BoundsAssumption
  <1>1. UNCHANGED <<used, writes>>
    BY DEF Connect, Break, Receive, Apply, ApplyFails, WorkerRestarts, table
  <1>2. CASE Connect(w) \/ Break(w) \/ Receive(w) \/ ApplyFails(w)
    <2>1. TablesOK' /\ CallsOK' /\ PassesOK' /\ due' \in [Edges -> BOOLEAN]
      BY <1>2 DEF TypeOK, Connect, Break, Receive, ApplyFails, table
    <2>2. CASE Connect(w) \/ Break(w) \/ ApplyFails(w)
      <3>1. LinksOK'
        <4>1. CASE Connect(w)
          BY <4>1 DEF TypeOK, LinksOK, Connect
        <4>2. CASE Break(w)
          BY <4>2 DEF TypeOK, LinksOK, Break
        <4>3. CASE ApplyFails(w)
          BY <4>3 DEF TypeOK, LinksOK, ApplyFails
        <4>4. QED
          BY <2>2, <4>1, <4>2, <4>3
      <3>2. QED
        BY <1>1, <2>1, <3>1 DEF TypeOK
    <2>3. CASE Receive(w)
      <3>1. queue[w] \in Seq(Sendable) /\ queue[w] # <<>> /\ Len(queue[w]) <= Buffer
        BY <2>3 DEF Receive, TypeOK, LinksOK
      <3>2. /\ Head(queue[w]) \in Sendable /\ Tail(queue[w]) \in Seq(Sendable)
            /\ Len(Tail(queue[w])) <= Buffer
        BY <3>1
      <3>3. LinksOK'
        BY <2>3, <3>2 DEF Receive, TypeOK, LinksOK
      <3>4. QED
        BY <1>1, <2>1, <3>3 DEF TypeOK
    <2>4. QED
      BY <1>2, <2>2, <2>3
  <1>3. CASE Apply(w)
    <2>1. hand[w] \in Sendable /\ PassesOK' /\ due' = due
      BY <1>3 DEF Apply, TypeOK, LinksOK
    <2>2. LinksOK'
      BY <1>3 DEF Apply, TypeOK, LinksOK
    <2>3. TablesOK' /\ CallsOK'
      <3>1. CASE hand[w].type = "deleted"
        BY <1>3, <2>1, <3>1, DeleteTypes DEF Apply, TypeOK, Sendable, Messages
      <3>2. CASE hand[w].type # "deleted"
        <4>1. hand[w].row \in Rows /\ hand[w].id \in UnitIds
          BY <2>1, <3>2 DEF Sendable, Messages, ShowsRow
        <4>2. QED
          BY <1>3, <3>2, <4>1, UpsertTypes DEF Apply, TypeOK
      <3>3. QED
        BY <3>1, <3>2
    <2>4. QED
      BY <1>1, <2>1, <2>2, <2>3 DEF TypeOK
  <1>4. CASE WorkerRestarts(w)
    <2>1. TablesOK' /\ CallsOK' /\ due' \in [Edges -> BOOLEAN]
      BY <1>4 DEF TypeOK, CallsOK, WorkerRestarts, table
    <2>2. PassesOK'
      BY <1>4 DEF TypeOK, PassesOK, WorkerRestarts
    <2>3. LinksOK'
      BY <1>4 DEF TypeOK, LinksOK, WorkerRestarts
    <2>4. QED
      BY <1>1, <2>1, <2>2, <2>3 DEF TypeOK
  <1>5. QED
    BY <1>2, <1>3, <1>4

LEMMA StepTypes == TypeOK /\ [Next]_vars => TypeOK'
  <1> SUFFICES ASSUME TypeOK, [Next]_vars PROVE TypeOK'
    OBVIOUS
  <1>1. CASE ClientNext
    BY <1>1, ClientTypes DEF ClientNext
  <1>2. CASE CallNext
    BY <1>2, CallTypes DEF CallNext
  <1>3. CASE PassNext
    BY <1>3, PassTypes DEF PassNext
  <1>4. CASE StreamNext
    BY <1>4, StreamTypes DEF StreamNext
  <1>5. CASE UNCHANGED vars
    BY <1>5, UnchangedTypes DEF TypeOK, vars, table
  <1>6. QED
    BY <1>1, <1>2, <1>3, <1>4, <1>5 DEF Next

(***************************************************************************)
(* Every instance's table stays consistent, and every pass, announcement   *)
(* and event well formed, for any remotes, also mutual ones.               *)
(***************************************************************************)
THEOREM MirrorTypeCorrect == Safe => []TypeOK
  <1>1. TypeOK /\ [Next]_vars => TypeOK'
    BY StepTypes
  <1>2. QED
    BY InitTypes, <1>1, PTL DEF Safe
-----------------------------------------------------------------------------
(***************************************************************************)
(* The invariant: whatever a worker of a root knows about a unit, from its *)
(* list, an event or its own table, was so at some time.                   *)
(***************************************************************************)
\* Instance n really had this row of the unit, or had lost it.
Past(n, id, row) ==
    /\ id \in used
    /\ row = Absent => ~ Has(n, id)
    /\ row # Absent /\ Has(n, id) => row.ver <= units[n][id].ver

Minted == \A n \in Nodes, id \in UnitIds : Root(n) /\ Has(n, id) => id \in used

Versions == \A n \in Nodes, id \in UnitIds : Root(n) /\ Has(n, id) => units[n][id].ver <= writes

CallsPast ==
    \A t \in Threads :
        call[t] # Nothing /\ call[t].row # Nothing /\ Root(call[t].node)
            => Past(call[t].node, call[t].id, call[t].row)

LinksPast ==
    \A w \in Edges : Root(There(w)) =>
        /\ \A i \in 1 .. Len(queue[w]) : Past(There(w), queue[w][i].id, queue[w][i].row)
        /\ hand[w] # Nothing => Past(There(w), hand[w].id, hand[w].row)

PassPast ==
    \A w \in Edges, id \in UnitIds :
        (/\ Root(There(w)) /\ pass[w] # Nothing
         /\ pass[w].listed[id] # Absent \/ Mirrored(w, id))
            => Past(There(w), id, pass[w].listed[id])

MirrorPast ==
    \A w \in Edges, id \in UnitIds :
        Root(There(w)) /\ Mirrored(w, id) => Past(There(w), id, units[Here(w)][id])

\* What a pass listed is not older than what it finds.
PassNewer ==
    \A w \in Edges, id \in UnitIds :
        (/\ Root(There(w)) /\ pass[w] # Nothing
         /\ Mirrored(w, id) /\ pass[w].listed[id] # Absent)
            => units[Here(w)][id].ver <= pass[w].listed[id].ver

MirrorInv ==
    TypeOK /\ Minted /\ Versions /\ CallsPast /\ LinksPast /\ PassPast /\ MirrorPast /\ PassNewer

(***************************************************************************)
(* What a step may do to the tables.                                       *)
(***************************************************************************)
OnlyWrites(n, id) ==
    \A m \in Nodes, other \in UnitIds :
        m # n \/ other # id => units'[m][other] = units[m][other]

NothingWritten == UNCHANGED <<units, used, writes>>

ClientWrote(n, id) ==
    /\ OnlyWrites(n, id)
    /\ used' = used \/ used' = used \union {id}
    /\ writes' = writes + 1
    /\ (id \notin used /\ id \in used') \/ Editable(n, id)
    /\ \/ units'[n][id] = Absent
       \/ units'[n][id] \in Rows /\ units'[n][id].owner = Local /\ units'[n][id].ver = writes + 1

\* Where worker w has what it writes from.
Source(w, id, row) ==
    \/ pass[w] # Nothing /\ row = pass[w].listed[id]
    \/ pass[w] = Nothing /\ hand[w] # Nothing /\ hand[w].id = id /\ hand[w].row = row

WorkerWrote(w, id, row) ==
    /\ OnlyWrites(Here(w), id)
    /\ UNCHANGED <<used, writes>>
    /\ Source(w, id, row)
    /\ row = Absent => Mirrored(w, id) /\ units'[Here(w)][id] = Absent
    /\ row # Absent => /\ Has(Here(w), id) => Mirrored(w, id)
                       /\ units'[Here(w)][id] \in Rows
                       /\ units'[Here(w)][id].owner = There(w)
                       /\ units'[Here(w)][id].ver = row.ver
                       /\ units'[Here(w)][id].name = row.name

TablesStep ==
    \/ NothingWritten
    \/ \E n \in Nodes, id \in UnitIds : ClientWrote(n, id)
    \/ \E w \in Edges, id \in UnitIds, row \in Rows \union {Absent} : WorkerWrote(w, id, row)

LEMMA WriteEffect ==
    ASSUME TablesOK, NEW n \in Nodes, NEW id \in UnitIds, NEW row, Write(n, id, row)
    PROVE  OnlyWrites(n, id) /\ units'[n][id] = row
  BY DEF TablesOK, Write, OnlyWrites

LEMMA UpsertEffect ==
    ASSUME TypeOK, NEW w \in Edges, NEW id \in UnitIds, NEW row \in Rows, Source(w, id, row),
           UpsertSynced(w, id, row), UNCHANGED <<used, writes>>
    PROVE  NothingWritten \/ WorkerWrote(w, id, row)
  <1> DEFINE mirror == [row EXCEPT !.owner = There(w)]
  <1>1. CASE UNCHANGED units
    BY <1>1 DEF NothingWritten
  <1>2. CASE Write(Here(w), id, mirror) /\ (Has(Here(w), id) => Mirrored(w, id))
    <2>1. mirror \in Rows /\ mirror.owner = There(w) /\ mirror.ver = row.ver /\ mirror.name = row.name
      BY EdgeTypes DEF Rows
    <2>2. OnlyWrites(Here(w), id) /\ units'[Here(w)][id] = mirror
      BY <1>2, WriteEffect, EdgeTypes DEF TypeOK
    <2>3. row # Absent
      BY AbsentAssumption
    <2>4. QED
      BY <1>2, <2>1, <2>2, <2>3 DEF WorkerWrote
  <1>3. QED
    BY <1>1, <1>2 DEF UpsertSynced, Mirrored

LEMMA DeleteEffect ==
    ASSUME TypeOK, NEW w \in Edges, NEW id \in UnitIds, Source(w, id, Absent),
           DeleteSynced(w, id), UNCHANGED <<used, writes>>
    PROVE  NothingWritten \/ WorkerWrote(w, id, Absent)
  <1>1. CASE UNCHANGED units
    BY <1>1 DEF NothingWritten
  <1>2. CASE Write(Here(w), id, Absent) /\ Mirrored(w, id)
    BY <1>2, WriteEffect, EdgeTypes DEF TypeOK, WorkerWrote
  <1>3. QED
    BY <1>1, <1>2 DEF DeleteSynced

LEMMA Effects == TypeOK /\ [Next]_vars => TablesStep
  <1> SUFFICES ASSUME TypeOK, [Next]_vars PROVE TablesStep
    OBVIOUS
  <1>1. ASSUME NEW c \in Clients, NEW n \in Nodes, NEW id \in UnitIds,
               \/ \E name \in Names : Create(c, n, id, name) \/ Rename(c, n, id, name)
               \/ Delete(c, n, id)
        PROVE  ClientWrote(n, id)
    <2>1. PICK row : ClientWrites(c, n, id, row) /\ (row = Absent \/ \E name \in Names : row = LocalRow(name))
      BY <1>1 DEF Create, Rename, Delete
    <2>2. OnlyWrites(n, id) /\ units'[n][id] = row /\ writes' = writes + 1
      BY <2>1, WriteEffect DEF ClientWrites, TypeOK
    <2>3. row = Absent \/ (row \in Rows /\ row.owner = Local /\ row.ver = writes + 1)
      BY <2>1 DEF LocalRow, Rows, TypeOK
    <2>4. /\ used' = used \/ used' = used \union {id}
          /\ (id \notin used /\ id \in used') \/ Editable(n, id)
      BY <1>1 DEF Create, Rename, Delete, Editable
    <2>5. QED
      BY <2>2, <2>3, <2>4 DEF ClientWrote
  <1>2. CASE ClientNext
    BY <1>1, <1>2 DEF ClientNext, TablesStep
  <1>3. CASE CallNext
    BY <1>3 DEF CallNext, ReadBack, Lose, Publish, table, TablesStep, NothingWritten
  <1>4. ASSUME NEW w \in Edges, NEW id \in UnitIds, Upsert(w, id)
        PROVE  TablesStep
    <2>1. pass[w] # Nothing /\ pass[w].listed[id] \in Rows
      BY <1>4 DEF Upsert, InPass, TypeOK, PassesOK, Passes
    <2>2. Source(w, id, pass[w].listed[id])
      BY <2>1 DEF Source
    <2>3. QED
      BY <1>4, <2>1, <2>2, UpsertEffect DEF Upsert, TablesStep
  <1>5. ASSUME NEW w \in Edges, NEW id \in UnitIds, DeleteVanished(w, id)
        PROVE  TablesStep
    <2>1. Source(w, id, Absent)
      BY <1>5 DEF DeleteVanished, InPass, Vanished, Source
    <2>2. QED
      BY <1>5, <2>1, DeleteEffect DEF DeleteVanished, TablesStep
  <1>6. ASSUME NEW w \in Edges, Apply(w)
        PROVE  TablesStep
    <2>1. hand[w] \in Sendable /\ pass[w] = Nothing /\ hand[w] # Nothing /\ UNCHANGED <<used, writes>>
      BY <1>6 DEF Apply, MayApply, MuFree, TypeOK, LinksOK
    <2>2. hand[w].id \in UnitIds /\ hand[w].row \in Rows \union {Absent} /\ ShowsRow(hand[w])
      BY <2>1 DEF Sendable, Messages
    <2>3. Source(w, hand[w].id, hand[w].row)
      BY <2>1 DEF Source
    <2>4. CASE hand[w].type = "deleted"
      BY <1>6, <2>1, <2>2, <2>3, <2>4, DeleteEffect DEF Apply, ShowsRow, TablesStep
    <2>5. CASE hand[w].type # "deleted"
      BY <1>6, <2>1, <2>2, <2>3, <2>5, UpsertEffect DEF Apply, ShowsRow, TablesStep
    <2>6. QED
      BY <2>4, <2>5
  <1>7. CASE PassNext
    BY <1>4, <1>5, <1>7
       DEF PassNext, Tick, BeginPass, StartPass, ListFails, PassEnds, PassFails, PassOver, UpsertFails,
           table, TablesStep, NothingWritten
  <1>8. CASE StreamNext
    BY <1>6, <1>8
       DEF StreamNext, Connect, Break, Receive, ApplyFails, WorkerRestarts, table, TablesStep,
           NothingWritten
  <1>9. CASE UNCHANGED vars
    BY <1>9 DEF vars, table, TablesStep, NothingWritten
  <1>10. QED
    BY <1>2, <1>3, <1>7, <1>8, <1>9 DEF Next

\* Only its own clients write to the table of a root, and what was stays past.
LEMMA PastStays ==
    ASSUME MirrorInv, TypeOK', TablesStep,
           NEW n \in Nodes, Root(n), NEW id \in UnitIds, NEW row \in Rows \union {Absent},
           Past(n, id, row)
    PROVE  Past(n, id, row)'
  <1>1. CASE NothingWritten
    BY <1>1 DEF NothingWritten, Past, Has
  <1>2. ASSUME NEW m \in Nodes, NEW other \in UnitIds, ClientWrote(m, other)
        PROVE  Past(n, id, row)'
    <2>1. CASE m # n \/ other # id
      BY <1>2, <2>1 DEF ClientWrote, OnlyWrites, Past, Has
    <2>2. CASE m = n /\ other = id
      <3>1. Has(n, id) /\ units[n][id] \in Rows /\ units[n][id].ver <= writes
        BY <1>2, <2>2 DEF ClientWrote, Past, Editable, MirrorInv, Versions, TypeOK, TablesOK, Has
      <3>2. row # Absent /\ row \in Rows /\ row.ver <= units[n][id].ver
        BY <3>1 DEF Past
      <3>3. id \in used' /\ (Has(n, id)' => row.ver <= units'[n][id].ver)
        <4>1. id \in used'
          BY <1>2, <2>2 DEF ClientWrote, Past
        <4>2. Has(n, id)' => units'[n][id].ver = writes + 1
          BY <1>2, <2>2 DEF ClientWrote, Has
        <4>3. QED
          BY <4>1, <4>2, <3>1, <3>2 DEF Rows, MirrorInv, TypeOK
      <3>4. QED
        BY <3>2, <3>3 DEF Past
    <2>3. QED
      BY <2>1, <2>2
  <1>3. ASSUME NEW w \in Edges, NEW other \in UnitIds, NEW new \in Rows \union {Absent},
               WorkerWrote(w, other, new)
        PROVE  Past(n, id, row)'
    <2>1. Here(w) # n
      BY DEF Root
    <2>2. QED
      BY <1>3, <2>1 DEF WorkerWrote, OnlyWrites, Past, Has
  <1>4. QED
    BY <1>1, <1>2, <1>3 DEF TablesStep

LEMMA InitMirror == Init => MirrorInv
  <1> SUFFICES ASSUME Init PROVE MirrorInv
    OBVIOUS
  <1>1. TypeOK
    BY InitTypes
  <1>2. Minted /\ \A n \in Nodes, id \in UnitIds : Has(n, id) => units[n][id].owner = Local /\ units[n][id].ver = 0
    BY DEF Init, Minted, Has, Root
  <1>3. Versions /\ MirrorPast /\ PassNewer
    BY <1>2, EdgeTypes DEF Versions, MirrorPast, PassNewer, Mirrored, Init
  <1>4. CallsPast /\ LinksPast /\ PassPast
    BY DEF Init, CallsPast, LinksPast, PassPast
  <1>5. QED
    BY <1>1, <1>2, <1>3, <1>4 DEF MirrorInv

LEMMA StepTables ==
    ASSUME MirrorInv, TypeOK', TablesStep
    PROVE  Minted' /\ Versions'
  <1>1. CASE NothingWritten
    BY <1>1 DEF NothingWritten, MirrorInv, Minted, Versions, Has, Root
  <1>2. ASSUME NEW m \in Nodes, NEW other \in UnitIds, ClientWrote(m, other)
        PROVE  Minted' /\ Versions'
    <2>1. ASSUME NEW n \in Nodes, NEW id \in UnitIds
          PROVE  \/ units'[n][id] = units[n][id]
                 \/ n = m /\ id = other /\ (Has(m, other)' => units'[m][other].ver = writes')
      <3>1. n # m \/ id # other => units'[n][id] = units[n][id]
        BY <1>2 DEF ClientWrote, OnlyWrites
      <3>2. Has(m, other)' => units'[m][other].ver = writes'
        BY <1>2 DEF ClientWrote, Has
      <3>3. QED
        BY <3>1, <3>2
    <2>2. /\ Root(m) => other \in used'
          /\ used \subseteq used' /\ writes' = writes + 1 /\ writes \in Nat
      BY <1>2, BoundsAssumption DEF ClientWrote, MirrorInv, TypeOK, Minted, Editable
    <2>3. Minted'
      BY <2>1, <2>2 DEF MirrorInv, Minted, Has, Root
    <2>4. ASSUME NEW n \in Nodes, NEW id \in UnitIds, Root(n), Has(n, id)'
          PROVE  units'[n][id].ver <= writes'
      <3>1. CASE units'[n][id] = units[n][id]
        <4>1. units[n][id] \in Rows /\ units[n][id].ver <= writes
          BY <2>4, <3>1 DEF MirrorInv, Versions, Has, TypeOK, TablesOK
        <4>2. QED
          BY <2>2, <3>1, <4>1 DEF Rows
      <3>2. QED
        BY <2>1, <2>2, <2>4, <3>1
    <2>5. Versions'
      BY <2>4 DEF Versions, Root
    <2>6. QED
      BY <2>3, <2>5
  <1>3. ASSUME NEW w \in Edges, NEW other \in UnitIds, NEW new \in Rows \union {Absent},
               WorkerWrote(w, other, new)
        PROVE  Minted' /\ Versions'
    <2>1. UNCHANGED <<used, writes>>
      BY <1>3 DEF WorkerWrote
    <2>2. \A n \in Nodes, id \in UnitIds : Root(n) => units'[n][id] = units[n][id]
      BY <1>3 DEF WorkerWrote, OnlyWrites, Root
    <2>3. Versions'
      BY <2>1, <2>2 DEF MirrorInv, Versions, Has, Root
    <2>4. Minted'
      BY <2>1, <2>2 DEF MirrorInv, Minted, Has, Root
    <2>5. QED
      BY <2>3, <2>4
  <1>4. QED
    BY <1>1, <1>2, <1>3 DEF TablesStep

\* Everything a worker of a root writes is past.
LEMMA SourcePast ==
    ASSUME MirrorInv, NEW w \in Edges, Root(There(w)), NEW id \in UnitIds,
           NEW row \in Rows \union {Absent}, WorkerWrote(w, id, row)
    PROVE  Past(There(w), id, row)
  <1>1. CASE pass[w] # Nothing /\ row = pass[w].listed[id]
    BY <1>1 DEF MirrorInv, PassPast, WorkerWrote
  <1>2. CASE pass[w] = Nothing /\ hand[w] # Nothing /\ hand[w].id = id /\ hand[w].row = row
    BY <1>2 DEF MirrorInv, LinksPast
  <1>3. QED
    BY <1>1, <1>2 DEF WorkerWrote, Source

\* A mirrored row is as it was, or what its own worker just wrote.
LEMMA MirroredStep ==
    ASSUME MirrorInv, TablesStep, NEW w \in Edges, NEW id \in UnitIds, Mirrored(w, id)'
    PROVE  \/ Mirrored(w, id) /\ units'[Here(w)][id] = units[Here(w)][id]
           \/ \E row \in Rows : WorkerWrote(w, id, row)
  <1>1. CASE units'[Here(w)][id] = units[Here(w)][id]
    BY <1>1 DEF Mirrored, Has
  <1>2. ASSUME NEW m \in Nodes, NEW other \in UnitIds, ClientWrote(m, other),
               units'[Here(w)][id] # units[Here(w)][id]
        PROVE  FALSE
    <2>1. m = Here(w) /\ other = id
      BY <1>2, EdgeTypes DEF ClientWrote, OnlyWrites
    <2>2. QED
      BY <1>2, <2>1, EdgeTypes DEF ClientWrote, Mirrored, Has
  <1>3. ASSUME NEW v \in Edges, NEW other \in UnitIds, NEW row \in Rows \union {Absent},
               WorkerWrote(v, other, row), units'[Here(w)][id] # units[Here(w)][id]
        PROVE  row \in Rows /\ WorkerWrote(w, id, row)
    <2>1. Here(v) = Here(w) /\ other = id
      BY <1>3, EdgeTypes DEF WorkerWrote, OnlyWrites
    <2>2. row # Absent
      BY <1>3, <2>1 DEF WorkerWrote, Mirrored, Has
    <2>3. There(v) = There(w)
      BY <1>3, <2>1, <2>2 DEF WorkerWrote, Mirrored
    <2>4. v = w
      BY <2>1, <2>3, EdgeTypes
    <2>5. QED
      BY <1>3, <2>1, <2>2, <2>4
  <1>4. QED
    BY <1>1, <1>2, <1>3 DEF TablesStep, NothingWritten

LEMMA StepMirror ==
    ASSUME MirrorInv, TypeOK', TablesStep
    PROVE  MirrorPast'
  <1> SUFFICES ASSUME NEW w \in Edges, NEW id \in UnitIds, Root(There(w)), Mirrored(w, id)'
               PROVE  Past(There(w), id, units[Here(w)][id])'
    BY DEF MirrorPast, Root
  <1>1. There(w) \in Nodes /\ There(w) # Here(w) /\ Here(w) \in Nodes
    BY EdgeTypes
  <1>2. CASE Mirrored(w, id) /\ units'[Here(w)][id] = units[Here(w)][id]
    <2>1. units[Here(w)][id] \in Rows \union {Absent} /\ Past(There(w), id, units[Here(w)][id])
      BY <1>1, <1>2 DEF MirrorInv, MirrorPast, TypeOK, TablesOK
    <2>2. Past(There(w), id, units[Here(w)][id])'
      <3> DEFINE row == units[Here(w)][id]
      <3>1. ASSUME NEW r \in Rows \union {Absent}, Past(There(w), id, r)
            PROVE  Past(There(w), id, r)'
        BY <1>1, <3>1, PastStays
      <3>2. PICK r \in Rows \union {Absent} : r = units[Here(w)][id]
        BY <2>1
      <3>3. Past(There(w), id, r)'
        BY <2>1, <3>1, <3>2
      <3>4. QED
        BY <1>2, <3>2, <3>3 DEF Past, Has
    <2>3. QED
      BY <2>2
  <1>3. ASSUME NEW row \in Rows, WorkerWrote(w, id, row)
        PROVE  Past(There(w), id, units[Here(w)][id])'
    <2>1. Past(There(w), id, row)
      BY <1>3, SourcePast
    <2>2. Past(There(w), id, row)'
      BY <1>1, <2>1, PastStays
    <2>3. units'[Here(w)][id] # Absent /\ units'[Here(w)][id].ver = row.ver /\ row # Absent
      BY <1>3, AbsentAssumption DEF WorkerWrote
    <2>4. QED
      BY <2>2, <2>3 DEF Past, Has
  <1>4. QED
    BY <1>2, <1>3, MirroredStep

\* What happens to a pass in a step.
LEMMA PassStep ==
    ASSUME TypeOK, [Next]_vars, NEW w \in Edges, pass'[w] # Nothing
    PROVE  \/ BeginPass(w)
           \/ pass[w] # Nothing /\ pass'[w].listed = pass[w].listed
  <1>1. CASE UNCHANGED pass
    BY <1>1
  <1>2. ASSUME NEW v \in Edges, BeginPass(v) \/ PassEnds(v) \/ PassFails(v) \/ WorkerRestarts(v)
        PROVE  \/ BeginPass(w)
               \/ pass[w] # Nothing /\ pass'[w].listed = pass[w].listed
    <2>1. CASE v = w
      BY <1>2, <2>1 DEF TypeOK, PassesOK, PassEnds, PassFails, PassOver, WorkerRestarts
    <2>2. CASE v # w
      BY <1>2, <2>2 DEF TypeOK, PassesOK, BeginPass, StartPass, PassEnds, PassFails, PassOver, WorkerRestarts
    <2>3. QED
      BY <2>1, <2>2
  <1>3. ASSUME NEW v \in Edges, NEW id \in UnitIds, Upsert(v, id) \/ UpsertFails(v, id)
        PROVE  pass[w] # Nothing /\ pass'[w].listed = pass[w].listed
    <2>1. pass' = [pass EXCEPT ![v].todo = @ \ {id}] /\ pass[v] # Nothing /\ pass[v] \in Passes
      BY <1>3 DEF Upsert, UpsertFails, Upserted, InPass, TypeOK, PassesOK
    <2> DEFINE rest == [pass[v] EXCEPT !.todo = @ \ {id}]
    <2>2. rest.listed = pass[v].listed
      BY <2>1 DEF Passes
    <2>3. pass' = [pass EXCEPT ![v] = rest]
      BY <2>1
    <2> HIDE DEF rest
    <2>4. QED
      BY <2>1, <2>2, <2>3 DEF TypeOK, PassesOK
  <1>4. CASE PassNext
    BY <1>1, <1>2, <1>3, <1>4 DEF PassNext, Tick, ListFails, DeleteVanished
  <1>5. CASE StreamNext
    BY <1>1, <1>2, <1>5 DEF StreamNext, Connect, Break, Receive, Apply, ApplyFails
  <1>6. CASE ClientNext \/ CallNext \/ UNCHANGED vars
    <2>1. CASE ClientNext
      <3>1. UNCHANGED pass
        BY <2>1 DEF ClientNext, Create, Rename, Delete, ClientWrites
      <3>2. QED
        BY <1>1, <3>1
    <2>2. CASE CallNext
      <3>1. UNCHANGED pass
        BY <2>2 DEF CallNext, ReadBack, Lose, Publish
      <3>2. QED
        BY <1>1, <3>1
    <2>3. CASE UNCHANGED vars
      BY <1>1, <2>3 DEF vars
    <2>4. QED
      BY <1>6, <2>1, <2>2, <2>3
  <1>7. QED
    BY <1>4, <1>5, <1>6 DEF Next

LEMMA StepPass ==
    ASSUME MirrorInv, TypeOK', TablesStep, [Next]_vars
    PROVE  PassPast' /\ PassNewer'
  <1> SUFFICES ASSUME NEW w \in Edges, NEW id \in UnitIds, Root(There(w)), pass'[w] # Nothing
               PROVE  /\ pass'[w].listed[id] # Absent \/ Mirrored(w, id)'
                         => Past(There(w), id, pass[w].listed[id])'
                      /\ pass'[w].listed[id] # Absent /\ Mirrored(w, id)'
                         => units'[Here(w)][id].ver <= pass'[w].listed[id].ver
    BY DEF PassPast, PassNewer, Root
  <1>1. There(w) \in Nodes /\ There(w) # Here(w) /\ Here(w) \in Nodes
    BY EdgeTypes
  <1>2. pass'[w] \in Passes /\ pass'[w].listed[id] \in Rows \union {Absent}
    BY DEF TypeOK, PassesOK, Passes
  <1>3. CASE BeginPass(w)
    <2>1. pass'[w].listed = units[There(w)] /\ UNCHANGED units /\ UNCHANGED used
      BY <1>3 DEF BeginPass, StartPass, table, MirrorInv, TypeOK, PassesOK
    <2>2. Mirrored(w, id)' => Mirrored(w, id)
      BY <2>1 DEF Mirrored, Has
    <2>3. Mirrored(w, id) => Past(There(w), id, units[Here(w)][id]) /\ units[Here(w)][id] # Absent
      BY DEF MirrorInv, MirrorPast, Mirrored, Has
    <2>4. units[There(w)][id] # Absent => id \in used /\ units[There(w)][id] \in Rows
      BY <1>1 DEF MirrorInv, Minted, TypeOK, TablesOK, Has
    <2>5. QED
      BY <2>1, <2>2, <2>3, <2>4 DEF Past, Has, Rows
  <1>4. CASE pass[w] # Nothing /\ pass'[w].listed = pass[w].listed
    <2>1. pass'[w].listed[id] # Absent \/ Mirrored(w, id)
             => Past(There(w), id, pass[w].listed[id])'
      <3>1. ASSUME Past(There(w), id, pass'[w].listed[id])
            PROVE  Past(There(w), id, pass[w].listed[id])'
        <4>1. PICK r \in Rows \union {Absent} : r = pass'[w].listed[id]
          BY <1>2
        <4>2. Past(There(w), id, r)'
          BY <1>1, <3>1, <4>1, PastStays
        <4>3. QED
          BY <4>1, <4>2 DEF Past, Has
      <3>2. pass[w].listed[id] # Absent \/ Mirrored(w, id) => Past(There(w), id, pass[w].listed[id])
        BY <1>4 DEF MirrorInv, PassPast
      <3>3. QED
        BY <1>4, <3>1, <3>2
    <2>2. CASE ~ Mirrored(w, id)'
      BY <2>1, <2>2
    <2>3. CASE Mirrored(w, id) /\ units'[Here(w)][id] = units[Here(w)][id]
      BY <1>4, <2>1, <2>3 DEF MirrorInv, PassNewer
    <2>4. ASSUME NEW row \in Rows, WorkerWrote(w, id, row)
          PROVE  pass'[w].listed[id] # Absent
                 /\ units'[Here(w)][id].ver <= pass'[w].listed[id].ver
      <3>1. row # Absent /\ row = pass[w].listed[id]
        BY <1>4, <2>4, AbsentAssumption DEF WorkerWrote, Source
      <3>2. QED
        BY <1>4, <2>4, <3>1 DEF WorkerWrote, Rows
    <2>5. QED
      BY <2>1, <2>2, <2>3, <2>4, MirroredStep
  <1>5. QED
    BY <1>3, <1>4, PassStep DEF MirrorInv

LEMMA StepCalls ==
    ASSUME MirrorInv, TypeOK', TablesStep, [Next]_vars
    PROVE  CallsPast'
  <1> SUFFICES ASSUME NEW t \in Threads, call'[t] # Nothing, call'[t].row # Nothing,
                      Root(call'[t].node)
               PROVE  Past(call[t].node, call[t].id, call[t].row)'
    BY DEF CallsPast, Root
  <1>1. /\ call'[t].node \in Nodes /\ call'[t].id \in UnitIds
        /\ call'[t].row \in Rows \union {Absent}
    BY DEF TypeOK, CallsOK, CallRecords
  <1>2. ASSUME call'[t] = call[t]
        PROVE  Past(call[t].node, call[t].id, call[t].row)'
    <2>1. PICK n \in Nodes, id \in UnitIds, row \in Rows \union {Absent} :
             n = call'[t].node /\ id = call'[t].id /\ row = call'[t].row
      BY <1>1
    <2>2. Past(n, id, row)
      BY <1>2, <2>1 DEF MirrorInv, CallsPast
    <2>3. Past(n, id, row)'
      BY <2>1, <2>2, PastStays
    <2>4. QED
      BY <2>1, <2>3 DEF Past, Has
  <1>3. ASSUME NEW c \in Clients, NEW n \in Nodes, NEW id \in UnitIds,
               \/ \E name \in Names : Create(c, n, id, name) \/ Rename(c, n, id, name)
               \/ Delete(c, n, id)
        PROVE  \/ call'[t] = call[t]
               \/ call'[t].node = n /\ call'[t].id = id /\ call'[t].row = units'[n][id]
    <2>1. c \in Threads
      BY DEF Threads
    <2>2. PICK row, type, shown : /\ ClientWrites(c, n, id, row) /\ Committed(c, n, type, id, shown)
                                  /\ shown = Nothing \/ shown = row
      BY <1>3 DEF Create, Rename, Delete
    <2>3. units'[n][id] = row
      BY <2>2, WriteEffect DEF ClientWrites, MirrorInv, TypeOK
    <2>4. t # c => call'[t] = call[t]
      BY <2>1, <2>2 DEF Committed, MirrorInv, TypeOK, CallsOK
    <2>5. t = c => call'[t] = [node |-> n, type |-> type, id |-> id, row |-> shown]
      BY <2>1, <2>2 DEF Committed, MirrorInv, TypeOK, CallsOK
    <2>6. QED
      BY <2>2, <2>3, <2>4, <2>5
  <1>4. CASE ClientNext
    <2>1. PICK c \in Clients, n \in Nodes, id \in UnitIds :
             \/ \E name \in Names : Create(c, n, id, name) \/ Rename(c, n, id, name)
             \/ Delete(c, n, id)
      BY <1>4 DEF ClientNext
    <2>2. CASE call'[t].node = n /\ call'[t].id = id /\ call'[t].row = units'[n][id]
      <3>1. id \in used'
        <4>1. id \in used' \/ Editable(n, id)
          BY <2>1 DEF Create, Rename, Delete
        <4>2. used \subseteq used'
          BY <2>1 DEF Create, Rename, Delete
        <4>3. QED
          BY <2>2, <4>1, <4>2 DEF Editable, MirrorInv, Minted
      <3>2. units'[n][id] \in Rows \union {Absent}
        BY DEF TypeOK, TablesOK
      <3>3. QED
        BY <2>2, <3>1, <3>2 DEF Past, Has, Rows
    <2>3. QED
      BY <1>2, <1>3, <2>1, <2>2
  <1>5. ASSUME NEW s \in Threads, ReadBack(s) \/ Lose(s) \/ Publish(s)
        PROVE  Past(call[t].node, call[t].id, call[t].row)'
    <2>1. CASE t # s
      BY <1>2, <1>5, <2>1 DEF ReadBack, Lose, Publish, MirrorInv, TypeOK, CallsOK
    <2>2. CASE t = s
      <3>1. ReadBack(s)
        BY <1>5, <2>2 DEF Lose, Publish, MirrorInv, TypeOK, CallsOK
      <3> DEFINE row == units[call[t].node][call[t].id]
      <3>2. call[t] \in CallRecords /\ UNCHANGED <<units, used>>
        BY <2>2, <3>1 DEF ReadBack, MirrorInv, TypeOK, CallsOK, table
      <3>3. row \in Rows \union {Absent} /\ row # Absent
            /\ call'[t].node = call[t].node /\ call'[t].id = call[t].id /\ call'[t].row = row
        BY <2>2, <3>1, <3>2 DEF ReadBack, MirrorInv, TypeOK, CallsOK, TablesOK, CallRecords
      <3>4. call[t].id \in used
        BY <3>2, <3>3 DEF MirrorInv, Minted, Has, CallRecords
      <3>5. QED
        BY <3>2, <3>3, <3>4 DEF Past, Has, Rows
    <2>3. QED
      BY <2>1, <2>2
  <1>6. ASSUME NEW w \in Edges, t # w, \A s \in Threads \ {w} : call'[s] = call[s]
        PROVE  Past(call[t].node, call[t].id, call[t].row)'
    BY <1>2, <1>6
  <1>7. ASSUME NEW w \in Edges,
               \/ UNCHANGED call
               \/ \E id \in UnitIds : \E type, row : Committed(w, Here(w), type, id, row)
               \/ call' = [call EXCEPT ![w] = Nothing]
        PROVE  Past(call[t].node, call[t].id, call[t].row)'
    <2>1. CASE UNCHANGED call
      BY <1>2, <2>1
    <2>2. CASE ~ UNCHANGED call
      <3>1. w \in Threads /\ ~ Root(Here(w))
        BY EdgeTypes DEF Root
      <3>2. \A s \in Threads \ {w} : call'[s] = call[s]
        BY <1>7, <2>2 DEF Committed, MirrorInv, TypeOK, CallsOK
      <3>3. call'[w] = Nothing \/ call'[w].node = Here(w)
        BY <1>7, <2>2, <3>1 DEF Committed, MirrorInv, TypeOK, CallsOK
      <3>4. t # w
        BY <3>1, <3>3
      <3>5. QED
        BY <1>6, <3>2, <3>4
    <2>3. QED
      BY <2>1, <2>2
  <1>8. ASSUME NEW w \in Edges,
               \/ \E id \in UnitIds : (\E row \in Rows : UpsertSynced(w, id, row)) \/ DeleteSynced(w, id)
        PROVE  \/ UNCHANGED call
               \/ \E id \in UnitIds : \E type, row : Committed(w, Here(w), type, id, row)
    BY <1>8 DEF UpsertSynced, DeleteSynced
  <1>9. CASE PassNext
    <2>1. PICK w \in Edges :
             \/ Tick(w) \/ BeginPass(w) \/ ListFails(w) \/ PassEnds(w) \/ PassFails(w)
             \/ \E id \in UnitIds : Upsert(w, id) \/ UpsertFails(w, id) \/ DeleteVanished(w, id)
      BY <1>9 DEF PassNext
    <2>2. ASSUME NEW id \in UnitIds, Upsert(w, id)
          PROVE  \E row \in Rows : UpsertSynced(w, id, row)
      BY <2>2 DEF Upsert, InPass, MirrorInv, TypeOK, PassesOK, Passes
    <2>3. \/ UNCHANGED call
          \/ \E id \in UnitIds : (\E row \in Rows : UpsertSynced(w, id, row)) \/ DeleteSynced(w, id)
      BY <2>1, <2>2 DEF Tick, BeginPass, StartPass, ListFails, PassEnds, PassFails, PassOver,
                        UpsertFails, DeleteVanished
    <2>4. QED
      BY <1>7, <1>8, <2>3
  <1>10. CASE StreamNext
    <2>1. PICK w \in Edges :
             Connect(w) \/ Break(w) \/ Receive(w) \/ Apply(w) \/ ApplyFails(w) \/ WorkerRestarts(w)
      BY <1>10 DEF StreamNext
    <2>2. CASE Apply(w)
      <3>1. hand[w] \in Sendable
        BY <2>2 DEF Apply, MirrorInv, TypeOK, LinksOK
      <3>2. hand[w].id \in UnitIds /\ (hand[w].type # "deleted" => hand[w].row \in Rows)
        BY <3>1 DEF Sendable, Messages, ShowsRow
      <3>3. (\E row \in Rows : UpsertSynced(w, hand[w].id, row)) \/ DeleteSynced(w, hand[w].id)
        BY <2>2, <3>2 DEF Apply
      <3>4. QED
        BY <1>7, <1>8, <3>2, <3>3
    <2>3. CASE ~ Apply(w)
      BY <1>7, <2>1, <2>3 DEF Connect, Break, Receive, ApplyFails, WorkerRestarts
    <2>4. QED
      BY <2>2, <2>3
  <1>11. CASE UNCHANGED vars
    BY <1>2, <1>11 DEF vars
  <1>12. QED
    BY <1>4, <1>5, <1>9, <1>10, <1>11 DEF Next, CallNext

\* What is on a link in a step: what was there before, or what is published.
LEMMA LinkStep ==
    ASSUME MirrorInv, [Next]_vars, NEW w \in Edges
    PROVE  /\ \A i \in 1 .. Len(queue'[w]) :
                 \/ \E j \in 1 .. Len(queue[w]) : queue'[w][i] = queue[w][j]
                 \/ \E t \in Threads : /\ call[t] # Nothing /\ call[t].row # Nothing
                                       /\ call[t].node = There(w)
                                       /\ queue'[w][i].id = call[t].id
                                       /\ queue'[w][i].row = call[t].row
           /\ hand'[w] # Nothing => \/ hand'[w] = hand[w]
                                    \/ \E j \in 1 .. Len(queue[w]) : hand'[w] = queue[w][j]
  <1>0. queue[w] \in Seq(Sendable) /\ Len(queue[w]) \in Nat
    BY DEF MirrorInv, TypeOK, LinksOK
  <1>1. CASE UNCHANGED links
    BY <1>0, <1>1 DEF links
  <1>2. CASE queue'[w] = <<>> /\ (hand'[w] = hand[w] \/ hand'[w] = Nothing)
    BY <1>2
  <1>3. CASE queue'[w] = queue[w] /\ (hand'[w] = hand[w] \/ hand'[w] = Nothing)
    BY <1>0, <1>3
  <1>4. ASSUME NEW t \in Threads, Publish(t)
        PROVE  /\ hand' = hand
               /\ \/ queue'[w] = <<>> \/ queue'[w] = queue[w]
                  \/ /\ call[t] # Nothing /\ call[t].row # Nothing /\ There(w) = call[t].node
                     /\ queue'[w] = Append(queue[w], [type |-> call[t].type, id |-> call[t].id,
                                                      row |-> call[t].row])
    BY <1>4 DEF Publish
  <1>5. ASSUME NEW t \in Threads, call[t] # Nothing, call[t].row # Nothing, There(w) = call[t].node,
               queue'[w] = Append(queue[w], [type |-> call[t].type, id |-> call[t].id,
                                             row |-> call[t].row])
        PROVE  \A i \in 1 .. Len(queue'[w]) :
                 \/ \E j \in 1 .. Len(queue[w]) : queue'[w][i] = queue[w][j]
                 \/ /\ call[t].node = There(w)
                    /\ queue'[w][i].id = call[t].id
                    /\ queue'[w][i].row = call[t].row
    <2> DEFINE message == [type |-> call[t].type, id |-> call[t].id, row |-> call[t].row]
    <2>1. message.id = call[t].id /\ message.row = call[t].row
      OBVIOUS
    <2>2. queue'[w] = Append(queue[w], message)
      BY <1>5
    <2> HIDE DEF message
    <2>3. /\ Len(queue'[w]) = Len(queue[w]) + 1
          /\ queue'[w][Len(queue[w]) + 1] = message
          /\ \A i \in 1 .. Len(queue[w]) : queue'[w][i] = queue[w][i]
      BY <1>0, <2>2
    <2>4. QED
      BY <1>0, <1>5, <2>1, <2>3
  <1>6. CASE CallNext
    <2>1. PICK t \in Threads : ReadBack(t) \/ Lose(t) \/ Publish(t)
      BY <1>6 DEF CallNext
    <2>2. CASE ReadBack(t) \/ Lose(t)
      BY <1>1, <2>2 DEF ReadBack, Lose
    <2>3. CASE Publish(t)
      BY <1>2, <1>3, <1>4, <1>5, <2>3
    <2>4. QED
      BY <2>1, <2>2, <2>3
  <1>7. CASE StreamNext
    <2>1. PICK v \in Edges :
             Connect(v) \/ Break(v) \/ Receive(v) \/ Apply(v) \/ ApplyFails(v) \/ WorkerRestarts(v)
      BY <1>7 DEF StreamNext
    <2>2. CASE Receive(v) /\ v = w
      <3>1. /\ queue[w] # <<>> /\ hand'[w] = Head(queue[w]) /\ queue'[w] = Tail(queue[w])
        BY <2>2 DEF Receive, MirrorInv, TypeOK, LinksOK
      <3>2. /\ Head(queue[w]) = queue[w][1] /\ Len(queue[w]) >= 1
            /\ Len(Tail(queue[w])) = Len(queue[w]) - 1
            /\ \A i \in 1 .. Len(Tail(queue[w])) : Tail(queue[w])[i] = queue[w][i + 1]
        BY <1>0, <3>1
      <3>3. hand'[w] = queue[w][1] /\ 1 \in 1 .. Len(queue[w])
        BY <1>0, <3>1, <3>2
      <3>4. \A i \in 1 .. Len(queue'[w]) :
               i + 1 \in 1 .. Len(queue[w]) /\ queue'[w][i] = queue[w][i + 1]
        BY <1>0, <3>1, <3>2
      <3>5. QED
        BY <3>3, <3>4
    <2>3. CASE Receive(v) /\ v # w
      BY <1>3, <2>3 DEF Receive, MirrorInv, TypeOK, LinksOK
    <2>4. CASE Connect(v) \/ Break(v) \/ Apply(v) \/ ApplyFails(v) \/ WorkerRestarts(v)
      <3>1. queue'[w] = queue[w] \/ queue'[w] = <<>>
        BY <2>4 DEF Connect, Break, Apply, ApplyFails, WorkerRestarts, MirrorInv, TypeOK, LinksOK
      <3>2. hand'[w] = hand[w] \/ hand'[w] = Nothing
        BY <2>4 DEF Connect, Break, Apply, ApplyFails, WorkerRestarts, MirrorInv, TypeOK, LinksOK
      <3>3. QED
        BY <1>2, <1>3, <3>1, <3>2
    <2>5. QED
      BY <2>1, <2>2, <2>3, <2>4
  <1>8. CASE ClientNext \/ PassNext \/ UNCHANGED vars
    <2>1. UNCHANGED links
      BY <1>8 DEF ClientNext, Create, Rename, Delete, ClientWrites, PassNext, Tick, BeginPass, StartPass,
                  ListFails, PassEnds, PassFails, PassOver, Upsert, UpsertFails, DeleteVanished, vars
    <2>2. QED
      BY <1>1, <2>1
  <1>9. QED
    BY <1>6, <1>7, <1>8 DEF Next

LEMMA StepLinks ==
    ASSUME MirrorInv, TypeOK', TablesStep, [Next]_vars
    PROVE  LinksPast'
  <1> SUFFICES ASSUME NEW w \in Edges, Root(There(w))
               PROVE  /\ \A i \in 1 .. Len(queue'[w]) :
                            Past(There(w), queue[w][i].id, queue[w][i].row)'
                      /\ hand'[w] # Nothing => Past(There(w), hand[w].id, hand[w].row)'
    BY DEF LinksPast, Root
  <1>1. There(w) \in Nodes
    BY EdgeTypes
  <1>2. ASSUME NEW m \in Sendable, Past(There(w), m.id, m.row)
        PROVE  Past(There(w), m.id, m.row)'
    BY <1>1, <1>2, PastStays DEF Sendable, Messages
  <1>3. \A i \in 1 .. Len(queue[w]) : queue[w][i] \in Sendable /\ Past(There(w), queue[w][i].id, queue[w][i].row)
    BY DEF MirrorInv, TypeOK, LinksOK, LinksPast
  <1>4. hand[w] # Nothing => hand[w] \in Sendable /\ Past(There(w), hand[w].id, hand[w].row)
    BY DEF MirrorInv, TypeOK, LinksOK, LinksPast
  <1>5. ASSUME NEW m \in Sendable,
               \/ \E j \in 1 .. Len(queue[w]) : m = queue[w][j]
               \/ hand[w] # Nothing /\ m = hand[w]
        PROVE  Past(There(w), m.id, m.row)'
    BY <1>2, <1>3, <1>4, <1>5
  <1>6. ASSUME NEW i \in 1 .. Len(queue'[w])
        PROVE  Past(There(w), queue[w][i].id, queue[w][i].row)'
    <2>1. PICK m \in Sendable : m = queue'[w][i]
      BY <1>6 DEF TypeOK, LinksOK
    <2>2. CASE \E j \in 1 .. Len(queue[w]) : queue'[w][i] = queue[w][j]
      BY <1>5, <2>1, <2>2 DEF Past, Has
    <2>3. ASSUME NEW t \in Threads, call[t] # Nothing, call[t].row # Nothing,
                 call[t].node = There(w), m.id = call[t].id, m.row = call[t].row
          PROVE  Past(There(w), m.id, m.row)'
      <3>1. Past(There(w), m.id, m.row)
        BY <2>3 DEF MirrorInv, CallsPast
      <3>2. QED
        BY <1>2, <3>1
    <2>4. QED
      BY <2>1, <2>2, <2>3, LinkStep DEF Past, Has
  <1>7. ASSUME hand'[w] # Nothing
        PROVE  Past(There(w), hand[w].id, hand[w].row)'
    <2>1. PICK m \in Sendable : m = hand'[w]
      BY <1>7 DEF TypeOK, LinksOK
    <2>2. Past(There(w), m.id, m.row)'
      BY <1>5, <1>7, <2>1, LinkStep
    <2>3. QED
      BY <2>1, <2>2 DEF Past, Has
  <1>8. QED
    BY <1>6, <1>7

LEMMA StepInv == MirrorInv /\ [Next]_vars => MirrorInv'
  <1> SUFFICES ASSUME MirrorInv, [Next]_vars PROVE MirrorInv'
    OBVIOUS
  <1>1. TypeOK' /\ TablesStep
    BY StepTypes, Effects DEF MirrorInv
  <1>2. QED
    BY <1>1, StepTables, StepMirror, StepPass, StepCalls, StepLinks DEF MirrorInv

THEOREM MirrorInvariant == Safe => []MirrorInv
  BY InitMirror, StepInv, PTL DEF Safe

(***************************************************************************)
(* From a root, nothing but its own deletions reaches the mirror as one.   *)
(***************************************************************************)
THEOREM DeletionsOnlyReal == Safe => DeletionsAreReal
  <1>1. ASSUME MirrorInv, [Next]_vars, NEW w \in Edges, NEW id \in UnitIds,
               Root(There(w)), Mirrored(w, id), units'[Here(w)][id] = Absent
        PROVE  units'[There(w)][id] = Absent
    <2>1. units[Here(w)][id] # Absent /\ units[Here(w)][id].owner = There(w)
      BY <1>1 DEF Mirrored, Has
    <2>2. \A m \in Nodes, other \in UnitIds : ~ ClientWrote(m, other)
             \/ units'[Here(w)][id] = units[Here(w)][id]
      <3>1. ASSUME NEW m \in Nodes, NEW other \in UnitIds, ClientWrote(m, other),
                   units'[Here(w)][id] # units[Here(w)][id]
            PROVE  FALSE
        <4>1. m = Here(w) /\ other = id
          BY <3>1, EdgeTypes DEF ClientWrote, OnlyWrites
        <4>2. id \notin used
          BY <2>1, <3>1, <4>1, EdgeTypes DEF ClientWrote, Editable
        <4>3. QED
          BY <1>1, <4>2 DEF MirrorInv, MirrorPast, Past
      <3>2. QED
        BY <3>1
    <2>3. PICK v \in Edges, other \in UnitIds, row \in Rows \union {Absent} : WorkerWrote(v, other, row)
      BY <1>1, <2>1, <2>2, Effects DEF MirrorInv, TablesStep, NothingWritten
    <2>4. Here(v) = Here(w) /\ other = id
      BY <1>1, <2>1, <2>3, EdgeTypes DEF WorkerWrote, OnlyWrites
    <2>5. row = Absent
      BY <1>1, <2>3, <2>4, AbsentAssumption DEF WorkerWrote
    <2>6. v = w
      BY <2>1, <2>3, <2>4, <2>5, EdgeTypes DEF WorkerWrote, Mirrored
    <2>7. Past(There(w), id, Absent)
      BY <1>1, <2>3, <2>4, <2>5, <2>6, SourcePast
    <2>8. units'[There(w)][id] = units[There(w)][id]
      BY <2>3, <2>4, EdgeTypes DEF WorkerWrote, OnlyWrites
    <2>9. QED
      BY <2>7, <2>8 DEF Past, Has
  <1>2. MirrorInv /\ [Next]_vars =>
          [\A w \in Edges, id \in UnitIds :
             (Root(There(w)) /\ Mirrored(w, id) /\ units'[Here(w)][id] = Absent)
                => units'[There(w)][id] = Absent]_vars
    BY <1>1
  <1>3. QED
    BY <1>2, MirrorInvariant, PTL DEF Safe, DeletionsAreReal

(***************************************************************************)
(* A pass over a root's list never puts a unit back.                       *)
(***************************************************************************)
THEOREM PassesOnlyAdvance == Safe => PassNeverRegresses
  <1>1. ASSUME MirrorInv, [Next]_vars, NEW w \in Edges, NEW id \in UnitIds,
               Root(There(w)), pass[w] # Nothing, Mirrored(w, id), units'[Here(w)][id] # Absent
        PROVE  units'[Here(w)][id].ver >= units[Here(w)][id].ver
    <2>1. units[Here(w)][id] \in Rows /\ units[Here(w)][id].owner = There(w) /\ Has(Here(w), id)
      BY <1>1, EdgeTypes DEF Mirrored, Has, MirrorInv, TypeOK, TablesOK
    <2>2. CASE units'[Here(w)][id] = units[Here(w)][id]
      BY <2>1, <2>2 DEF Rows
    <2>3. ASSUME NEW m \in Nodes, NEW other \in UnitIds, ClientWrote(m, other),
                 units'[Here(w)][id] # units[Here(w)][id]
          PROVE  FALSE
      <3>1. m = Here(w) /\ other = id
        BY <2>3, EdgeTypes DEF ClientWrote, OnlyWrites
      <3>2. id \notin used
        BY <2>1, <2>3, <3>1, EdgeTypes DEF ClientWrote, Editable
      <3>3. QED
        BY <1>1, <3>2 DEF MirrorInv, MirrorPast, Past
    <2>4. ASSUME NEW v \in Edges, NEW other \in UnitIds, NEW row \in Rows \union {Absent},
                 WorkerWrote(v, other, row), units'[Here(w)][id] # units[Here(w)][id]
          PROVE  units'[Here(w)][id].ver >= units[Here(w)][id].ver
      <3>1. Here(v) = Here(w) /\ other = id
        BY <2>4, EdgeTypes DEF WorkerWrote, OnlyWrites
      <3>2. row # Absent /\ row \in Rows
        BY <1>1, <2>4, <3>1 DEF WorkerWrote
      <3>3. v = w
        BY <2>1, <2>4, <3>1, <3>2, EdgeTypes DEF WorkerWrote, Mirrored
      <3>4. row = pass[w].listed[id] /\ units'[Here(w)][id].ver = row.ver
        BY <1>1, <2>4, <3>1, <3>2, <3>3 DEF WorkerWrote, Source
      <3>5. units[Here(w)][id].ver <= row.ver
        BY <1>1, <3>2, <3>4 DEF MirrorInv, PassNewer
      <3>6. QED
        BY <2>1, <3>2, <3>4, <3>5 DEF Rows
    <2>5. QED
      BY <1>1, <2>2, <2>3, <2>4, Effects DEF MirrorInv, TablesStep, NothingWritten
  <1>2. MirrorInv /\ [Next]_vars =>
          [\A w \in Edges, id \in UnitIds :
             (Root(There(w)) /\ pass[w] # Nothing /\ Mirrored(w, id) /\ units'[Here(w)][id] # Absent)
                => units'[Here(w)][id].ver >= units[Here(w)][id].ver]_vars
    BY <1>1
  <1>3. QED
    BY <1>2, MirrorInvariant, PTL DEF Safe, PassNeverRegresses
=============================================================================
