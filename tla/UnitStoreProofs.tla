-------------------------- MODULE UnitStoreProofs --------------------------
(***************************************************************************)
(* Proofs about UnitStore, for every set of units, remotes, threads,       *)
(* positions and timestamps and every number of transactions.              *)
(***************************************************************************)
EXTENDS UnitStore, TLAPS

USE DEF Positions, Rows, Entries, EventTypes, InFlight, Events

\* What the database stores of a position is a position again, and of none none.
LEMMA StoredPositionType ==
    ASSUME NEW p \in Positions \union {NoPosition}
    PROVE  /\ StoredPosition(p) \in Positions \union {NoPosition}
           /\ p = NoPosition <=> StoredPosition(p) = NoPosition
  <1>1. CASE p = NoPosition
    BY <1>1 DEF StoredPosition
  <1>2. CASE p # NoPosition
    <2>1. p \in Positions
      BY <1>2
    <2>2. p.ts % Precision \in Int
      BY <2>1, PrecisionAssumption
    <2>3. StoredPosition(p) \in Positions
      BY <1>2, <2>1, <2>2 DEF StoredPosition, StoredTime
    <2>4. QED
      BY <1>2, <2>3, MarkersAssumption
  <1>3. QED
    BY <1>1, <1>2

\* Positions a client submits are positions.
LEMMA SubmittedType == Submitted \subseteq Positions \union {NoPosition}
  BY TimesAssumption DEF Submitted

\* A written row is a row.
LEMMA WriteRowType ==
    ASSUME TypeOK, NEW id \in UnitIds, NEW row \in Rows, WriteRow(id, row)
    PROVE  units' \in [UnitIds -> Rows \union {Absent}]
  <1> DEFINE new == [row EXCEPT !.position = StoredPosition(row.position)]
  <1>1. new \in Rows
    BY StoredPositionType
  <1>2. units' = [units EXCEPT ![id] = new]
    BY DEF WriteRow
  <1> HIDE DEF new
  <1>3. QED
    BY <1>1, <1>2 DEF TypeOK

\* A recorded entry is an entry.
LEMMA RecordPositionType ==
    ASSUME TypeOK, NEW id \in UnitIds, NEW p \in Positions \union {NoPosition}
    PROVE  RecordPosition(id, p) \subseteq Entries
  <1>1. p # NoPosition => StoredPosition(p) \in Positions
    BY StoredPositionType
  <1>2. QED
    BY <1>1 DEF RecordPosition, TypeOK

\* The bookkeeping of a transaction keeps the types.
LEMMA CommitType ==
    ASSUME TypeOK, NEW c \in Calls, NEW by \in Remotes \union {Local}, NEW id \in UnitIds,
           NEW type \in EventTypes, NEW step \in {"get", "publish"},
           Commit(c, by, id, type, step)
    PROVE  /\ remotes' \subseteq Remotes
           /\ commits' \in Nat
           /\ used' \subseteq UnitIds
           /\ calls' \in [Calls -> InFlight \union {Idle}]
           /\ version' \in [UnitIds -> Nat]
           /\ feed' \in [UnitIds -> Events]
           /\ best' \in [UnitIds -> Events]
           /\ lost' \subseteq UnitIds
           /\ overlapped' \subseteq UnitIds
  BY DEF TypeOK, Commit

\* What a transaction leaves to its call, and that it leaves the other calls alone.
LEMMA CommittedCall ==
    ASSUME TypeOK, NEW c \in Calls, NEW by \in Remotes \union {Local}, NEW id \in UnitIds,
           NEW type \in EventTypes, NEW step \in {"get", "publish"},
           Commit(c, by, id, type, step)
    PROVE  /\ calls[c] = Idle
           /\ calls'[c] = [step |-> step, type |-> type, id |-> id,
                           remote |-> by, ver |-> commits + 1]
           /\ calls'[c] # Idle
           /\ \A d \in Calls \ {c} : calls'[d] = calls[d]
  <1>1. [step |-> step, type |-> type, id |-> id, remote |-> by,
         ver |-> commits + 1] \in InFlight
    BY DEF TypeOK
  <1>2. QED
    BY <1>1, MarkersAssumption DEF Commit, TypeOK

THEOREM TypeCorrect == Spec => []TypeOK
  <1>1. Init => TypeOK
    BY DEF Init, TypeOK, NoEvent
  <1>2. TypeOK /\ [Next]_vars => TypeOK'
    <2> SUFFICES ASSUME TypeOK, [Next]_vars PROVE TypeOK'
      OBVIOUS
    <2>1. ASSUME NEW c \in Calls, CallStep(c) PROVE TypeOK'
      <3>1. CASE GetRow(c)
        <4>1. calls[c] \in InFlight /\ calls[c].id \in UnitIds
          BY <3>1 DEF GetRow, TypeOK
        <4>2. units[calls[c].id].remote \in Remotes \union {Local}
          BY <3>1, <4>1 DEF GetRow, Present, TypeOK
        <4>3. [calls[c] EXCEPT !.step = "publish", !.remote = units[calls[c].id].remote,
                               !.ver = version[calls[c].id]] \in InFlight
          BY <4>1, <4>2 DEF TypeOK
        <4>4. QED
          BY <3>1, <4>3 DEF GetRow, TypeOK, ReadVersion, ReadRemote
      <3>2. CASE GetMissing(c)
        BY <3>2 DEF GetMissing, TypeOK
      <3>3. CASE GetFails(c)
        BY <3>3 DEF GetFails, TypeOK
      <3>4. CASE Publish(c)
        BY <3>4 DEF Publish, TypeOK
      <3>5. QED
        BY <2>1, <3>1, <3>2, <3>3, <3>4 DEF CallStep
    <2>2. ASSUME NEW c \in Calls, NEW id \in UnitIds, LocalStep(c, id) PROVE TypeOK'
      <3>1. ASSUME NEW name \in Names, NEW label \in Labels, Create(c, id, name, label)
            PROVE  TypeOK'
        <4> DEFINE row == [name |-> name, label |-> label,
                           position |-> NoPosition, remote |-> Local]
        <4>1. row \in Rows
          OBVIOUS
        <4>2. WriteRow(id, row) /\ history' = RecordPosition(id, NoPosition)
              /\ Commit(c, Local, id, "created", "publish")
          BY <3>1 DEF Create
        <4> HIDE DEF row
        <4>3. QED
          BY <4>1, <4>2, WriteRowType, RecordPositionType, CommitType DEF TypeOK
      <3>2. ASSUME NEW new \in Rows, PatchRow(c, id, new) PROVE TypeOK'
        <4>1. history' \subseteq Entries
          BY <3>2, RecordPositionType DEF PatchRow, HistoryAfter, TypeOK
        <4>2. QED
          BY <3>2, <4>1, WriteRowType, CommitType DEF PatchRow, TypeOK
      <3>3. ASSUME NEW fields \in SUBSET {"name", "label"}, NEW name \in Names,
                   NEW label \in Labels, Update(c, id, fields, name, label)
            PROVE  TypeOK'
        <4> DEFINE new == [units[id] EXCEPT !.name = IF "name" \in fields THEN name ELSE @,
                                            !.label = IF "label" \in fields THEN label ELSE @]
        <4>1. PatchRow(c, id, new)
          BY <3>3 DEF Update
        <4>2. units[id] \in Rows
          BY <4>1 DEF PatchRow, Present, TypeOK
        <4>3. new \in Rows
          BY <4>2
        <4> HIDE DEF new
        <4>4. QED
          BY <4>1, <4>3, <3>2
      <3>4. ASSUME NEW position \in Submitted, SetPosition(c, id, position) PROVE TypeOK'
        <4> DEFINE new == [units[id] EXCEPT !.position = position]
        <4>1. PatchRow(c, id, new)
          BY <3>4 DEF SetPosition
        <4>2. units[id] \in Rows
          BY <4>1 DEF PatchRow, Present, TypeOK
        <4>3. new \in Rows
          BY <4>2, SubmittedType
        <4> HIDE DEF new
        <4>4. QED
          BY <4>1, <4>3, <3>2
      <3>5. CASE Delete(c, id)
        BY <3>5, CommitType DEF Delete, RemoveRow, TypeOK
      <3>6. QED
        BY <2>2, <3>1, <3>3, <3>4, <3>5 DEF LocalStep
    <2>3. ASSUME NEW c \in Calls, NEW r \in Remotes, NEW id \in UnitIds, SyncStep(c, r, id)
          PROVE  TypeOK'
      <3>1. ASSUME NEW name \in Names, NEW label \in Labels, NEW position \in Submitted,
                   CreateSynced(c, r, id, name, label, position)
            PROVE  TypeOK'
        <4> DEFINE row == [name |-> name, label |-> label,
                           position |-> position, remote |-> r]
        <4>1. position \in Positions \union {NoPosition} /\ row \in Rows
          BY SubmittedType
        <4>2. WriteRow(id, row) /\ history' = RecordPosition(id, position)
              /\ Commit(c, r, id, "created", "get")
          BY <3>1 DEF CreateSynced
        <4> HIDE DEF row
        <4>3. QED
          BY <4>1, <4>2, WriteRowType, RecordPositionType, CommitType DEF TypeOK
      <3>2. ASSUME NEW name \in Names, NEW label \in Labels, NEW position \in Submitted,
                   UpdateSynced(c, r, id, name, label, position)
            PROVE  TypeOK'
        <4> DEFINE new == [units[id] EXCEPT !.name = name, !.label = label,
                                            !.position = position]
        <4>1. units[id] \in Rows
          BY <3>2 DEF UpdateSynced, Present, TypeOK
        <4>2. new \in Rows
          BY <4>1, SubmittedType
        <4>3. WriteRow(id, new) /\ history' = HistoryAfter(id, units[id], new)
              /\ Commit(c, r, id, "updated", "get")
          BY <3>2 DEF UpdateSynced
        <4> HIDE DEF new
        <4>4. history' \subseteq Entries
          BY <4>2, <4>3, RecordPositionType DEF HistoryAfter, TypeOK
        <4>5. QED
          BY <4>2, <4>3, <4>4, WriteRowType, CommitType DEF TypeOK
      <3>3. CASE DeleteSynced(c, r, id)
        BY <3>3, CommitType DEF DeleteSynced, RemoveRow, TypeOK
      <3>4. QED
        BY <2>3, <3>1, <3>2, <3>3 DEF SyncStep
    <2>4. ASSUME NEW r \in Remotes, DeleteRemote(r) PROVE TypeOK'
      <3>1. \A id \in UnitIds : Present(id) => [units[id] EXCEPT !.remote = Local] \in Rows
        BY DEF Present, TypeOK
      <3>2. QED
        BY <2>4, <3>1 DEF DeleteRemote, TypeOK
    <2>5. ASSUME NEW cutoff \in Cutoffs, CleanupHistory(cutoff) PROVE TypeOK'
      BY <2>5 DEF CleanupHistory, TypeOK
    <2>6. CASE Restart
      <3>1. \A id \in Backfill : id \in UnitIds /\ units[id].position \in Positions
        BY DEF Backfill, Present, TypeOK
      <3>2. history' \subseteq Entries
        BY <2>6, <3>1 DEF Restart, TypeOK
      <3>3. QED
        BY <2>6, <3>2 DEF Restart, TypeOK, NoEvent
    <2>7. CASE UNCHANGED vars
      BY <2>7 DEF vars, TypeOK
    <2>8. QED
      BY <2>1, <2>2, <2>3, <2>4, <2>5, <2>6, <2>7 DEF Next
  <1>3. QED
    BY <1>1, <1>2, PTL DEF Spec
-----------------------------------------------------------------------------
(***************************************************************************)
(* The position history.  NewestBacksPosition is not inductive alone: a    *)
(* position that is set may be older than an entry left from before the    *)
(* position was cleared, so every unit with entries needs a newest one     *)
(* (NewestExists), new entries need the largest id (ties), and a row that   *)
(* is written back must hold its position as it was stored.                *)
(***************************************************************************)
NewestIn(h, e) == \A other \in h : other.unit = e.unit => ~ Newer(other, e)

HasNewest(h) == \A e \in h : \E n \in h : n.unit = e.unit /\ NewestIn(h, n)

Backs(h, id, p) ==
    \E e \in h : /\ e.unit = id
                 /\ NewestIn(h, e)
                 /\ e.position = p \/ e.position.ts > p.ts

PositionOf(row) == row # Absent /\ row.position # NoPosition

HistoryInv ==
    /\ \A id \in UnitIds :
          PositionOf(units[id]) =>
             /\ StoredPosition(units[id].position) = units[id].position
             /\ Backs(history, id, units[id].position)
    /\ HasNewest(history)
    /\ \A e \in history : e.id <= commits

\* Rounding a rounded number changes nothing.
LEMMA RoundTwice ==
    ASSUME NEW P \in Nat \ {0}, NEW t \in Int
    PROVE  (t - (t % P)) % P = 0
  <1> DEFINE q == t \div P
             r == t % P
             s == t - r
             q2 == s \div P
             r2 == s % P
  <1>1. q \in Int /\ r \in 0..(P - 1) /\ t = P * q + r
    OBVIOUS
  <1>2. s \in Int /\ s = P * q
    BY <1>1
  <1>3. q2 \in Int /\ r2 \in 0..(P - 1) /\ s = P * q2 + r2
    BY <1>2
  <1> HIDE DEF q, r, s, q2, r2
  <1>4. P * (q - q2) = r2
    BY <1>1, <1>2, <1>3
  <1>5. CASE q - q2 >= 1
    <2>1. P * (q - q2) >= P
      BY <1>1, <1>3, <1>5
    <2>2. QED
      BY <2>1, <1>3, <1>4
  <1>6. CASE q - q2 <= -1
    <2>1. P * (q - q2) <= -P
      BY <1>1, <1>3, <1>6
    <2>2. QED
      BY <2>1, <1>3, <1>4
  <1>7. CASE q - q2 = 0
    <2>1. r2 = 0
      BY <1>1, <1>3, <1>4, <1>7
    <2>2. QED
      BY <2>1 DEF r2, s, r
  <1>8. QED
    BY <1>1, <1>3, <1>5, <1>6, <1>7

\* A stored position is stored as it is.
LEMMA StoredTwice ==
    ASSUME NEW p \in Positions \union {NoPosition}
    PROVE  StoredPosition(StoredPosition(p)) = StoredPosition(p)
  <1>1. CASE p = NoPosition
    BY <1>1 DEF StoredPosition
  <1>2. CASE p # NoPosition
    <2> DEFINE t == StoredTime(p.ts)
    <2>1. p \in Positions /\ p.ts \in Int
      BY <1>2
    <2>2. t \in Int /\ t % Precision = 0
      BY <2>1, RoundTwice, PrecisionAssumption DEF StoredTime
    <2>3. StoredTime(t) = t
      BY <2>2 DEF StoredTime
    <2>4. StoredPosition(p) = [p EXCEPT !.ts = t] /\ StoredPosition(p) # NoPosition
      BY <1>2, StoredPositionType DEF StoredPosition
    <2> HIDE DEF t
    <2>5. QED
      BY <2>1, <2>3, <2>4 DEF StoredPosition
  <1>3. QED
    BY <1>1, <1>2

\* A new entry with the largest id: the unit's newest is it or one measured later.
LEMMA AddEntry ==
    ASSUME NEW h \in SUBSET Entries, HasNewest(h), NEW k \in Nat, \A e \in h : e.id < k,
           NEW id \in UnitIds, NEW p \in Positions, NEW h2,
           h2 = h \union {[id |-> k, unit |-> id, position |-> p]}
    PROVE  /\ HasNewest(h2)
           /\ Backs(h2, id, p)
           /\ \A other \in UnitIds, q \in Positions :
                 other # id /\ Backs(h, other, q) => Backs(h2, other, q)
  <1> DEFINE new == [id |-> k, unit |-> id, position |-> p]
  <1>1. new \in Entries /\ new.id = k /\ new.unit = id /\ new.position = p /\ new \in h2
    OBVIOUS
  <1>2. h2 = h \union {new}
    OBVIOUS
  <1> HIDE DEF new
  <1>3. \A e \in h : e.unit # id /\ NewestIn(h, e) => NewestIn(h2, e)
    BY <1>1, <1>2 DEF NewestIn
  <1>4. \E n \in h2 : n.unit = id /\ NewestIn(h2, n) /\ (n.position = p \/ n.position.ts > p.ts)
    <2>1. CASE \E n \in h : n.unit = id /\ NewestIn(h, n) /\ n.position.ts > p.ts
      <3>1. PICK n \in h : n.unit = id /\ NewestIn(h, n) /\ n.position.ts > p.ts
        BY <2>1
      <3>2. ~ Newer(new, n)
        BY <1>1, <3>1 DEF Newer
      <3>3. NewestIn(h2, n)
        BY <1>2, <3>1, <3>2 DEF NewestIn
      <3>4. QED
        BY <1>2, <3>1, <3>3
    <2>2. CASE ~ \E n \in h : n.unit = id /\ NewestIn(h, n) /\ n.position.ts > p.ts
      <3>1. ASSUME NEW e \in h, e.unit = id PROVE ~ Newer(e, new)
        <4>1. PICK n \in h : n.unit = id /\ NewestIn(h, n)
          BY <3>1 DEF HasNewest
        <4>2. n.position.ts <= p.ts
          BY <2>2, <4>1
        <4>3. ~ Newer(e, n) /\ e.id < k
          BY <3>1, <4>1 DEF NewestIn
        <4>4. e.position.ts \in Int /\ n.position.ts \in Int /\ e.id \in Nat
          OBVIOUS
        <4>5. e.position.ts <= n.position.ts
          BY <4>3, <4>4 DEF Newer
        <4>6. QED
          BY <1>1, <4>2, <4>3, <4>4, <4>5 DEF Newer
      <3>2. NewestIn(h2, new)
        BY <1>1, <1>2, <3>1 DEF NewestIn, Newer
      <3>3. QED
        BY <1>1, <3>2
    <2>3. QED
      BY <2>1, <2>2
  <1>5. HasNewest(h2)
    BY <1>1, <1>2, <1>3, <1>4 DEF HasNewest
  <1>6. QED
    BY <1>2, <1>3, <1>4, <1>5 DEF Backs

\* Entries are removed, but no newest entry of the units in `kept`, and the
\* units outside `kept` lose all of theirs.
LEMMA RemoveEntries ==
    ASSUME NEW h \in SUBSET Entries, HasNewest(h), NEW h2 \in SUBSET h, NEW kept,
           \A e \in h : NewestIn(h, e) /\ e.unit \in kept => e \in h2,
           \A e \in h2 : e.unit \in kept
    PROVE  /\ HasNewest(h2)
           /\ \A id \in kept, q \in Positions : Backs(h, id, q) => Backs(h2, id, q)
  <1>1. \A e \in h2 : NewestIn(h, e) => NewestIn(h2, e)
    BY DEF NewestIn
  <1>2. HasNewest(h2)
    BY <1>1 DEF HasNewest
  <1>3. QED
    BY <1>1, <1>2 DEF Backs

\* A transaction that writes a row and records its position if it changed.
LEMMA WriteKeepsHistory ==
    ASSUME TypeOK, HistoryInv, NEW id \in UnitIds, NEW row \in Rows, NEW recorded \in BOOLEAN,
           WriteRow(id, row), commits' = commits + 1,
           history' = IF recorded THEN RecordPosition(id, row.position) ELSE history,
           ~ recorded => Present(id) /\ row.position = units[id].position
    PROVE  HistoryInv'
  <1> DEFINE p == StoredPosition(row.position)
             new == [row EXCEPT !.position = p]
  <1>1. /\ p \in Positions \union {NoPosition}
        /\ p = NoPosition <=> row.position = NoPosition
        /\ StoredPosition(p) = p
    BY StoredPositionType, StoredTwice
  <1>2. new \in Rows /\ new.position = p /\ new # Absent
    BY <1>1, MarkersAssumption
  <1>3. /\ units'[id] = new
        /\ \A other \in UnitIds \ {id} : units'[other] = units[other]
    BY DEF WriteRow, TypeOK
  <1>4. \A other \in UnitIds : PositionOf(units[other]) => units[other].position \in Positions
    BY DEF PositionOf, TypeOK
  <1> HIDE DEF p, new
  <1>5. CASE recorded /\ p # NoPosition
    <2>1. p \in Positions
      BY <1>1, <1>5
    <2>2. history' = history \union {[id |-> commits + 1, unit |-> id, position |-> p]}
      BY <1>1, <1>5 DEF RecordPosition, p
    <2>3. commits + 1 \in Nat /\ history \in SUBSET Entries /\ \A e \in history : e.id < commits + 1
      BY DEF TypeOK, HistoryInv
    <2>4. /\ HasNewest(history')
          /\ Backs(history', id, p)
          /\ \A other \in UnitIds, q \in Positions :
                other # id /\ Backs(history, other, q) => Backs(history', other, q)
      BY <2>1, <2>2, <2>3, AddEntry DEF HistoryInv
    <2>5. \A e \in history' : e.id <= commits'
      BY <2>2, <2>3 DEF TypeOK
    <2>6. ASSUME NEW u \in UnitIds, PositionOf(units'[u])
          PROVE  /\ StoredPosition(units'[u].position) = units'[u].position
                 /\ Backs(history', u, units'[u].position)
      <3>1. CASE u = id
        BY <1>1, <1>2, <1>3, <2>4, <3>1
      <3>2. CASE u # id
        BY <1>3, <1>4, <2>4, <2>6, <3>2 DEF HistoryInv
      <3>3. QED
        BY <3>1, <3>2
    <2>7. QED
      BY <2>4, <2>5, <2>6 DEF HistoryInv
  <1>6. CASE ~ (recorded /\ p # NoPosition)
    <2>1. history' = history
      BY <1>1, <1>6 DEF RecordPosition
    <2>2. \A e \in history' : e.id <= commits'
      BY <2>1 DEF HistoryInv, TypeOK
    <2>3. ASSUME NEW u \in UnitIds, PositionOf(units'[u])
          PROVE  /\ StoredPosition(units'[u].position) = units'[u].position
                 /\ Backs(history', u, units'[u].position)
      <3>1. CASE u = id
        <4>1. p # NoPosition
          BY <1>2, <1>3, <2>3, <3>1 DEF PositionOf
        <4>2. ~ recorded /\ PositionOf(units[id]) /\ row.position = units[id].position
          BY <1>1, <1>6, <4>1 DEF PositionOf, Present
        <4>3. p = units[id].position /\ Backs(history, id, p)
          BY <4>2 DEF HistoryInv, p
        <4>4. QED
          BY <1>1, <1>2, <1>3, <2>1, <3>1, <4>3
      <3>2. CASE u # id
        BY <1>3, <2>1, <2>3, <3>2 DEF HistoryInv
      <3>3. QED
        BY <3>1, <3>2
    <2>4. QED
      BY <2>1, <2>2, <2>3 DEF HistoryInv
  <1>7. QED
    BY <1>5, <1>6

\* A transaction that deletes a row and, by the cascade, the unit's history.
LEMMA RemoveKeepsHistory ==
    ASSUME TypeOK, HistoryInv, NEW id \in UnitIds, RemoveRow(id), commits' = commits + 1
    PROVE  HistoryInv'
  <1> DEFINE kept == UnitIds \ {id}
  <1>1. /\ history \in SUBSET Entries /\ history' \in SUBSET history
        /\ \A e \in history' : e.unit \in kept
        /\ \A e \in history : e.unit \in kept => e \in history'
    BY DEF RemoveRow, EntriesOf, TypeOK
  <1>2. /\ HasNewest(history')
        /\ \A u \in kept, q \in Positions : Backs(history, u, q) => Backs(history', u, q)
    <2> HIDE DEF kept
    <2>1. QED
      BY <1>1, RemoveEntries DEF HistoryInv
  <1>3. units'[id] = Absent /\ \A u \in kept : units'[u] = units[u]
    BY DEF RemoveRow, TypeOK
  <1>4. \A u \in UnitIds : PositionOf(units[u]) => units[u].position \in Positions
    BY DEF PositionOf, TypeOK
  <1>5. \A e \in history' : e.id <= commits'
    BY <1>1 DEF HistoryInv, TypeOK
  <1>6. QED
    BY <1>2, <1>3, <1>4, <1>5 DEF HistoryInv, PositionOf

\* Every step keeps HistoryInv.
LEMMA HistoryInvStep == TypeOK /\ HistoryInv /\ [Next]_vars => HistoryInv'
  <1> SUFFICES ASSUME TypeOK, HistoryInv, [Next]_vars PROVE HistoryInv'
    OBVIOUS
  <1>1. CASE UNCHANGED <<units, history, commits>>
    BY <1>1 DEF HistoryInv
  <1>2. ASSUME NEW c \in Calls, CallStep(c) PROVE HistoryInv'
    BY <1>1, <1>2 DEF CallStep, GetRow, GetMissing, GetFails, Publish
  <1>3. ASSUME NEW c \in Calls, NEW id \in UnitIds, LocalStep(c, id) PROVE HistoryInv'
    <2>1. ASSUME NEW name \in Names, NEW label \in Labels, Create(c, id, name, label)
          PROVE  HistoryInv'
      <3> DEFINE row == [name |-> name, label |-> label,
                         position |-> NoPosition, remote |-> Local]
      <3>1. row \in Rows
        OBVIOUS
      <3>2. /\ WriteRow(id, row) /\ commits' = commits + 1
            /\ history' = RecordPosition(id, row.position)
        BY <2>1 DEF Create, Commit
      <3> HIDE DEF row
      <3>3. QED
        BY <3>1, <3>2, WriteKeepsHistory
    <2>2. ASSUME NEW new \in Rows, PatchRow(c, id, new) PROVE HistoryInv'
      <3>1. /\ WriteRow(id, new) /\ commits' = commits + 1 /\ Present(id)
            /\ history' = IF ~ SamePosition(units[id], new)
                          THEN RecordPosition(id, new.position) ELSE history
        BY <2>2 DEF PatchRow, Commit, HistoryAfter
      <3>2. SamePosition(units[id], new) => new.position = units[id].position
        BY DEF SamePosition
      <3>3. (~ SamePosition(units[id], new)) \in BOOLEAN
        BY DEF SamePosition
      <3>4. QED
        BY <3>1, <3>2, <3>3, WriteKeepsHistory
    <2>3. ASSUME NEW fields \in SUBSET {"name", "label"}, NEW name \in Names,
                 NEW label \in Labels, Update(c, id, fields, name, label)
          PROVE  HistoryInv'
      <3> DEFINE new == [units[id] EXCEPT !.name = IF "name" \in fields THEN name ELSE @,
                                          !.label = IF "label" \in fields THEN label ELSE @]
      <3>1. PatchRow(c, id, new)
        BY <2>3 DEF Update
      <3>2. units[id] \in Rows
        BY <3>1 DEF PatchRow, Present, TypeOK
      <3>3. new \in Rows
        BY <3>2
      <3> HIDE DEF new
      <3>4. QED
        BY <3>1, <3>3, <2>2
    <2>4. ASSUME NEW position \in Submitted, SetPosition(c, id, position) PROVE HistoryInv'
      <3> DEFINE new == [units[id] EXCEPT !.position = position]
      <3>1. PatchRow(c, id, new)
        BY <2>4 DEF SetPosition
      <3>2. units[id] \in Rows
        BY <3>1 DEF PatchRow, Present, TypeOK
      <3>3. new \in Rows
        BY <3>2, SubmittedType
      <3> HIDE DEF new
      <3>4. QED
        BY <3>1, <3>3, <2>2
    <2>5. CASE Delete(c, id)
      BY <2>5, RemoveKeepsHistory DEF Delete, Commit
    <2>6. QED
      BY <1>3, <2>1, <2>3, <2>4, <2>5 DEF LocalStep
  <1>4. ASSUME NEW c \in Calls, NEW r \in Remotes, NEW id \in UnitIds, SyncStep(c, r, id)
        PROVE  HistoryInv'
    <2>1. ASSUME NEW name \in Names, NEW label \in Labels, NEW position \in Submitted,
                 CreateSynced(c, r, id, name, label, position)
          PROVE  HistoryInv'
      <3> DEFINE row == [name |-> name, label |-> label,
                         position |-> position, remote |-> r]
      <3>1. row \in Rows
        BY SubmittedType
      <3>2. /\ WriteRow(id, row) /\ commits' = commits + 1
            /\ history' = RecordPosition(id, row.position)
        BY <2>1 DEF CreateSynced, Commit
      <3> HIDE DEF row
      <3>3. QED
        BY <3>1, <3>2, WriteKeepsHistory
    <2>2. ASSUME NEW name \in Names, NEW label \in Labels, NEW position \in Submitted,
                 UpdateSynced(c, r, id, name, label, position)
          PROVE  HistoryInv'
      <3> DEFINE new == [units[id] EXCEPT !.name = name, !.label = label,
                                          !.position = position]
      <3>1. units[id] \in Rows
        BY <2>2 DEF UpdateSynced, Present, TypeOK
      <3>2. new \in Rows
        BY <3>1, SubmittedType
      <3>3. /\ WriteRow(id, new) /\ commits' = commits + 1 /\ Present(id)
            /\ history' = IF ~ SamePosition(units[id], new)
                          THEN RecordPosition(id, new.position) ELSE history
        BY <2>2 DEF UpdateSynced, Commit, HistoryAfter
      <3> HIDE DEF new
      <3>4. SamePosition(units[id], new) => new.position = units[id].position
        BY DEF SamePosition
      <3>5. (~ SamePosition(units[id], new)) \in BOOLEAN
        BY DEF SamePosition
      <3>6. QED
        BY <3>2, <3>3, <3>4, <3>5, WriteKeepsHistory
    <2>3. CASE DeleteSynced(c, r, id)
      BY <2>3, RemoveKeepsHistory DEF DeleteSynced, Commit
    <2>4. QED
      BY <1>4, <2>1, <2>2, <2>3 DEF SyncStep
  <1>5. ASSUME NEW r \in Remotes, DeleteRemote(r) PROVE HistoryInv'
    <2>1. ASSUME NEW id \in UnitIds
          PROVE  /\ PositionOf(units'[id]) <=> PositionOf(units[id])
                 /\ PositionOf(units[id]) => units'[id].position = units[id].position
      <3>1. CASE Present(id) /\ MirroredFrom(units[id], r)
        <4>1. units'[id] = [units[id] EXCEPT !.remote = Local] /\ units[id] \in Rows
          BY <1>5, <3>1 DEF DeleteRemote, Present, TypeOK
        <4>2. units'[id] \in Rows /\ units'[id].position = units[id].position
          BY <4>1
        <4>3. QED
          BY <4>1, <4>2, MarkersAssumption DEF PositionOf
      <3>2. CASE ~ (Present(id) /\ MirroredFrom(units[id], r))
        BY <1>5, <3>2 DEF DeleteRemote
      <3>3. QED
        BY <3>1, <3>2
    <2>2. history' = history /\ commits' = commits
      BY <1>5 DEF DeleteRemote
    <2>3. QED
      BY <2>1, <2>2 DEF HistoryInv
  <1>6. ASSUME NEW cutoff \in Cutoffs, CleanupHistory(cutoff) PROVE HistoryInv'
    <2>1. /\ history \in SUBSET Entries /\ history' \in SUBSET history
          /\ units' = units /\ commits' = commits
      BY <1>6 DEF CleanupHistory, TypeOK
    <2>2. \A e \in history : NewestIn(history, e) => e \in history'
      BY <1>6 DEF CleanupHistory, Expendable, IsNewest, NewestIn
    <2>3. \A e \in history' : e.unit \in UnitIds
      BY <2>1
    <2>4. /\ HasNewest(history')
          /\ \A id \in UnitIds, q \in Positions : Backs(history, id, q) => Backs(history', id, q)
      BY <2>1, <2>2, <2>3, RemoveEntries DEF HistoryInv
    <2>5. \A id \in UnitIds : PositionOf(units[id]) => units[id].position \in Positions
      BY DEF PositionOf, TypeOK
    <2>6. \A e \in history' : e.id <= commits'
      BY <2>1 DEF HistoryInv
    <2>7. QED
      BY <2>1, <2>4, <2>5, <2>6 DEF HistoryInv
  <1>7. CASE Restart
    <2>1. Backfill = {}
      BY DEF Backfill, HistoryInv, PositionOf, Present, Backs, EntriesOf
    <2>2. history' = history /\ units' = units /\ commits' = commits + 1
      BY <1>7, <2>1 DEF Restart
    <2>3. QED
      BY <2>2 DEF HistoryInv, TypeOK
  <1>8. CASE UNCHANGED vars
    BY <1>1, <1>8 DEF vars
  <1>9. QED
    BY <1>2, <1>3, <1>4, <1>5, <1>6, <1>7, <1>8 DEF Next

\* HistoryInv holds of every reachable state.
THEOREM HistoryInvariant == Spec => []HistoryInv
  <1>1. Init => HistoryInv
    BY DEF Init, HistoryInv, PositionOf, HasNewest
  <1>2. QED
    BY <1>1, TypeCorrect, HistoryInvStep, PTL DEF Spec

\* The newest entry of a unit with a position is that position or a later one.
THEOREM NewestBacked == Spec => []NewestBacksPosition
  <1>1. HistoryInv => NewestBacksPosition
    BY DEF HistoryInv, NewestBacksPosition, PositionOf, Present, Backs, NewestIn, IsNewest
  <1>2. QED
    BY <1>1, HistoryInvariant, PTL

\* A start of the process finds no unit to backfill.
THEOREM BackfillIsDone == Spec => []BackfillFindsNothing
  <1>1. HistoryInv => BackfillFindsNothing
    BY DEF HistoryInv, BackfillFindsNothing, Backfill, PositionOf, Present, Backs, EntriesOf
  <1>2. QED
    BY <1>1, HistoryInvariant, PTL
-----------------------------------------------------------------------------
(***************************************************************************)
(* The events.  EveryChangeAnnounced needs to know why a Get that finds    *)
(* nothing may drop its event: the call's change is not the newest one, as *)
(* a call before its Get that carries the newest version finds the row.    *)
(***************************************************************************)
Honest(call, ver, row) ==
    /\ call.ver <= ver
    /\ call.step = "get" => call.type # "deleted"
    /\ call.ver = ver => (call.type = "deleted" <=> row = Absent)

AnnounceInv ==
    /\ \A id \in UnitIds : version[id] <= commits /\ best[id].ver <= version[id]
    /\ \A c \in Calls : calls[c] # Idle =>
          Honest(calls[c], version[calls[c].id], units[calls[c].id])
    /\ EveryChangeAnnounced
    /\ NewestEventTellsTruth

\* A transaction's new version is carried by its call.
LEMMA CommitAnnounces ==
    ASSUME TypeOK, TypeOK', AnnounceInv, NEW c \in Calls, NEW by \in Remotes \union {Local},
           NEW id \in UnitIds, NEW type \in EventTypes, NEW step \in {"get", "publish"},
           Commit(c, by, id, type, step),
           step = "get" => type # "deleted",
           type = "deleted" <=> units'[id] = Absent,
           \A other \in UnitIds \ {id} : units'[other] = units[other]
    PROVE  AnnounceInv'
  <1>1. /\ version'[id] = commits + 1
        /\ \A other \in UnitIds \ {id} : version'[other] = version[other]
        /\ commits' = commits + 1 /\ best' = best /\ lost' = lost \ {id}
    BY DEF Commit, TypeOK
  <1>2. /\ calls[c] = Idle
        /\ calls'[c] = [step |-> step, type |-> type, id |-> id,
                        remote |-> by, ver |-> commits + 1]
        /\ calls'[c] # Idle
        /\ \A d \in Calls \ {c} : calls'[d] = calls[d]
    BY CommittedCall DEF Commit, TypeOK
  <1>3. \A u \in UnitIds : version[u] \in Nat /\ best[u].ver \in Nat /\ commits \in Nat
    BY DEF TypeOK
  <1>4. \A u \in UnitIds : version'[u] <= commits' /\ best'[u].ver <= version'[u]
    BY <1>1, <1>3 DEF AnnounceInv
  <1>5. ASSUME NEW d \in Calls, calls'[d] # Idle
        PROVE  Honest(calls'[d], version'[calls'[d].id], units'[calls'[d].id])
    <2>1. CASE d = c
      BY <1>1, <1>2, <1>3, <2>1 DEF Honest
    <2>2. CASE d # c
      <3>1. calls[d] \in InFlight /\ calls'[d] = calls[d]
        BY <1>2, <1>5, <2>2 DEF TypeOK
      <3>2. calls[d].ver \in Nat /\ calls[d].id \in UnitIds
        BY <3>1
      <3>3. CASE calls[d].id = id
        BY <1>1, <1>3, <1>5, <3>1, <3>2, <3>3 DEF AnnounceInv, Honest
      <3>4. CASE calls[d].id # id
        BY <1>1, <1>3, <1>5, <3>1, <3>2, <3>4 DEF AnnounceInv
      <3>5. QED
        BY <3>3, <3>4
    <2>3. QED
      BY <2>1, <2>2
  <1>6. EveryChangeAnnounced'
    <2> SUFFICES ASSUME NEW u \in UnitIds
                 PROVE  \/ best'[u].ver = version'[u]
                        \/ u \in lost'
                        \/ \E d \in Calls : /\ calls'[d] # Idle
                                            /\ calls'[d].id = u
                                            /\ calls'[d].ver = version'[u]
      BY DEF EveryChangeAnnounced
    <2>1. CASE u = id
      BY <1>1, <1>2, <2>1
    <2>2. CASE u # id
      BY <1>1, <1>2, <2>2 DEF AnnounceInv, EveryChangeAnnounced
    <2>3. QED
      BY <2>1, <2>2
  <1>7. NewestEventTellsTruth'
    <2> SUFFICES ASSUME NEW u \in UnitIds, best'[u].ver = version'[u], version'[u] > 0
                 PROVE  best'[u].type = "deleted" <=> ~ Present(u)'
      BY DEF NewestEventTellsTruth
    <2>1. u # id
      BY <1>1, <1>3 DEF AnnounceInv
    <2>2. QED
      BY <1>1, <2>1 DEF AnnounceInv, NewestEventTellsTruth, Present
  <1>8. QED
    BY <1>4, <1>5, <1>6, <1>7 DEF AnnounceInv

\* The steps of a call after its commit: the newest version stays covered.
LEMMA CallStepAnnounces ==
    ASSUME TypeOK, TypeOK', AnnounceInv, NEW c \in Calls, CallStep(c)
    PROVE  AnnounceInv'
  <1> DEFINE call == calls[c]
             id == calls[c].id
  <1>1. /\ call # Idle /\ call \in InFlight /\ id \in UnitIds /\ call.ver \in Nat
        /\ units' = units /\ version' = version /\ commits' = commits
        /\ \A d \in Calls \ {c} : calls'[d] = calls[d]
    BY DEF CallStep, GetRow, GetMissing, GetFails, Publish, TypeOK
  <1>2. \A u \in UnitIds : version[u] \in Nat /\ best[u].ver \in Nat
    BY DEF TypeOK
  <1>3. CASE GetRow(c)
    <2>1. calls'[c] = [call EXCEPT !.step = "publish", !.remote = units[id].remote,
                                   !.ver = version[id]]
      BY <1>3 DEF GetRow, ReadVersion, ReadRemote, TypeOK
    <2>2. /\ calls'[c] \in InFlight /\ calls'[c] # Idle
          /\ calls'[c].step = "publish" /\ calls'[c].type = call.type
          /\ calls'[c].id = id /\ calls'[c].ver = version[id]
      <3>1. units[id].remote \in Remotes \union {Local}
        BY <1>1, <1>3 DEF GetRow, Present, TypeOK
      <3>2. QED
        BY <1>1, <1>2, <2>1, <3>1, MarkersAssumption
    <2>3. call.type # "deleted" /\ Present(id) /\ best' = best /\ lost' = lost
      BY <1>1, <1>3 DEF GetRow, AnnounceInv, Honest
    <2>4. EveryChangeAnnounced'
      BY <1>1, <2>2, <2>3 DEF AnnounceInv, EveryChangeAnnounced
    <2>5. NewestEventTellsTruth'
      BY <1>1, <2>3 DEF AnnounceInv, NewestEventTellsTruth, Present
    <2>6. ASSUME NEW d \in Calls, calls'[d] # Idle
          PROVE  Honest(calls'[d], version'[calls'[d].id], units'[calls'[d].id])
      <3>1. CASE d = c
        BY <1>1, <1>2, <2>2, <2>3, <3>1 DEF Present, Honest
      <3>2. CASE d # c
        BY <1>1, <2>6, <3>2 DEF AnnounceInv
      <3>3. QED
        BY <3>1, <3>2
    <2>7. \A u \in UnitIds : version'[u] <= commits' /\ best'[u].ver <= version'[u]
      BY <1>1, <2>3 DEF AnnounceInv
    <2> HIDE DEF call, id
    <2>8. QED
      BY <2>4, <2>5, <2>6, <2>7 DEF AnnounceInv
  <1>4. CASE GetMissing(c) \/ GetFails(c) \/ Publish(c)
    <2>1. calls'[c] = Idle
      BY <1>4 DEF GetMissing, GetFails, Publish, TypeOK
    <2>2. \A d \in Calls : calls'[d] # Idle => d # c /\ calls'[d] = calls[d]
      BY <1>1, <2>1
    <2>3. \A d \in Calls : calls'[d] # Idle =>
             Honest(calls'[d], version'[calls'[d].id], units'[calls'[d].id])
      BY <1>1, <2>2 DEF AnnounceInv
    <2>4. /\ \A u \in UnitIds : version'[u] <= commits' /\ best'[u].ver <= version'[u]
          /\ NewestEventTellsTruth'
          /\ \A u \in UnitIds : best[u].ver = version[u] => best'[u].ver = version[u]
          /\ lost \subseteq lost'
          /\ call.ver = version[id] => best'[id].ver = version[id] \/ id \in lost'
      <3>1. CASE GetMissing(c)
        <4>1. best' = best /\ lost' = lost /\ ~ Present(id) /\ call.step = "get"
          BY <3>1 DEF GetMissing
        <4>2. call.ver # version[id]
          BY <1>1, <4>1 DEF AnnounceInv, Honest, Present
        <4> HIDE DEF call, id
        <4>3. QED
          BY <1>1, <4>1, <4>2 DEF AnnounceInv, NewestEventTellsTruth, Present
      <3>2. CASE GetFails(c)
        <4>1. /\ best' = best /\ lost \subseteq lost'
              /\ call.ver = version[id] => id \in lost'
          BY <3>2 DEF GetFails
        <4> HIDE DEF call, id
        <4>2. QED
          BY <1>1, <4>1 DEF AnnounceInv, NewestEventTellsTruth, Present
      <3>3. CASE Publish(c)
        <4> DEFINE ev == [type |-> call.type, remote |-> call.remote, ver |-> call.ver]
        <4>1. /\ best' = [best EXCEPT ![id] = IF ev.ver > best[id].ver THEN ev ELSE best[id]]
              /\ lost' = lost
          BY <3>3 DEF Publish
        <4>2. /\ best'[id] = IF call.ver > best[id].ver THEN ev ELSE best[id]
              /\ \A u \in UnitIds \ {id} : best'[u] = best[u]
              /\ ev.ver = call.ver /\ ev.type = call.type
          BY <1>1, <4>1 DEF TypeOK
        <4>3. /\ call.ver <= version[id] /\ best[id].ver <= version[id]
              /\ call.ver = version[id] => (call.type = "deleted" <=> ~ Present(id))
          BY <1>1 DEF AnnounceInv, Honest, Present
        <4> HIDE DEF call, id, ev
        <4>4. \A u \in UnitIds : version'[u] <= commits' /\ best'[u].ver <= version'[u]
          BY <1>1, <1>2, <4>2, <4>3 DEF AnnounceInv
        <4>5. best[id].ver = version[id] => best'[id] = best[id]
          BY <1>1, <1>2, <4>2, <4>3
        <4>6. call.ver = version[id] => best'[id].ver = version[id]
          BY <1>1, <1>2, <4>2, <4>3
        <4>7. ASSUME NEW u \in UnitIds, best'[u].ver = version[u], version[u] > 0
              PROVE  best'[u].type = "deleted" <=> ~ Present(u)
          <5>1. CASE u # id \/ best'[u] = best[u]
            <6>1. best'[u] = best[u]
              BY <4>2, <5>1
            <6>2. QED
              BY <4>7, <6>1 DEF AnnounceInv, NewestEventTellsTruth
          <5>2. CASE u = id /\ best'[u] # best[u]
            BY <4>2, <4>3, <4>7, <5>2
          <5>3. QED
            BY <5>1, <5>2
        <4>8. QED
          BY <1>1, <4>1, <4>2, <4>4, <4>5, <4>6, <4>7 DEF NewestEventTellsTruth, Present
      <3>4. QED
        BY <1>4, <3>1, <3>2, <3>3
    <2>5. EveryChangeAnnounced'
      <3> SUFFICES ASSUME NEW u \in UnitIds
                   PROVE  \/ best'[u].ver = version[u]
                          \/ u \in lost'
                          \/ \E d \in Calls : /\ calls'[d] # Idle
                                              /\ calls'[d].id = u
                                              /\ calls'[d].ver = version[u]
        BY <1>1 DEF EveryChangeAnnounced
      <3>1. CASE best[u].ver = version[u] \/ u \in lost
        BY <2>4, <3>1
      <3>2. ASSUME NEW d \in Calls, calls[d] # Idle, calls[d].id = u, calls[d].ver = version[u]
            PROVE  \/ best'[u].ver = version[u]
                   \/ u \in lost'
                   \/ \E e \in Calls : /\ calls'[e] # Idle
                                       /\ calls'[e].id = u
                                       /\ calls'[e].ver = version[u]
        BY <1>1, <2>4, <3>2
      <3>3. QED
        BY <3>1, <3>2 DEF AnnounceInv, EveryChangeAnnounced
    <2> HIDE DEF call, id
    <2>6. QED
      BY <2>3, <2>4, <2>5 DEF AnnounceInv
  <1>5. QED
    BY <1>3, <1>4 DEF CallStep

\* What a written row leaves in the table.
LEMMA WrittenRow ==
    ASSUME TypeOK, NEW id \in UnitIds, NEW row \in Rows, WriteRow(id, row)
    PROVE  /\ units'[id] # Absent
           /\ units'[id].name = row.name
           /\ units'[id].remote = row.remote
           /\ \A other \in UnitIds \ {id} : units'[other] = units[other]
  <1> DEFINE new == [row EXCEPT !.position = StoredPosition(row.position)]
  <1>1. new \in Rows /\ new.name = row.name /\ new.remote = row.remote
    BY StoredPositionType
  <1>2. units' = [units EXCEPT ![id] = new]
    BY DEF WriteRow
  <1> HIDE DEF new
  <1>3. QED
    BY <1>1, <1>2, MarkersAssumption DEF TypeOK

(***************************************************************************)
(* Each transaction of LocalStep and SyncStep either writes one row or     *)
(* removes one: the two shapes the proofs below distinguish.               *)
(***************************************************************************)
Writes(c, id, row) ==
    /\ row \in Rows
    /\ WriteRow(id, row)
    /\ NameFree(id, row.name)
    /\ row.remote \in remotes \union {Local}
    /\ Present(id) => row.remote = units[id].remote
    /\ history' \in {history, RecordPosition(id, row.position)}
    /\ \/ Commit(c, row.remote, id, "created", "publish") /\ row.remote = Local
       \/ Commit(c, row.remote, id, "created", "get")
       \/ Commit(c, row.remote, id, "updated", "get")

Removes(c, id) ==
    /\ Present(id)
    /\ RemoveRow(id)
    /\ Commit(c, units[id].remote, id, "deleted", "publish")

LEMMA TransactionShape ==
    ASSUME TypeOK, TableConsistent, NEW c \in Calls, NEW id \in UnitIds,
           LocalStep(c, id) \/ \E r \in Remotes : SyncStep(c, r, id)
    PROVE  (\E row \in Rows : Writes(c, id, row)) \/ Removes(c, id)
  <1>1. ASSUME NEW name \in Names, NEW label \in Labels, Create(c, id, name, label)
        PROVE  \E row \in Rows : Writes(c, id, row)
    <2> DEFINE row == [name |-> name, label |-> label,
                       position |-> NoPosition, remote |-> Local]
    <2>1. row \in Rows /\ row.name = name /\ row.remote = Local
      OBVIOUS
    <2>2. /\ ~ Present(id) /\ NameFree(id, name) /\ WriteRow(id, row)
          /\ history' = RecordPosition(id, row.position)
          /\ Commit(c, Local, id, "created", "publish")
      BY <1>1 DEF Create
    <2> HIDE DEF row
    <2>3. Writes(c, id, row)
      BY <2>1, <2>2 DEF Writes
    <2>4. QED
      BY <2>1, <2>3
  <1>2. ASSUME NEW new \in Rows, PatchRow(c, id, new), new.remote = units[id].remote
        PROVE  \E row \in Rows : Writes(c, id, row)
    <2>1. Writes(c, id, new)
      BY <1>2 DEF PatchRow, Writes, HistoryAfter, Editable
    <2>2. QED
      BY <2>1
  <1>3. ASSUME NEW fields \in SUBSET {"name", "label"}, NEW name \in Names,
               NEW label \in Labels, Update(c, id, fields, name, label)
        PROVE  \E row \in Rows : Writes(c, id, row)
    <2> DEFINE new == [units[id] EXCEPT !.name = IF "name" \in fields THEN name ELSE @,
                                        !.label = IF "label" \in fields THEN label ELSE @]
    <2>1. PatchRow(c, id, new)
      BY <1>3 DEF Update
    <2>2. units[id] \in Rows
      BY <2>1 DEF PatchRow, Present, TypeOK
    <2>3. new \in Rows /\ new.remote = units[id].remote
      BY <2>2
    <2> HIDE DEF new
    <2>4. QED
      BY <1>2, <2>1, <2>3
  <1>4. ASSUME NEW position \in Submitted, SetPosition(c, id, position)
        PROVE  \E row \in Rows : Writes(c, id, row)
    <2> DEFINE new == [units[id] EXCEPT !.position = position]
    <2>1. PatchRow(c, id, new)
      BY <1>4 DEF SetPosition
    <2>2. units[id] \in Rows
      BY <2>1 DEF PatchRow, Present, TypeOK
    <2>3. new \in Rows /\ new.remote = units[id].remote
      BY <2>2, SubmittedType
    <2> HIDE DEF new
    <2>4. QED
      BY <1>2, <2>1, <2>3
  <1>5. ASSUME NEW r \in Remotes, NEW name \in Names, NEW label \in Labels,
               NEW position \in Submitted, CreateSynced(c, r, id, name, label, position)
        PROVE  \E row \in Rows : Writes(c, id, row)
    <2> DEFINE row == [name |-> name, label |-> label, position |-> position, remote |-> r]
    <2>1. row \in Rows /\ row.name = name /\ row.remote = r /\ row.position = position
      BY SubmittedType
    <2>2. /\ ~ Present(id) /\ NameFree(id, name) /\ WriteRow(id, row) /\ r \in remotes
          /\ history' = RecordPosition(id, position)
          /\ Commit(c, r, id, "created", "get")
      BY <1>5 DEF CreateSynced
    <2> HIDE DEF row
    <2>3. Writes(c, id, row)
      BY <2>1, <2>2 DEF Writes
    <2>4. QED
      BY <2>1, <2>3
  <1>6. ASSUME NEW r \in Remotes, NEW name \in Names, NEW label \in Labels,
               NEW position \in Submitted, UpdateSynced(c, r, id, name, label, position)
        PROVE  \E row \in Rows : Writes(c, id, row)
    <2> DEFINE new == [units[id] EXCEPT !.name = name, !.label = label,
                                        !.position = position]
    <2>1. units[id] \in Rows /\ units[id].remote \in remotes \union {Local}
          /\ units[id].remote = r
      BY <1>6 DEF UpdateSynced, Present, TypeOK, TableConsistent, MirroredFrom
    <2>2. new \in Rows /\ new.name = name /\ new.remote = units[id].remote /\ new.remote = r
      BY <2>1, SubmittedType
    <2>3. /\ NameFree(id, name) /\ WriteRow(id, new)
          /\ history' = HistoryAfter(id, units[id], new)
          /\ Commit(c, r, id, "updated", "get")
      BY <1>6 DEF UpdateSynced
    <2> HIDE DEF new
    <2>4. Writes(c, id, new)
      BY <2>1, <2>2, <2>3 DEF Writes, HistoryAfter
    <2>5. QED
      BY <2>2, <2>4
  <1>7. ASSUME Delete(c, id) \/ \E r \in Remotes : DeleteSynced(c, r, id)
        PROVE  Removes(c, id)
    BY <1>7 DEF Delete, DeleteSynced, Removes, Editable, MirroredFrom
  <1>8. QED
    BY <1>1, <1>3, <1>4, <1>5, <1>6, <1>7 DEF LocalStep, SyncStep

\* Every step keeps AnnounceInv.
LEMMA AnnounceInvStep ==
    TypeOK /\ TypeOK' /\ TableConsistent /\ AnnounceInv /\ [Next]_vars => AnnounceInv'
  <1> SUFFICES ASSUME TypeOK, TypeOK', TableConsistent, AnnounceInv, [Next]_vars
               PROVE  AnnounceInv'
    OBVIOUS
  <1>1. ASSUME NEW c \in Calls, NEW id \in UnitIds,
               LocalStep(c, id) \/ \E r \in Remotes : SyncStep(c, r, id)
        PROVE  AnnounceInv'
    <2>1. ASSUME NEW row \in Rows, Writes(c, id, row) PROVE AnnounceInv'
      <3>1. units'[id] # Absent /\ \A other \in UnitIds \ {id} : units'[other] = units[other]
        BY <2>1, WrittenRow DEF Writes
      <3>2. CASE Commit(c, row.remote, id, "created", "publish")
        BY <3>1, <3>2, CommitAnnounces
      <3>3. CASE Commit(c, row.remote, id, "created", "get")
        BY <3>1, <3>3, CommitAnnounces
      <3>4. CASE Commit(c, row.remote, id, "updated", "get")
        BY <3>1, <3>4, CommitAnnounces
      <3>5. QED
        BY <2>1, <3>2, <3>3, <3>4 DEF Writes
    <2>2. ASSUME Removes(c, id) PROVE AnnounceInv'
      <3>1. units'[id] = Absent /\ \A other \in UnitIds \ {id} : units'[other] = units[other]
        BY <2>2 DEF Removes, RemoveRow, TypeOK
      <3>2. units[id].remote \in Remotes \union {Local}
        BY <2>2 DEF Removes, Present, TypeOK
      <3>3. QED
        BY <2>2, <3>1, <3>2, CommitAnnounces DEF Removes
    <2>3. QED
      BY <1>1, <2>1, <2>2, TransactionShape
  <1>2. ASSUME NEW r \in Remotes, DeleteRemote(r) PROVE AnnounceInv'
    <2>1. \A id \in UnitIds : units'[id] = Absent <=> units[id] = Absent
      <3> SUFFICES ASSUME NEW id \in UnitIds, units[id] # Absent PROVE units'[id] # Absent
        BY <1>2 DEF DeleteRemote, Present
      <3>1. units[id] \in Rows
        BY DEF TypeOK
      <3>2. [units[id] EXCEPT !.remote = Local] \in Rows
        BY <3>1
      <3>3. QED
        BY <1>2, <3>2, MarkersAssumption DEF DeleteRemote
    <2>2. /\ version' = version /\ calls' = calls /\ best' = best
          /\ lost' = lost /\ commits' = commits
      BY <1>2 DEF DeleteRemote
    <2>3. \A c \in Calls : calls[c] # Idle => calls[c].id \in UnitIds
      BY DEF TypeOK
    <2>4. ASSUME NEW c \in Calls, calls'[c] # Idle
          PROVE  Honest(calls'[c], version'[calls'[c].id], units'[calls'[c].id])
      BY <2>1, <2>2, <2>3, <2>4 DEF AnnounceInv, Honest
    <2>5. EveryChangeAnnounced' /\ NewestEventTellsTruth'
      BY <2>1, <2>2 DEF AnnounceInv, EveryChangeAnnounced, NewestEventTellsTruth, Present
    <2>6. QED
      BY <2>2, <2>4, <2>5 DEF AnnounceInv
  <1>3. CASE Restart
    <2>1. /\ \A id \in UnitIds : version'[id] = 0 /\ best'[id].ver = 0
          /\ \A c \in Calls : calls'[c] = Idle
          /\ commits' \in Nat
      BY <1>3 DEF Restart, NoEvent, TypeOK
    <2>2. QED
      BY <2>1 DEF AnnounceInv, EveryChangeAnnounced, NewestEventTellsTruth
  <1>4. CASE UNCHANGED <<units, version, calls, best, lost, commits>>
    BY <1>4 DEF AnnounceInv, EveryChangeAnnounced, NewestEventTellsTruth, Present
  <1>5. QED
    BY <1>1, <1>2, <1>3, <1>4, CallStepAnnounces DEF Next, CleanupHistory, vars

\* Every step keeps TableConsistent.
LEMMA TableConsistentStep == TypeOK /\ TableConsistent /\ [Next]_vars => TableConsistent'
  <1> SUFFICES ASSUME TypeOK, TableConsistent, [Next]_vars PROVE TableConsistent'
    OBVIOUS
  <1>1. ASSUME NEW c \in Calls, NEW id \in UnitIds,
               LocalStep(c, id) \/ \E r \in Remotes : SyncStep(c, r, id)
        PROVE  TableConsistent'
    <2>1. ASSUME NEW row \in Rows, Writes(c, id, row) PROVE TableConsistent'
      <3>1. /\ units'[id] # Absent /\ units'[id].name = row.name
            /\ units'[id].remote = row.remote
            /\ \A other \in UnitIds \ {id} : units'[other] = units[other]
        BY <2>1, WrittenRow DEF Writes
      <3>2. remotes' = remotes
        BY <2>1 DEF Writes, Commit
      <3>3. \A e \in history' : e.unit = id \/ e \in history
        BY <2>1 DEF Writes, RecordPosition
      <3>4. \A e \in history : e.unit \in UnitIds
        BY DEF TypeOK
      <3>5. QED
        BY <2>1, <3>1, <3>2, <3>3, <3>4 DEF TableConsistent, Writes, NameFree, Present
    <2>2. ASSUME Removes(c, id) PROVE TableConsistent'
      <3>1. /\ units'[id] = Absent
            /\ \A other \in UnitIds \ {id} : units'[other] = units[other]
            /\ remotes' = remotes
        BY <2>2 DEF Removes, RemoveRow, Commit, TypeOK
      <3>2. \A e \in history' : e \in history /\ e.unit # id /\ e.unit \in UnitIds
        BY <2>2 DEF Removes, RemoveRow, EntriesOf, TypeOK
      <3>3. QED
        BY <3>1, <3>2 DEF TableConsistent, Present
    <2>3. QED
      BY <1>1, <2>1, <2>2, TransactionShape
  <1>2. ASSUME NEW r \in Remotes, DeleteRemote(r) PROVE TableConsistent'
    <2>1. ASSUME NEW id \in UnitIds
          PROVE  /\ units'[id] # Absent <=> units[id] # Absent
                 /\ units[id] # Absent =>
                       /\ units'[id].name = units[id].name
                       /\ units'[id].remote =
                             IF units[id].remote = r THEN Local ELSE units[id].remote
      <3>1. CASE units[id] # Absent /\ units[id].remote = r
        <4> DEFINE new == [units[id] EXCEPT !.remote = Local]
        <4>1. new \in Rows /\ new.name = units[id].name /\ new.remote = Local
          BY <3>1 DEF TypeOK
        <4>2. units'[id] = new
          BY <1>2, <3>1 DEF DeleteRemote, Present, MirroredFrom
        <4> HIDE DEF new
        <4>3. QED
          BY <3>1, <4>1, <4>2, MarkersAssumption
      <3>2. CASE ~ (units[id] # Absent /\ units[id].remote = r)
        BY <1>2, <3>2 DEF DeleteRemote, Present, MirroredFrom
      <3>3. QED
        BY <3>1, <3>2
    <2>2. history' = history /\ remotes' = remotes \ {r} /\ \A e \in history : e.unit \in UnitIds
      BY <1>2 DEF DeleteRemote, TypeOK
    <2>3. QED
      BY <2>1, <2>2 DEF TableConsistent, Present
  <1>3. CASE units' = units /\ remotes' = remotes /\ history' \subseteq history
    BY <1>3 DEF TableConsistent, Present
  <1>4. ASSUME NEW c \in Calls, CallStep(c) PROVE TableConsistent'
    BY <1>3, <1>4 DEF CallStep, GetRow, GetMissing, GetFails, Publish
  <1>5. CASE Restart
    <2>1. units' = units /\ remotes' = remotes
      BY <1>5 DEF Restart
    <2>2. \A e \in history' : e \in history \/ (e.unit \in UnitIds /\ Present(e.unit))
      BY <1>5 DEF Restart, Backfill
    <2>3. QED
      BY <2>1, <2>2 DEF TableConsistent, Present
  <1>6. ASSUME NEW cutoff \in Cutoffs, CleanupHistory(cutoff) PROVE TableConsistent'
    BY <1>3, <1>6 DEF CleanupHistory
  <1>7. QED
    BY <1>1, <1>2, <1>3, <1>4, <1>5, <1>6 DEF Next, vars

\* No two units share a name; mirrored units' remotes and entries' units exist.
THEOREM TableStaysConsistent == Spec => []TableConsistent
  <1>1. Init => TableConsistent
    BY DEF Init, TableConsistent, Present
  <1>2. QED
    BY <1>1, TypeCorrect, TableConsistentStep, PTL DEF Spec

\* AnnounceInv holds of every reachable state.
THEOREM AnnounceInvariant == Spec => []AnnounceInv
  <1>1. Init => AnnounceInv
    BY DEF Init, AnnounceInv, EveryChangeAnnounced, NewestEventTellsTruth, NoEvent
  <1>2. QED
    BY <1>1, TypeCorrect, TableStaysConsistent, AnnounceInvStep, PTL DEF Spec

\* The newest change of every unit is published, carried or known to be lost.
THEOREM ChangesAnnounced == Spec => []EveryChangeAnnounced
  <1>1. AnnounceInv => EveryChangeAnnounced
    BY DEF AnnounceInv
  <1>2. QED
    BY <1>1, AnnounceInvariant, PTL

\* The event with a unit's newest version is a deletion exactly if the unit is gone.
THEOREM NewestEventTrue == Spec => []NewestEventTellsTruth
  <1>1. AnnounceInv => NewestEventTellsTruth
    BY DEF AnnounceInv
  <1>2. QED
    BY <1>1, AnnounceInvariant, PTL

\* The newest entry of a unit that stays is only replaced by one as recent.
THEOREM NewestStays == Spec => NewestNeverRegresses
  <1> DEFINE Kept == \A e \in history : Present(e.unit)' =>
                        \E n \in history' : n.unit = e.unit /\ n.position.ts >= e.position.ts
  <1>1. TypeOK /\ TableConsistent /\ HistoryInv /\ [Next]_vars => Kept
    <2> SUFFICES ASSUME TypeOK, TableConsistent, HistoryInv, [Next]_vars,
                        NEW e \in history, Present(e.unit)'
                 PROVE  \E n \in history' : n.unit = e.unit /\ n.position.ts >= e.position.ts
      OBVIOUS
    <2>1. e.unit \in UnitIds /\ e.position.ts \in Int
      BY DEF TypeOK
    <2>2. CASE e \in history'
      BY <2>1, <2>2
    <2>3. ASSUME NEW c \in Calls, NEW id \in UnitIds,
                 LocalStep(c, id) \/ \E r \in Remotes : SyncStep(c, r, id)
          PROVE  e \in history'
      <3>1. CASE \E row \in Rows : Writes(c, id, row)
        BY <3>1 DEF Writes, RecordPosition
      <3>2. CASE Removes(c, id)
        BY <2>1, <3>2 DEF Removes, RemoveRow, EntriesOf, Present, TypeOK
      <3>3. QED
        BY <2>3, <3>1, <3>2, TransactionShape
    <2>4. ASSUME NEW cutoff \in Cutoffs, CleanupHistory(cutoff)
          PROVE  \E n \in history' : n.unit = e.unit /\ n.position.ts >= e.position.ts
      <3>1. PICK n \in history : n.unit = e.unit /\ NewestIn(history, n)
        BY DEF HistoryInv, HasNewest
      <3>2. n \in history'
        BY <2>4, <3>1 DEF CleanupHistory, Expendable, IsNewest, NewestIn
      <3>3. ~ Newer(e, n) /\ n.position.ts \in Int
        BY <3>1 DEF NewestIn, TypeOK
      <3>4. n.position.ts >= e.position.ts
        BY <2>1, <3>3 DEF Newer
      <3>5. QED
        BY <3>1, <3>2, <3>4
    <2>5. CASE (\E c \in Calls : CallStep(c)) \/ (\E r \in Remotes : DeleteRemote(r))
               \/ Restart \/ UNCHANGED vars
      BY <2>5, <2>2 DEF CallStep, GetRow, GetMissing, GetFails, Publish, DeleteRemote,
                        Restart, vars
    <2>6. QED
      BY <2>2, <2>3, <2>4, <2>5 DEF Next
  <1>2. TypeOK /\ TableConsistent /\ HistoryInv /\ [Next]_vars => [Kept]_vars
    BY <1>1
  <1>3. QED
    BY <1>2, TypeCorrect, TableStaysConsistent, HistoryInvariant, PTL
       DEF Spec, NewestNeverRegresses

\* A released unit keeps all of its row but the owner.
LEMMA ReleasedRow ==
    ASSUME TypeOK, NEW r \in Remotes, DeleteRemote(r), NEW id \in UnitIds
    PROVE  /\ Present(id)' <=> Present(id)
           /\ Present(id) => /\ Changed(units[id], units'[id]) = {}
                             /\ units'[id].remote =
                                   IF units[id].remote = r THEN Local ELSE units[id].remote
  <1>1. CASE Present(id) /\ units[id].remote = r
    <2> DEFINE new == [units[id] EXCEPT !.remote = Local]
    <2>1. /\ new \in Rows /\ new.name = units[id].name /\ new.label = units[id].label
          /\ new.position = units[id].position /\ new.remote = Local
      BY <1>1 DEF Present, TypeOK
    <2>2. units'[id] = new
      BY <1>1 DEF DeleteRemote, MirroredFrom
    <2> HIDE DEF new
    <2>3. QED
      BY <1>1, <2>1, <2>2, MarkersAssumption DEF Present, Changed, SamePosition
  <1>2. CASE ~ (Present(id) /\ units[id].remote = r)
    <2>1. units'[id] = units[id]
      BY <1>2 DEF DeleteRemote, MirroredFrom
    <2>2. QED
      BY <1>2, <2>1 DEF Present, Changed, SamePosition
  <1>3. QED
    BY <1>1, <1>2

\* A unit is changed and deleted by its owner's calls alone.
THEOREM OwnerWrites == Spec => OnlyOwnerWrites
  <1> DEFINE ByOwner ==
        \A id \in UnitIds :
           Present(id) /\ (~ Present(id)' \/ Changed(units[id], units'[id]) # {}) =>
              \E c \in Calls : CommitsFor(c, units[id].remote, id)
  <1>1. TypeOK /\ TableConsistent /\ [Next]_vars => ByOwner
    <2> SUFFICES ASSUME TypeOK, TableConsistent, [Next]_vars, NEW u \in UnitIds, Present(u),
                        ~ Present(u)' \/ Changed(units[u], units'[u]) # {}
                 PROVE  \E c \in Calls : CommitsFor(c, units[u].remote, u)
      OBVIOUS
    <2>1. units'[u] # units[u]
      BY DEF Present, Changed, SamePosition
    <2>2. ASSUME NEW c \in Calls, NEW id \in UnitIds,
                 LocalStep(c, id) \/ \E r \in Remotes : SyncStep(c, r, id)
          PROVE  CommitsFor(c, units[u].remote, u)
      <3>1. ASSUME NEW row \in Rows, Writes(c, id, row)
            PROVE  CommitsFor(c, units[u].remote, u)
        <4>1. u = id
          BY <2>1, <3>1, WrittenRow DEF Writes
        <4>2. row.remote = units[u].remote /\ row.remote \in Remotes \union {Local}
          BY <3>1, <4>1 DEF Writes
        <4>3. PICK type \in EventTypes, step \in {"get", "publish"} :
                 Commit(c, row.remote, id, type, step)
          BY <3>1 DEF Writes
        <4>4. /\ calls[c] = Idle /\ calls'[c] # Idle
              /\ calls'[c].id = id /\ calls'[c].remote = row.remote
          BY <4>2, <4>3, CommittedCall DEF Commit, TypeOK
        <4>5. QED
          BY <4>1, <4>2, <4>4 DEF CommitsFor, InProgress
      <3>2. ASSUME Removes(c, id) PROVE CommitsFor(c, units[u].remote, u)
        <4>1. u = id
          BY <2>1, <3>2 DEF Removes, RemoveRow, TypeOK
        <4>2. units[id].remote \in Remotes \union {Local}
          BY <3>2 DEF Removes, Present, TypeOK
        <4>3. /\ calls[c] = Idle /\ calls'[c] # Idle
              /\ calls'[c].id = id /\ calls'[c].remote = units[id].remote
          BY <3>2, <4>2, CommittedCall DEF Removes, Commit, TypeOK
        <4>4. QED
          BY <4>1, <4>3 DEF CommitsFor, InProgress
      <3>3. QED
        BY <2>2, <3>1, <3>2, TransactionShape
    <2>3. ASSUME NEW r \in Remotes, DeleteRemote(r) PROVE FALSE
      BY <2>3, ReleasedRow
    <2>4. QED
      BY <2>1, <2>2, <2>3 DEF Next, CallStep, GetRow, GetMissing, GetFails, Publish,
                              CleanupHistory, Restart, vars
  <1>2. TypeOK /\ TableConsistent /\ [Next]_vars => [ByOwner]_vars
    BY <1>1
  <1>3. QED
    BY <1>2, TypeCorrect, TableStaysConsistent, PTL DEF Spec, OnlyOwnerWrites
-----------------------------------------------------------------------------
(***************************************************************************)
(* Where a client that applies the events ends.  FeedEndsInOrder needs     *)
(* that an overlap is known as one (overlapped), that without it a call    *)
(* carries its unit's newest version from its commit on, and that once it  *)
(* has read the row it shows the row's owner, but for a released unit.     *)
(***************************************************************************)
Shows(remote, id) ==
    \/ remote = units[id].remote
    \/ units[id].remote = Local /\ remote \in Remotes \ remotes

CarriesRow(c) ==
    /\ calls[c].ver = version[calls[c].id]
    /\ calls[c].step = "publish" /\ Present(calls[c].id) => Shows(calls[c].remote, calls[c].id)

FeedInv ==
    /\ \A c, d \in Calls :
          c # d /\ calls[c] # Idle /\ calls[d] # Idle /\ calls[c].id = calls[d].id
             => calls[c].id \in overlapped
    /\ \A c \in Calls : calls[c] # Idle /\ calls[c].id \notin overlapped => CarriesRow(c)
    /\ FeedEndsInOrder

\* A transaction: its call carries what is not announced.
LEMMA CommitFeeds ==
    ASSUME TypeOK, FeedInv, NEW c \in Calls, NEW by \in Remotes \union {Local},
           NEW id \in UnitIds, NEW type \in EventTypes, NEW step \in {"get", "publish"},
           Commit(c, by, id, type, step),
           step = "publish" /\ Present(id)' => by = units'[id].remote,
           \A other \in UnitIds \ {id} : units'[other] = units[other]
    PROVE  FeedInv'
  <1>1. /\ calls[c] = Idle
        /\ calls'[c] # Idle /\ calls'[c].id = id /\ calls'[c].step = step
        /\ calls'[c].remote = by /\ calls'[c].ver = version'[id]
        /\ \A d \in Calls \ {c} : calls'[d] = calls[d]
    BY CommittedCall DEF Commit, TypeOK
  <1>2. /\ feed' = feed /\ remotes' = remotes
        /\ lost' = lost \ {id}
        /\ \A other \in UnitIds \ {id} : version'[other] = version[other]
        /\ overlapped' = IF \E d \in Calls : InProgress(d, id)
                         THEN overlapped \union {id} ELSE overlapped \ {id}
    BY DEF Commit, TypeOK
  <1>3. \A d \in Calls : calls[d] # Idle => calls[d].id \in UnitIds
    BY DEF TypeOK
  <1>4. \A u \in UnitIds \ {id} : u \in overlapped' <=> u \in overlapped
    BY <1>2
  <1>5. \A d \in Calls : InProgress(d, id) => id \in overlapped'
    BY <1>2
  <1>6. ASSUME NEW d \in Calls, NEW e \in Calls, d # e, calls'[d] # Idle, calls'[e] # Idle,
               calls'[d].id = calls'[e].id
        PROVE  calls'[d].id \in overlapped'
    <2>1. CASE d = c \/ e = c
      <3>1. PICK f \in Calls \ {c} : f \in {d, e}
        BY <1>6, <2>1
      <3>2. InProgress(f, id) /\ calls'[d].id = id
        BY <1>1, <1>6, <2>1, <3>1 DEF InProgress
      <3>3. QED
        BY <1>5, <3>2
    <2>2. CASE d # c /\ e # c
      <3>1. calls'[d] = calls[d] /\ calls'[e] = calls[e]
        BY <1>1, <2>2
      <3>2. calls[d].id \in overlapped
        BY <1>6, <3>1 DEF FeedInv
      <3>3. CASE calls[d].id = id
        BY <1>5, <1>6, <3>1, <3>3 DEF InProgress
      <3>4. CASE calls[d].id # id
        BY <1>3, <1>4, <1>6, <3>1, <3>2, <3>4
      <3>5. QED
        BY <3>3, <3>4
    <2>3. QED
      BY <2>1, <2>2
  <1>7. ASSUME NEW d \in Calls, calls'[d] # Idle, calls'[d].id \notin overlapped'
        PROVE  CarriesRow(d)'
    <2>1. CASE d = c
      BY <1>1, <2>1 DEF CarriesRow, Shows
    <2>2. CASE d # c
      <3>1. calls'[d] = calls[d] /\ calls[d] # Idle /\ calls[d].id \in UnitIds
        BY <1>1, <1>3, <1>7, <2>2
      <3>2. calls[d].id # id
        BY <1>5, <1>7, <3>1 DEF InProgress
      <3>3. CarriesRow(d)
        BY <1>4, <1>7, <3>1, <3>2 DEF FeedInv
      <3>4. QED
        BY <1>2, <3>1, <3>2, <3>3 DEF CarriesRow, Shows, Present
    <2>3. QED
      BY <2>1, <2>2
  <1>8. FeedEndsInOrder'
    <2> SUFFICES ASSUME NEW u \in UnitIds, AtRest(u)', u \notin overlapped'
                 PROVE  ShowsRow(u)'
      BY DEF FeedEndsInOrder
    <2>1. u # id
      BY <1>1 DEF AtRest, InProgress
    <2>2. AtRest(u) /\ u \notin overlapped
      BY <1>1, <1>2, <1>4, <2>1 DEF AtRest, InProgress
    <2>3. ShowsRow(u)
      BY <2>2 DEF FeedInv, FeedEndsInOrder
    <2>4. QED
      BY <1>2, <2>1, <2>3 DEF ShowsRow, Present
  <1>9. QED
    BY <1>6, <1>7, <1>8 DEF FeedInv

\* A call ends or goes on to Publish: its event is the last one.
LEMMA CallStepFeeds ==
    ASSUME TypeOK, AnnounceInv, FeedInv, NEW c \in Calls, CallStep(c)
    PROVE  FeedInv'
  <1> DEFINE id == calls[c].id
  <1>1. /\ calls[c] # Idle /\ calls[c] \in InFlight /\ id \in UnitIds
        /\ version' = version /\ units' = units /\ remotes' = remotes
        /\ overlapped' = overlapped
        /\ \A d \in Calls \ {c} : calls'[d] = calls[d]
    BY DEF CallStep, GetRow, GetMissing, GetFails, Publish, TypeOK
  <1>2. id \notin overlapped => CarriesRow(c) /\ \A d \in Calls \ {c} : ~ InProgress(d, id)
    BY <1>1 DEF FeedInv, InProgress
  <1>3. CASE GetRow(c)
    <2>1. units[id].remote \in Remotes \union {Local} /\ version[id] \in Nat
      BY <1>1, <1>3 DEF GetRow, Present, TypeOK
    <2>2. calls'[c] = [calls[c] EXCEPT !.step = "publish", !.remote = units[id].remote,
                                       !.ver = version[id]]
      BY <1>3 DEF GetRow, ReadVersion, ReadRemote, TypeOK
    <2>3. /\ calls'[c] # Idle /\ calls'[c].id = id /\ calls'[c].ver = version[id]
          /\ calls'[c].remote = units[id].remote
      BY <1>1, <2>1, <2>2, MarkersAssumption
    <2>4. feed' = feed /\ lost' = lost
      BY <1>3 DEF GetRow
    <2> HIDE DEF id
    <2>5. \A d \in Calls : /\ calls'[d] = Idle <=> calls[d] = Idle
                           /\ calls[d] # Idle => calls'[d].id = calls[d].id
      BY <1>1, <2>3 DEF id
    <2>6. ASSUME NEW d \in Calls, calls'[d] # Idle, calls'[d].id \notin overlapped'
          PROVE  CarriesRow(d)'
      <3>1. CASE d = c
        BY <1>1, <2>3, <3>1 DEF CarriesRow, Shows
      <3>2. CASE d # c
        BY <1>1, <2>6, <3>2 DEF FeedInv, CarriesRow, Shows, Present
      <3>3. QED
        BY <3>1, <3>2
    <2>7. FeedEndsInOrder'
      BY <1>1, <2>4, <2>5 DEF FeedInv, FeedEndsInOrder, AtRest, InProgress, ShowsRow, Present
    <2>8. QED
      BY <1>1, <2>5, <2>6, <2>7 DEF FeedInv
  <1>4. ASSUME calls'[c] = Idle,
               \A u \in UnitIds \ {id} : feed'[u] = feed[u],
               lost \subseteq lost',
               id \notin overlapped /\ id \notin lost' =>
                  /\ feed'[id].ver = version[id]
                  /\ version[id] > 0 /\ Present(id) => Shows(feed'[id].remote, id)
        PROVE  FeedInv'
    <2> HIDE DEF id
    <2>1. \A d \in Calls : calls'[d] # Idle => d # c /\ calls'[d] = calls[d]
      BY <1>1, <1>4
    <2>2. ASSUME NEW d \in Calls, calls'[d] # Idle, calls'[d].id \notin overlapped'
          PROVE  CarriesRow(d)'
      BY <1>1, <2>1, <2>2 DEF FeedInv, CarriesRow, Shows, Present
    <2>3. ASSUME NEW u \in UnitIds, AtRest(u)', u \notin overlapped' PROVE ShowsRow(u)'
      <3>1. CASE u = id
        BY <1>1, <1>4, <2>3, <3>1 DEF AtRest, ShowsRow, Shows, Present
      <3>2. CASE u # id
        <4>1. AtRest(u) /\ u \notin overlapped
          <5>1. u \notin lost /\ u \notin overlapped
            BY <1>1, <1>4, <2>3 DEF AtRest
          <5>2. ~ InProgress(c, u)
            BY <3>2 DEF InProgress, id
          <5>3. \A d \in Calls \ {c} : ~ InProgress(d, u)
            BY <1>1, <2>3 DEF AtRest, InProgress
          <5>4. QED
            BY <5>1, <5>2, <5>3 DEF AtRest
        <4>2. ShowsRow(u)
          BY <4>1 DEF FeedInv, FeedEndsInOrder
        <4>3. QED
          BY <1>1, <1>4, <3>2, <4>2 DEF ShowsRow, Present
      <3>3. QED
        BY <3>1, <3>2
    <2>4. QED
      BY <1>1, <2>1, <2>2, <2>3 DEF FeedInv, FeedEndsInOrder
  <1>5. CASE GetMissing(c)
    <2>1. /\ ~ Present(id) /\ calls[c].step = "get" /\ calls'[c] = Idle
          /\ feed' = feed /\ lost' = lost
      BY <1>5 DEF GetMissing, TypeOK
    <2>2. calls[c].ver # version[id]
      BY <1>1, <2>1 DEF AnnounceInv, Honest, Present
    <2>3. id \in overlapped
      BY <1>2, <2>2 DEF CarriesRow
    <2>4. QED
      BY <1>4, <2>1, <2>3
  <1>6. CASE GetFails(c)
    <2>1. /\ calls'[c] = Idle /\ feed' = feed
          /\ lost' = IF calls[c].ver = version[id] THEN lost \union {id} ELSE lost
      BY <1>6 DEF GetFails, TypeOK
    <2>2. QED
      BY <1>2, <1>4, <2>1 DEF CarriesRow
  <1>7. CASE Publish(c)
    <2>1. /\ calls'[c] = Idle /\ lost' = lost /\ calls[c].step = "publish"
          /\ feed' = [feed EXCEPT ![id] = [type |-> calls[c].type, remote |-> calls[c].remote,
                                           ver |-> calls[c].ver]]
      BY <1>7 DEF Publish, TypeOK
    <2>2. /\ feed'[id].ver = calls[c].ver /\ feed'[id].remote = calls[c].remote
          /\ \A u \in UnitIds \ {id} : feed'[u] = feed[u]
      BY <1>1, <2>1 DEF TypeOK
    <2>3. id \notin overlapped =>
             /\ feed'[id].ver = version[id]
             /\ version[id] > 0 /\ Present(id) => Shows(feed'[id].remote, id)
      BY <1>1, <1>2, <2>1, <2>2 DEF CarriesRow
    <2>4. QED
      BY <1>4, <2>1, <2>2, <2>3
  <1>8. QED
    BY <1>3, <1>5, <1>6, <1>7 DEF CallStep

\* A remote is deleted: what was shown of its units is a deleted remote now.
LEMMA DeleteRemoteFeeds ==
    ASSUME TypeOK, TableConsistent, FeedInv, NEW r \in Remotes, DeleteRemote(r)
    PROVE  FeedInv'
  <1>1. /\ remotes' = remotes \ {r}
        /\ UNCHANGED <<calls, version, feed, lost, overlapped>>
    BY DEF DeleteRemote
  <1>2. ASSUME NEW remote \in Remotes \union {Local}, NEW id \in UnitIds, Present(id),
               Shows(remote, id)
        PROVE  Shows(remote, id)'
    <2>1. units'[id].remote = IF units[id].remote = r THEN Local ELSE units[id].remote
      BY <1>2, ReleasedRow
    <2>2. QED
      BY <1>1, <1>2, <2>1 DEF Shows
  <1>3. \A id \in UnitIds : Present(id)' <=> Present(id)
    BY ReleasedRow
  <1>4. \A c \in Calls : calls[c] # Idle => calls[c].id \in UnitIds
                                            /\ calls[c].remote \in Remotes \union {Local}
    BY DEF TypeOK
  <1>5. ASSUME NEW c \in Calls, calls'[c] # Idle, calls'[c].id \notin overlapped'
        PROVE  CarriesRow(c)'
    BY <1>1, <1>2, <1>3, <1>4, <1>5 DEF FeedInv, CarriesRow
  <1>6. ASSUME NEW u \in UnitIds, AtRest(u)', u \notin overlapped' PROVE ShowsRow(u)'
    <2>1. ShowsRow(u)
      BY <1>1, <1>6 DEF FeedInv, FeedEndsInOrder, AtRest, InProgress
    <2>2. feed[u].remote \in Remotes \union {Local}
      BY DEF TypeOK
    <2>3. QED
      BY <1>1, <1>2, <1>3, <2>1, <2>2 DEF ShowsRow, Shows
  <1>7. QED
    BY <1>1, <1>5, <1>6 DEF FeedInv, FeedEndsInOrder

LEMMA FeedInvStep ==
    ASSUME TypeOK, TableConsistent, AnnounceInv, FeedInv, [Next]_vars
    PROVE  FeedInv'
  <1>1. ASSUME NEW c \in Calls, NEW id \in UnitIds,
               LocalStep(c, id) \/ \E r \in Remotes : SyncStep(c, r, id)
        PROVE  FeedInv'
    <2>1. ASSUME NEW row \in Rows, Writes(c, id, row) PROVE FeedInv'
      <3>1. /\ units'[id].remote = row.remote /\ row.remote \in Remotes \union {Local}
            /\ \A other \in UnitIds \ {id} : units'[other] = units[other]
        BY <2>1, WrittenRow DEF Writes
      <3>2. PICK type \in EventTypes, step \in {"get", "publish"} :
               Commit(c, row.remote, id, type, step)
        BY <2>1 DEF Writes
      <3>3. QED
        BY <3>1, <3>2, CommitFeeds
    <2>2. ASSUME Removes(c, id) PROVE FeedInv'
      <3>1. /\ ~ Present(id)'
            /\ \A other \in UnitIds \ {id} : units'[other] = units[other]
        BY <2>2 DEF Removes, RemoveRow, Present, TypeOK
      <3>2. units[id].remote \in Remotes \union {Local}
        BY <2>2 DEF Removes, Present, TypeOK
      <3>3. QED
        BY <2>2, <3>1, <3>2, CommitFeeds DEF Removes
    <2>3. QED
      BY <1>1, <2>1, <2>2, TransactionShape
  <1>2. CASE Restart
    <2>1. /\ \A c \in Calls : calls'[c] = Idle
          /\ \A id \in UnitIds : version'[id] = 0 /\ feed'[id].ver = 0
      BY <1>2 DEF Restart, NoEvent
    <2>2. QED
      BY <2>1 DEF FeedInv, FeedEndsInOrder, ShowsRow
  <1>3. CASE UNCHANGED <<units, remotes, version, calls, feed, lost, overlapped>>
    BY <1>3 DEF FeedInv, CarriesRow, Shows, FeedEndsInOrder, AtRest, InProgress, ShowsRow,
                Present
  <1>4. QED
    BY <1>1, <1>2, <1>3, CallStepFeeds, DeleteRemoteFeeds DEF Next, CleanupHistory, vars

\* Once no call is under way on a unit the last event about it shows its row,
\* apart from the exceptions that FeedEndsInOrder and ShowsRow name.
THEOREM FeedInOrder == Spec => []FeedEndsInOrder
  <1>1. Init => FeedInv
    BY DEF Init, FeedInv, FeedEndsInOrder, ShowsRow, NoEvent
  <1>2. TypeOK /\ TableConsistent /\ AnnounceInv /\ FeedInv /\ [Next]_vars => FeedInv'
    BY FeedInvStep
  <1>3. FeedInv => FeedEndsInOrder
    BY DEF FeedInv
  <1>4. QED
    BY <1>1, <1>2, <1>3, TypeCorrect, TableStaysConsistent, AnnounceInvariant, PTL DEF Spec

\* With a single caller no unit is excepted for an overlap.
THEOREM FeedEndsAtTableSerially ==
    ASSUME \A c, d \in Calls : c = d
    PROVE  Spec => []FeedEndsAtTable
  <1> DEFINE NoOverlap == overlapped = {}
  <1>1. Init => NoOverlap
    BY DEF Init
  <1>2. TypeOK /\ TableConsistent /\ NoOverlap /\ [Next]_vars => NoOverlap'
    <2> SUFFICES ASSUME TypeOK, TableConsistent, overlapped = {}, [Next]_vars
                 PROVE  overlapped' = {}
      OBVIOUS
    <2>1. ASSUME NEW c \in Calls, NEW id \in UnitIds,
                 LocalStep(c, id) \/ \E r \in Remotes : SyncStep(c, r, id)
          PROVE  overlapped' = {}
      <3>1. PICK by, type, step : Commit(c, by, id, type, step)
        BY <2>1, TransactionShape DEF Writes, Removes
      <3>2. ~ \E d \in Calls : InProgress(d, id)
        BY <3>1 DEF Commit, InProgress
      <3>3. QED
        BY <3>1, <3>2 DEF Commit
    <2>2. QED
      BY <2>1 DEF Next, CallStep, GetRow, GetMissing, GetFails, Publish, DeleteRemote,
                  CleanupHistory, Restart, vars
  <1>3. FeedEndsInOrder /\ NoOverlap => FeedEndsAtTable
    BY DEF FeedEndsInOrder, FeedEndsAtTable
  <1>4. QED
    BY <1>1, <1>2, <1>3, TypeCorrect, TableStaysConsistent, FeedInOrder, PTL DEF Spec
=============================================================================
