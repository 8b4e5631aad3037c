------------------------- MODULE MirrorHistoryProofs -------------------------
(***************************************************************************)
(* The proof that every mirror keeps CopyPromise, for any instances and    *)
(* any remotes among them, circles included.                               *)
(***************************************************************************)
EXTENDS MirrorHistory, MirrorProofs

\* The unit was so at instance n, as far as a reader can see.
Known(n, id, row) == Shown(row) \in past[n][id]

PastsOK == past \in [Followed -> [UnitIds -> SUBSET (Rows \union {Absent})]]

\* The present state is one of the past, once there has been one.
PresentKnown ==
    \A n \in Followed, id \in UnitIds :
        Has(n, id) \/ past[n][id] # {} => Known(n, id, units[n][id])

\* Where a unit is or was, its id was minted.
IdsMinted ==
    /\ \A n \in Nodes, id \in UnitIds : Has(n, id) => id \in used
    /\ \A n \in Followed, id \in UnitIds : past[n][id] # {} => id \in used

CallsKnown ==
    \A t \in Threads : call[t] # Nothing =>
        /\ call[t].node \in Followed
        /\ call[t].row # Nothing => Known(call[t].node, call[t].id, call[t].row)

LinksKnown ==
    \A w \in Edges :
        /\ \A i \in 1 .. Len(queue[w]) : Known(There(w), queue[w][i].id, queue[w][i].row)
        /\ hand[w] # Nothing => Known(There(w), hand[w].id, hand[w].row)

\* What a pass deletes, because it was not listed, was gone.
PassKnown ==
    \A w \in Edges, id \in UnitIds :
        (pass[w] # Nothing /\ (pass[w].listed[id] # Absent \/ Mirrored(w, id)))
            => Known(There(w), id, pass[w].listed[id])

MirrorsKnown ==
    \A w \in Edges, id \in UnitIds :
        Mirrored(w, id) => Known(There(w), id, units[Here(w)][id])

KnownInv ==
    PastsOK /\ PresentKnown /\ IdsMinted /\ CallsKnown /\ LinksKnown /\ PassKnown /\ MirrorsKnown

LEMMA FollowedNodes == Followed \subseteq Nodes /\ \A w \in Edges : There(w) \in Followed
  BY EdgeTypes DEF Followed

LEMMA ShownRow ==
    ASSUME NEW row \in Rows \union {Absent}
    PROVE  /\ Shown(row) \in Rows \union {Absent}
           /\ Shown(row) = Absent <=> row = Absent
           /\ row # Absent => Shown(row) = [name |-> row.name, owner |-> Local, ver |-> row.ver]
  BY AbsentAssumption DEF Shown, Rows

\* Two rows that differ in the owner only look the same.
LEMMA ShownSame ==
    ASSUME NEW row \in Rows, NEW other \in Rows, row.name = other.name, row.ver = other.ver
    PROVE  Shown(row) = Shown(other)
  BY ShownRow, AbsentAssumption

(***************************************************************************)
(* The past only grows, by what is written.                                *)
(***************************************************************************)
LEMMA PastStep ==
    ASSUME PastsOK, Remember, NEW n \in Followed, NEW id \in UnitIds
    PROVE  /\ past[n][id] \subseteq past'[n][id]
           /\ units'[n][id] = units[n][id] => past'[n][id] = past[n][id]
           /\ units'[n][id] # units[n][id]
                 => past'[n][id] = past[n][id] \union {Shown(units'[n][id])}
  BY DEF PastsOK, Remember

LEMMA StepPasts ==
    ASSUME PastsOK, Remember, TypeOK'
    PROVE  PastsOK'
  <1>1. \A n \in Followed, id \in UnitIds : Shown(units'[n][id]) \in Rows \union {Absent}
    BY ShownRow, FollowedNodes DEF TypeOK, TablesOK
  <1>2. QED
    BY <1>1 DEF PastsOK, Remember, Followed

LEMMA StepPresent ==
    ASSUME PastsOK, PresentKnown, Remember
    PROVE  PresentKnown'
  <1> SUFFICES ASSUME NEW n \in Followed, NEW id \in UnitIds, Has(n, id)' \/ past'[n][id] # {}
               PROVE  Shown(units'[n][id]) \in past'[n][id]
    BY DEF PresentKnown, Known, Shown, Followed
  <1>1. CASE units'[n][id] = units[n][id]
    BY <1>1, PastStep DEF PresentKnown, Known, Has
  <1>2. CASE units'[n][id] # units[n][id]
    BY <1>2, PastStep
  <1>3. QED
    BY <1>1, <1>2

LEMMA KnownStays ==
    ASSUME PastsOK, Remember, NEW n \in Followed, NEW id \in UnitIds, NEW row, Known(n, id, row)
    PROVE  Shown(row) \in past'[n][id]
  BY PastStep DEF Known

\* Whatever a worker writes was so at its remote.
LEMMA SourceKnown ==
    ASSUME LinksKnown, PassKnown, NEW w \in Edges, NEW id \in UnitIds,
           NEW row \in Rows \union {Absent}, WorkerWrote(w, id, row)
    PROVE  Known(There(w), id, row)
  <1>1. CASE pass[w] # Nothing /\ row = pass[w].listed[id]
    BY <1>1 DEF PassKnown, WorkerWrote
  <1>2. CASE pass[w] = Nothing /\ hand[w] # Nothing /\ hand[w].id = id /\ hand[w].row = row
    BY <1>2 DEF LinksKnown
  <1>3. QED
    BY <1>1, <1>2 DEF WorkerWrote, Source

\* What it writes looks like what it read.
LEMMA WrittenShown ==
    ASSUME NEW w \in Edges, NEW id \in UnitIds, NEW row \in Rows \union {Absent},
           WorkerWrote(w, id, row)
    PROVE  Shown(units'[Here(w)][id]) = Shown(row)
  <1>1. CASE row = Absent
    BY <1>1 DEF WorkerWrote
  <1>2. CASE row # Absent
    BY <1>2, ShownSame DEF WorkerWrote
  <1>3. QED
    BY <1>1, <1>2

LEMMA StepMinted ==
    ASSUME TypeOK, PastsOK, IdsMinted, LinksKnown, PassKnown, TablesStep, Remember
    PROVE  IdsMinted'
  <1>1. used \subseteq used'
    BY DEF TablesStep, NothingWritten, ClientWrote, WorkerWrote
  <1>2. ASSUME NEW n \in Nodes, NEW id \in UnitIds, units'[n][id] # units[n][id]
        PROVE  id \in used'
    <2>1. ASSUME NEW m \in Nodes, NEW other \in UnitIds, ClientWrote(m, other)
          PROVE  id \in used'
      <3>1. m = n /\ other = id
        BY <1>2, <2>1 DEF ClientWrote, OnlyWrites
      <3>2. QED
        BY <1>1, <2>1, <3>1 DEF ClientWrote, Editable, IdsMinted
    <2>2. ASSUME NEW w \in Edges, NEW other \in UnitIds, NEW row \in Rows \union {Absent},
                 WorkerWrote(w, other, row)
          PROVE  id \in used'
      <3>1. other = id
        BY <1>2, <2>2 DEF WorkerWrote, OnlyWrites
      <3>2. Known(There(w), id, row)
        BY <2>2, <3>1, SourceKnown
      <3>3. QED
        BY <1>1, <3>2, FollowedNodes DEF Known, IdsMinted
    <2>3. QED
      BY <1>2, <2>1, <2>2 DEF TablesStep, NothingWritten
  <1>3. ASSUME NEW n \in Nodes, NEW id \in UnitIds, Has(n, id)'
        PROVE  id \in used'
    <2>1. CASE units'[n][id] = units[n][id]
      BY <1>1, <1>3, <2>1 DEF IdsMinted, Has
    <2>2. QED
      BY <1>2, <2>1
  <1>4. ASSUME NEW n \in Followed, NEW id \in UnitIds, past'[n][id] # {}
        PROVE  id \in used'
    <2>1. CASE units'[n][id] = units[n][id]
      BY <1>1, <1>4, <2>1, PastStep DEF IdsMinted
    <2>2. QED
      BY <1>2, <2>1, FollowedNodes
  <1>5. QED
    BY <1>3, <1>4 DEF IdsMinted, Followed

LEMMA StepMirrorsKnown ==
    ASSUME MirrorInv, PastsOK, LinksKnown, PassKnown, MirrorsKnown, TablesStep, Remember
    PROVE  MirrorsKnown'
  <1> SUFFICES ASSUME NEW w \in Edges, NEW id \in UnitIds, Mirrored(w, id)'
               PROVE  Shown(units'[Here(w)][id]) \in past'[There(w)][id]
    BY DEF MirrorsKnown, Known, Shown
  <1>1. There(w) \in Followed
    BY FollowedNodes
  <1>2. CASE Mirrored(w, id) /\ units'[Here(w)][id] = units[Here(w)][id]
    BY <1>1, <1>2, KnownStays DEF MirrorsKnown
  <1>3. ASSUME NEW row \in Rows, WorkerWrote(w, id, row)
        PROVE  Shown(units'[Here(w)][id]) \in past'[There(w)][id]
    <2>1. Shown(units'[Here(w)][id]) = Shown(row)
      BY <1>3, WrittenShown
    <2>2. Known(There(w), id, row)
      BY <1>3, SourceKnown
    <2>3. QED
      BY <1>1, <2>1, <2>2, KnownStays
  <1>4. QED
    BY <1>2, <1>3, MirroredStep

LEMMA StepPassKnown ==
    ASSUME MirrorInv, PastsOK, PresentKnown, LinksKnown, PassKnown, MirrorsKnown, MirrorsKnown',
           TablesStep, Remember, [Next]_vars
    PROVE  PassKnown'
  <1> SUFFICES ASSUME NEW w \in Edges, NEW id \in UnitIds, pass'[w] # Nothing,
                      pass'[w].listed[id] # Absent \/ Mirrored(w, id)'
               PROVE  Shown(pass'[w].listed[id]) \in past'[There(w)][id]
    BY DEF PassKnown, Known, Shown
  <1>1. There(w) \in Followed
    BY FollowedNodes
  <1>2. CASE BeginPass(w)
    <2>1. pass'[w].listed = units[There(w)] /\ UNCHANGED units
      BY <1>2 DEF BeginPass, StartPass, table, MirrorInv, TypeOK, PassesOK
    <2>2. Mirrored(w, id)' => past[There(w)][id] # {}
      BY <2>1 DEF MirrorsKnown, Known, Mirrored, Has
    <2>3. Known(There(w), id, units[There(w)][id])
      BY <1>1, <2>1, <2>2 DEF PresentKnown, Has
    <2>4. QED
      BY <1>1, <2>1, <2>3, KnownStays
  <1>3. CASE pass[w] # Nothing /\ pass'[w].listed = pass[w].listed
    <2>1. CASE pass[w].listed[id] # Absent \/ Mirrored(w, id)
      BY <1>1, <1>3, <2>1, KnownStays DEF PassKnown
    <2>2. CASE pass[w].listed[id] = Absent /\ ~ Mirrored(w, id)
      <3>1. PICK row \in Rows : WorkerWrote(w, id, row)
        BY <1>3, <2>2, MirroredStep
      <3>2. row = Absent
        BY <1>3, <2>2, <3>1 DEF WorkerWrote, Source
      <3>3. QED
        BY <3>2, AbsentAssumption
    <2>3. QED
      BY <2>1, <2>2
  <1>4. QED
    BY <1>2, <1>3, PassStep DEF MirrorInv

LEMMA StepLinksKnown ==
    ASSUME MirrorInv, TypeOK', PastsOK, CallsKnown, LinksKnown, Remember, [Next]_vars
    PROVE  LinksKnown'
  <1> SUFFICES ASSUME NEW w \in Edges
               PROVE  /\ \A i \in 1 .. Len(queue'[w]) :
                            Shown(queue'[w][i].row) \in past'[There(w)][queue'[w][i].id]
                      /\ hand'[w] # Nothing => Shown(hand'[w].row) \in past'[There(w)][hand'[w].id]
    BY DEF LinksKnown, Known, Shown
  <1>1. There(w) \in Followed
    BY FollowedNodes
  <1>2. ASSUME NEW m \in Sendable, Known(There(w), m.id, m.row)
        PROVE  Shown(m.row) \in past'[There(w)][m.id]
    BY <1>1, <1>2, KnownStays DEF Sendable, Messages
  <1>3. ASSUME NEW m \in Sendable,
               \/ \E j \in 1 .. Len(queue[w]) : m = queue[w][j]
               \/ hand[w] # Nothing /\ m = hand[w]
        PROVE  Shown(m.row) \in past'[There(w)][m.id]
    BY <1>2, <1>3 DEF LinksKnown
  <1>4. ASSUME NEW i \in 1 .. Len(queue'[w])
        PROVE  Shown(queue'[w][i].row) \in past'[There(w)][queue'[w][i].id]
    <2>1. PICK m \in Sendable : m = queue'[w][i]
      BY <1>4 DEF TypeOK, LinksOK
    <2>2. ASSUME NEW t \in Threads, call[t] # Nothing, call[t].row # Nothing,
                 call[t].node = There(w), m.id = call[t].id, m.row = call[t].row
          PROVE  Shown(m.row) \in past'[There(w)][m.id]
      BY <1>2, <2>2 DEF CallsKnown
    <2>3. QED
      BY <1>3, <2>1, <2>2, LinkStep
  <1>5. ASSUME hand'[w] # Nothing
        PROVE  Shown(hand'[w].row) \in past'[There(w)][hand'[w].id]
    <2>1. PICK m \in Sendable : m = hand'[w]
      BY <1>5 DEF TypeOK, LinksOK
    <2>2. QED
      BY <1>3, <1>5, <2>1, LinkStep
  <1>6. QED
    BY <1>4, <1>5

(***************************************************************************)
(* A call that is to be announced is as it was, shows what is in the table *)
(* now, or has not read it yet.                                            *)
(***************************************************************************)
Announces(t) ==
    /\ call'[t].node \in Followed /\ call'[t].id \in UnitIds
    /\ \/ call'[t].row = Nothing
       \/ /\ call'[t].row = units'[call'[t].node][call'[t].id]
          /\ call'[t].row # Absent \/ units[call'[t].node][call'[t].id] # Absent

LEMMA CommittedAnnounces ==
    ASSUME CallsOK, NEW s \in Threads, NEW t \in Threads, NEW n \in Nodes, NEW id \in UnitIds,
           NEW type, NEW row, Committed(s, n, type, id, row), call'[t] # Nothing,
           \/ row = Nothing
           \/ row = units'[n][id] /\ (row # Absent \/ units[n][id] # Absent)
    PROVE  call'[t] = call[t] \/ Announces(t)
  <1>1. CASE t # s
    BY <1>1 DEF Committed, CallsOK
  <1>2. CASE t = s
    <2>1. n \in Followed /\ call'[t] = [node |-> n, type |-> type, id |-> id, row |-> row]
      BY <1>2 DEF Committed, CallsOK, Followed
    <2>2. QED
      BY <2>1 DEF Announces
  <1>3. QED
    BY <1>1, <1>2

\* The worker's writes are announced, a deletion of what was there.
LEMMA WorkerAnnounces ==
    ASSUME TypeOK, NEW w \in Edges, NEW id \in UnitIds, NEW t \in Threads, call'[t] # Nothing,
           (\E row \in Rows : UpsertSynced(w, id, row)) \/ DeleteSynced(w, id)
    PROVE  call'[t] = call[t] \/ Announces(t)
  <1>1. CASE UNCHANGED call
    BY <1>1
  <1>2. CASE \E type : Committed(w, Here(w), type, id, Nothing)
    BY <1>2, CommittedAnnounces, EdgeTypes DEF TypeOK
  <1>3. CASE /\ Mirrored(w, id) /\ Write(Here(w), id, Absent)
             /\ Committed(w, Here(w), "deleted", id, Absent)
    <2>1. units'[Here(w)][id] = Absent /\ units[Here(w)][id] # Absent
      BY <1>3, WriteEffect, EdgeTypes DEF TypeOK, Mirrored, Has
    <2>2. QED
      BY <1>3, <2>1, CommittedAnnounces, EdgeTypes DEF TypeOK
  <1>4. QED
    BY <1>1, <1>2, <1>3 DEF UpsertSynced, DeleteSynced

LEMMA CallStep ==
    ASSUME TypeOK, CallsKnown, [Next]_vars, NEW t \in Threads, call'[t] # Nothing
    PROVE  call'[t] = call[t] \/ Announces(t)
  <1>1. CASE UNCHANGED call
    BY <1>1
  <1>2. ASSUME NEW c \in Clients, NEW n \in Nodes, NEW id \in UnitIds,
               \/ \E name \in Names : Create(c, n, id, name) \/ Rename(c, n, id, name)
               \/ Delete(c, n, id)
        PROVE  call'[t] = call[t] \/ Announces(t)
    <2>1. c \in Threads /\ CallsOK
      BY DEF Threads, TypeOK
    <2>2. CASE \E name \in Names : Create(c, n, id, name)
      <3>1. PICK name \in Names : /\ Write(n, id, LocalRow(name))
                                  /\ Committed(c, n, "created", id, LocalRow(name))
        BY <2>2 DEF Create, ClientWrites
      <3>2. units'[n][id] = LocalRow(name)
        BY <3>1, WriteEffect DEF TypeOK
      <3>3. LocalRow(name) # Absent
        BY AbsentAssumption DEF LocalRow, Rows, TypeOK
      <3>4. QED
        BY <2>1, <3>1, <3>2, <3>3, CommittedAnnounces
    <2>3. CASE \E name \in Names : Rename(c, n, id, name)
      BY <2>1, <2>3, CommittedAnnounces DEF Rename
    <2>4. CASE Delete(c, n, id)
      <3>1. Committed(c, n, "deleted", id, Absent) /\ units[n][id] # Absent
        BY <2>4 DEF Delete, Editable, Has
      <3>2. units'[n][id] = Absent
        BY <2>4, WriteEffect DEF Delete, ClientWrites, TypeOK
      <3>3. QED
        BY <2>1, <3>1, <3>2, CommittedAnnounces
    <2>5. QED
      BY <1>2, <2>2, <2>3, <2>4
  <1>3. ASSUME NEW s \in Threads, ReadBack(s)
        PROVE  call'[t] = call[t] \/ Announces(t)
    <2>1. CASE t # s
      BY <1>3, <2>1 DEF ReadBack, TypeOK, CallsOK
    <2>2. CASE t = s
      <3> DEFINE row == units[call[t].node][call[t].id]
      <3>1. call[t] \in CallRecords /\ call[t].node \in Followed /\ UNCHANGED units
        BY <1>3, <2>2 DEF ReadBack, TypeOK, CallsOK, table, CallsKnown
      <3>2. row # Absent /\ call'[t] = [call[t] EXCEPT !.row = row]
        BY <1>3, <2>2 DEF ReadBack, TypeOK, CallsOK
      <3>3. QED
        BY <3>1, <3>2 DEF Announces, CallRecords
    <2>3. QED
      BY <2>1, <2>2
  <1>4. ASSUME NEW s \in Threads, Lose(s) \/ Publish(s)
        PROVE  call'[t] = call[t]
    BY <1>4 DEF Lose, Publish, TypeOK, CallsOK
  <1>5. ASSUME NEW w \in Edges, NEW id \in UnitIds, Upsert(w, id) \/ DeleteVanished(w, id)
        PROVE  call'[t] = call[t] \/ Announces(t)
    <2>1. Upsert(w, id) => pass[w].listed[id] \in Rows
      BY DEF Upsert, InPass, TypeOK, PassesOK, Passes
    <2>2. QED
      BY <1>5, <2>1, WorkerAnnounces DEF Upsert, DeleteVanished
  <1>6. ASSUME NEW w \in Edges, Apply(w)
        PROVE  call'[t] = call[t] \/ Announces(t)
    <2>1. hand[w] \in Sendable
      BY <1>6 DEF Apply, TypeOK, LinksOK
    <2>2. hand[w].id \in UnitIds /\ (hand[w].type # "deleted" => hand[w].row \in Rows)
      BY <2>1 DEF Sendable, Messages, ShowsRow
    <2>3. QED
      BY <1>6, <2>2, WorkerAnnounces DEF Apply
  <1>7. ASSUME NEW w \in Edges, WorkerRestarts(w)
        PROVE  call'[t] = call[t]
    BY <1>7 DEF WorkerRestarts, TypeOK, CallsOK
  <1>8. CASE ClientNext
    BY <1>2, <1>8 DEF ClientNext
  <1>9. CASE CallNext
    BY <1>3, <1>4, <1>9 DEF CallNext
  <1>10. CASE PassNext
    BY <1>1, <1>5, <1>10
       DEF PassNext, Tick, BeginPass, StartPass, ListFails, PassEnds, PassFails, PassOver, UpsertFails
  <1>11. CASE StreamNext
    BY <1>1, <1>6, <1>7, <1>11 DEF StreamNext, Connect, Break, Receive, ApplyFails
  <1>12. CASE UNCHANGED vars
    BY <1>1, <1>12 DEF vars
  <1>13. QED
    BY <1>8, <1>9, <1>10, <1>11, <1>12 DEF Next

LEMMA StepCallsKnown ==
    ASSUME TypeOK, TypeOK', PastsOK, PresentKnown', CallsKnown, Remember, [Next]_vars
    PROVE  CallsKnown'
  <1> SUFFICES ASSUME NEW t \in Threads, call'[t] # Nothing
               PROVE  /\ call'[t].node \in Followed
                      /\ call'[t].row # Nothing
                            => Shown(call'[t].row) \in past'[call'[t].node][call'[t].id]
    BY DEF CallsKnown, Known, Shown, Followed
  <1>1. CASE call'[t] = call[t]
    <2>1. call'[t].id \in UnitIds
      BY DEF TypeOK, CallsOK, CallRecords
    <2>2. QED
      BY <1>1, <2>1, KnownStays DEF CallsKnown
  <1>2. CASE Announces(t)
    <2> DEFINE n == call'[t].node
               id == call'[t].id
    <2>1. n \in Followed /\ id \in UnitIds
      BY <1>2 DEF Announces
    <2>2. ASSUME call'[t].row # Nothing
          PROVE  Shown(call'[t].row) \in past'[n][id]
      <3>1. call'[t].row = units'[n][id] /\ (units'[n][id] # Absent \/ units[n][id] # Absent)
        BY <1>2, <2>2 DEF Announces
      <3>2. CASE units'[n][id] # Absent
        BY <2>1, <3>1, <3>2 DEF PresentKnown, Known, Has, Shown, Followed
      <3>3. CASE units'[n][id] # units[n][id]
        BY <2>1, <3>1, <3>3, PastStep
      <3>4. QED
        BY <3>1, <3>2, <3>3
    <2>3. QED
      BY <2>1, <2>2
  <1>3. QED
    BY <1>1, <1>2, CallStep

LEMMA InitKnown == HistoryInit => KnownInv
  <1> SUFFICES ASSUME HistoryInit PROVE KnownInv
    OBVIOUS
  <1> USE DEF HistoryInit
  <1>1. \A n \in Nodes, id \in UnitIds :
           /\ units[n][id] \in Rows \union {Absent}
           /\ Has(n, id) => units[n][id].owner = Local /\ id \in used
    BY InitTypes DEF TypeOK, TablesOK, Init, Has
  <1>2. PastsOK
    BY <1>1, ShownRow, FollowedNodes DEF PastsOK
  <1>3. PresentKnown
    BY <1>1, ShownRow, FollowedNodes DEF PresentKnown, Known, Has
  <1>4. IdsMinted
    BY <1>1, ShownRow, FollowedNodes DEF IdsMinted, Has
  <1>5. CallsKnown /\ LinksKnown /\ PassKnown
    BY DEF Init, CallsKnown, LinksKnown, PassKnown
  <1>6. MirrorsKnown
    BY <1>1, EdgeTypes DEF MirrorsKnown, Mirrored
  <1>7. QED
    BY <1>2, <1>3, <1>4, <1>5, <1>6 DEF KnownInv

LEMMA KnownStep == MirrorInv /\ KnownInv /\ [HistoryNext]_histvars => MirrorInv' /\ KnownInv'
  <1> SUFFICES ASSUME MirrorInv, KnownInv, [HistoryNext]_histvars PROVE MirrorInv' /\ KnownInv'
    OBVIOUS
  <1>1. [Next]_vars
    BY DEF HistoryNext, histvars
  <1>2. MirrorInv' /\ TypeOK'
    BY <1>1, StepInv DEF MirrorInv
  <1>3. TablesStep
    BY <1>1, Effects DEF MirrorInv
  <1>4. CASE HistoryNext
    <2>1. Remember
      BY <1>4 DEF HistoryNext
    <2>2. PastsOK' /\ PresentKnown' /\ IdsMinted'
      BY <1>2, <1>3, <2>1, StepPasts, StepPresent, StepMinted DEF KnownInv, MirrorInv
    <2>3. CallsKnown' /\ LinksKnown'
      BY <1>1, <1>2, <2>1, <2>2, StepCallsKnown, StepLinksKnown DEF KnownInv, MirrorInv
    <2>4. MirrorsKnown'
      BY <1>3, <2>1, StepMirrorsKnown DEF KnownInv
    <2>5. PassKnown'
      BY <1>1, <1>3, <2>1, <2>4, StepPassKnown DEF KnownInv
    <2>6. QED
      BY <1>2, <2>2, <2>3, <2>4, <2>5 DEF KnownInv
  <1>5. CASE UNCHANGED histvars
    BY <1>2, <1>5 DEF histvars, vars, table, links, KnownInv, PastsOK, PresentKnown, IdsMinted,
                      CallsKnown, LinksKnown, PassKnown, MirrorsKnown, Known, Has, Mirrored,
                      Shown, Followed
  <1>6. QED
    BY <1>4, <1>5

(***************************************************************************)
(* Whatever a worker knows or shows of a unit, the unit was so: what it    *)
(* listed, what is on the way to it, what it is about to announce and what *)
(* stands in its table, around circles of remotes too.                     *)
(***************************************************************************)
THEOREM KnownInvariant == HistorySafe => [](MirrorInv /\ KnownInv)
  <1>1. HistoryInit => MirrorInv /\ KnownInv
    BY InitMirror, InitKnown DEF HistoryInit
  <1>2. QED
    BY <1>1, KnownStep, PTL DEF HistorySafe

(***************************************************************************)
(* What a step of the instances is for one mirror.                         *)
(***************************************************************************)
LEMMA InitCopy ==
    ASSUME HistoryInit, NEW w \in Edges
    PROVE  Copy(w)!Init
  <1>1. There(w) \in Followed /\ \A id \in UnitIds : ~ Mirrored(w, id)
    BY FollowedNodes, EdgeTypes DEF HistoryInit, Init, Mirrored, Has
  <1>2. QED
    BY <1>1 DEF HistoryInit, Copy!Init, Original, Mirrorings

\* Nothing that this mirror is about was written.
LEMMA CopyStutters ==
    ASSUME PastsOK, Remember, NEW w \in Edges,
           \A id \in UnitIds : /\ units'[There(w)][id] = units[There(w)][id]
                              /\ Mirrorings(w)'[id] = Mirrorings(w)[id]
    PROVE  UNCHANGED Copy(w)!copies
  <1>1. Original(w)' = Original(w)
    BY DEF Original, Shown
  <1>2. Mirrorings(w)' = Mirrorings(w)
    BY DEF Mirrorings
  <1>3. past'[There(w)] = past[There(w)]
    <2>1. \A id \in UnitIds : past'[There(w)][id] = past[There(w)][id]
      BY FollowedNodes, PastStep
    <2>2. QED
      BY <2>1, FollowedNodes DEF PastsOK, Remember
  <1>4. QED
    BY <1>1, <1>2, <1>3 DEF Copy!copies

\* The unit was written where it comes from.
LEMMA CopyChanges ==
    ASSUME TypeOK, TypeOK', PastsOK, PresentKnown, Remember, NEW w \in Edges, NEW id \in UnitIds,
           OnlyWrites(There(w), id)
    PROVE  [Copy(w)!Next]_(Copy(w)!copies)
  <1> DEFINE n == There(w)
             new == Shown(units'[n][id])
  <1>0. n \in Followed /\ n \in Nodes /\ n # Here(w) /\ Here(w) \in Nodes
    BY FollowedNodes, EdgeTypes
  <1>1. Mirrorings(w)' = Mirrorings(w)
    <2>1. \A other \in UnitIds : units'[Here(w)][other] = units[Here(w)][other]
      BY <1>0 DEF OnlyWrites
    <2>2. QED
      BY <2>1 DEF Mirrorings, Mirrored, Has, Shown
  <1>2. Original(w)' = [Original(w) EXCEPT ![id] = new]
    BY <1>0 DEF Original, OnlyWrites, Shown
  <1>3. past'[n] = [past[n] EXCEPT ![id] = IF units'[n][id] = units[n][id] THEN @
                                            ELSE @ \union {new}]
    <2>1. \A other \in UnitIds \ {id} : past'[n][other] = past[n][other]
      BY <1>0, PastStep DEF OnlyWrites
    <2>2. past'[n][id] = IF units'[n][id] = units[n][id] THEN past[n][id]
                         ELSE past[n][id] \union {new}
      BY <1>0, PastStep
    <2>3. QED
      BY <1>0, <2>1, <2>2 DEF PastsOK, Remember
  <1>4. CASE new = Original(w)[id]
    <2>1. Original(w)' = Original(w)
      BY <1>2, <1>4 DEF Original
    <2>2. units'[n][id] = units[n][id] \/ new \in past[n][id]
      <3>1. units[n][id] \in Rows \union {Absent} /\ units'[n][id] \in Rows \union {Absent}
        BY <1>0 DEF TypeOK, TablesOK
      <3>2. new = Shown(units[n][id])
        BY <1>4 DEF Original
      <3>3. CASE Has(n, id)
        BY <1>0, <3>2, <3>3 DEF PresentKnown, Known
      <3>4. CASE ~ Has(n, id)
        BY <3>1, <3>2, <3>4, ShownRow DEF Has
      <3>5. QED
        BY <3>3, <3>4
    <2>3. past'[n] = past[n]
      BY <1>0, <1>3, <2>2 DEF PastsOK
    <2>4. QED
      BY <1>1, <2>1, <2>3 DEF Copy!copies
  <1>5. CASE new # Original(w)[id]
    <2>1. units'[n][id] # units[n][id]
      BY <1>5 DEF Original
    <2>2. Copy(w)!Change(id)
      BY <1>1, <1>2, <1>3, <1>5, <2>1 DEF Copy!Change, Original
    <2>3. QED
      BY <2>2 DEF Copy!Next
  <1>6. QED
    BY <1>4, <1>5

\* A client's write is to no mirrored unit, and makes none.
LEMMA ClientKeepsCopies ==
    ASSUME IdsMinted, NEW w \in Edges, NEW n \in Nodes, NEW id \in UnitIds, ClientWrote(n, id),
           NEW other \in UnitIds
    PROVE  Mirrorings(w)'[other] = Mirrorings(w)[other]
  <1>0. Here(w) \in Nodes /\ There(w) # Local
    BY EdgeTypes
  <1>1. CASE units'[Here(w)][other] = units[Here(w)][other]
    BY <1>1 DEF Mirrorings, Mirrored, Has, Shown
  <1>2. CASE units'[Here(w)][other] # units[Here(w)][other]
    <2>1. n = Here(w) /\ other = id
      BY <1>0, <1>2 DEF ClientWrote, OnlyWrites
    <2>2. ~ Mirrored(w, other)
      BY <1>0, <2>1 DEF ClientWrote, Editable, Mirrored, IdsMinted
    <2>3. ~ Mirrored(w, other)'
      BY <1>0, <2>1 DEF ClientWrote, Mirrored, Has
    <2>4. QED
      BY <2>2, <2>3 DEF Mirrorings
  <1>3. QED
    BY <1>1, <1>2

\* Another worker of the same instance leaves this one's units alone.
LEMMA OthersKeepCopies ==
    ASSUME NEW w \in Edges, NEW v \in Edges, v # w, NEW id \in UnitIds,
           NEW row \in Rows \union {Absent}, WorkerWrote(v, id, row), NEW other \in UnitIds
    PROVE  Mirrorings(w)'[other] = Mirrorings(w)[other]
  <1>1. CASE units'[Here(w)][other] = units[Here(w)][other]
    BY <1>1 DEF Mirrorings, Mirrored, Has, Shown
  <1>2. CASE units'[Here(w)][other] # units[Here(w)][other]
    <2>1. Here(v) = Here(w) /\ other = id
      BY <1>2, EdgeTypes DEF WorkerWrote, OnlyWrites
    <2>2. There(v) # There(w)
      BY <2>1, EdgeTypes
    <2>3. ~ Mirrored(w, other) /\ ~ Mirrored(w, other)'
      BY <2>1, <2>2 DEF WorkerWrote, Mirrored, Has
    <2>4. QED
      BY <2>3 DEF Mirrorings
  <1>3. QED
    BY <1>1, <1>2

\* The mirror's own worker copies what was so at its remote.
LEMMA WorkerCopies ==
    ASSUME PastsOK, LinksKnown, PassKnown, Remember, NEW w \in Edges, NEW id \in UnitIds,
           NEW row \in Rows \union {Absent}, WorkerWrote(w, id, row)
    PROVE  Copy(w)!Mirror(id)
  <1>0. Here(w) \in Nodes /\ There(w) \in Nodes /\ Here(w) # There(w) /\ There(w) \in Followed
    BY EdgeTypes, FollowedNodes
  <1>1. Shown(row) \in past[There(w)][id]
    BY SourceKnown DEF Known
  <1>2. Mirrorings(w)' = [Mirrorings(w) EXCEPT ![id] = Shown(row)]
    <2>1. ASSUME NEW other \in UnitIds \ {id}
          PROVE  Mirrorings(w)'[other] = Mirrorings(w)[other]
      <3>1. units'[Here(w)][other] = units[Here(w)][other]
        BY <1>0 DEF WorkerWrote, OnlyWrites
      <3>2. QED
        BY <3>1 DEF Mirrorings, Mirrored, Has, Shown
    <2>2. Mirrorings(w)'[id] = Shown(row)
      <3>1. Shown(units'[Here(w)][id]) = Shown(row)
        BY WrittenShown
      <3>2. CASE row = Absent
        BY <3>2 DEF WorkerWrote, Mirrorings, Mirrored, Has, Shown
      <3>3. CASE row # Absent
        <4>1. Mirrored(w, id)'
          BY <3>3, AbsentAssumption DEF WorkerWrote, Mirrored, Has
        <4>2. QED
          BY <3>1, <4>1 DEF Mirrorings, Shown
      <3>4. QED
        BY <3>2, <3>3
    <2>3. QED
      BY <2>1, <2>2 DEF Mirrorings
  <1>3. \A other \in UnitIds : units'[There(w)][other] = units[There(w)][other]
    BY <1>0 DEF WorkerWrote, OnlyWrites
  <1>4. Original(w)' = Original(w)
    BY <1>3 DEF Original, Shown
  <1>5. past'[There(w)] = past[There(w)]
    <2>1. \A other \in UnitIds : past'[There(w)][other] = past[There(w)][other]
      BY <1>0, <1>3, PastStep
    <2>2. QED
      BY <1>0, <2>1 DEF PastsOK, Remember
  <1>6. QED
    BY <1>1, <1>2, <1>4, <1>5 DEF Copy!Mirror

LEMMA StepCopies ==
    ASSUME MirrorInv, TypeOK', KnownInv, Remember, [Next]_vars, NEW w \in Edges
    PROVE  [Copy(w)!Next]_(Copy(w)!copies)
  <1>0. There(w) \in Nodes /\ Here(w) # There(w) /\ TablesStep
    BY EdgeTypes, Effects DEF MirrorInv
  <1>1. CASE NothingWritten
    <2>1. \A id \in UnitIds : /\ units'[There(w)][id] = units[There(w)][id]
                             /\ Mirrorings(w)'[id] = Mirrorings(w)[id]
      BY <1>1 DEF NothingWritten, Mirrorings, Mirrored, Has, Shown
    <2>2. QED
      BY <2>1, CopyStutters DEF KnownInv
  <1>2. ASSUME NEW n \in Nodes, NEW id \in UnitIds, OnlyWrites(n, id), n # There(w),
               \A other \in UnitIds : Mirrorings(w)'[other] = Mirrorings(w)[other]
        PROVE  UNCHANGED Copy(w)!copies
    <2>1. \A other \in UnitIds : units'[There(w)][other] = units[There(w)][other]
      BY <1>0, <1>2 DEF OnlyWrites
    <2>2. QED
      BY <1>2, <2>1, CopyStutters DEF KnownInv
  <1>3. ASSUME NEW n \in Nodes, NEW id \in UnitIds, ClientWrote(n, id)
        PROVE  [Copy(w)!Next]_(Copy(w)!copies)
    <2>1. CASE n = There(w)
      BY <1>3, <2>1, CopyChanges DEF ClientWrote, KnownInv, MirrorInv
    <2>2. CASE n # There(w)
      BY <1>2, <1>3, <2>2, ClientKeepsCopies DEF ClientWrote, KnownInv
    <2>3. QED
      BY <2>1, <2>2
  <1>4. ASSUME NEW v \in Edges, NEW id \in UnitIds, NEW row \in Rows \union {Absent},
               WorkerWrote(v, id, row)
        PROVE  [Copy(w)!Next]_(Copy(w)!copies)
    <2>1. CASE v = w
      BY <1>4, <2>1, WorkerCopies DEF KnownInv, Copy!Next
    <2>2. CASE Here(v) = There(w)
      BY <1>4, <2>2, CopyChanges DEF WorkerWrote, KnownInv, MirrorInv
    <2>3. CASE v # w /\ Here(v) # There(w)
      BY <1>2, <1>4, <2>3, OthersKeepCopies, EdgeTypes DEF WorkerWrote
    <2>4. QED
      BY <2>1, <2>2, <2>3
  <1>5. QED
    BY <1>0, <1>1, <1>3, <1>4 DEF TablesStep

(***************************************************************************)
(* Every mirror implements CopyPromise: each step of the instances is, for *)
(* each remote, a change there, a copy of one of its past states, or       *)
(* nothing.                                                                *)
(***************************************************************************)
THEOREM MirrorsKeepPromise == HistorySafe => KeepsCopy
  <1>1. HistoryInit => \A w \in Edges : Copy(w)!Init
    BY InitCopy
  <1>2. MirrorInv /\ KnownInv /\ [HistoryNext]_histvars =>
           [\A w \in Edges : [Copy(w)!Next]_(Copy(w)!copies)]_histvars
    <2> SUFFICES ASSUME MirrorInv, KnownInv, HistoryNext
                 PROVE  \A w \in Edges : [Copy(w)!Next]_(Copy(w)!copies)
      OBVIOUS
    <2>1. Remember /\ [Next]_vars
      BY DEF HistoryNext
    <2>2. TypeOK'
      BY <2>1, StepTypes DEF MirrorInv
    <2>3. QED
      BY <2>1, <2>2, StepCopies
  <1>3. QED
    BY <1>1, <1>2, KnownInvariant, PTL DEF HistorySafe, KeepsCopy
-----------------------------------------------------------------------------
(***************************************************************************)
(* The safety half of MirrorCatchesUp, for any instances: a full pass that *)
(* nothing disturbs brings the mirror up to date ("a full pass, which      *)
(* catches up on whatever changed while it was down", worker.go:158).      *)
(***************************************************************************)
\* In this step nothing stands in worker w's way: no upsert fails or meets another
\* unit's name, and nobody takes away a unit here that isn't mirrored by w.
Undisturbed(w) ==
    \A id \in UnitIds :
        /\ UpsertFails(w, id) => Upsert(w, id)
        /\ Upsert(w, id) => NameFree(Here(w), id, pass[w].listed[id].name)
        /\ Has(Here(w), id) /\ ~ Mirrored(w, id) => Has(Here(w), id)'

\* Every unit that is now as it was listed is mirrored.
PassCompletes(w) ==
    PassEnds(w) => \A id \in UnitIds :
                      pass[w].listed[id] = units[There(w)][id] => InSync(w, id)

Settled(w, id) ==
    /\ Has(Here(w), id)
    /\ Mirrored(w, id) => units[Here(w)][id].name = pass[w].listed[id].name

\* What a pass has upserted stays as it was listed.
SettledInv(w) ==
    pass[w] # Nothing =>
        \A id \in UnitIds \ pass[w].todo : pass[w].listed[id] # Absent => Settled(w, id)

\* No step takes a unit that was listed away from its own worker during a pass.
LEMMA SettledStays ==
    ASSUME MirrorInv, IdsMinted, TablesStep, NEW w \in Edges, NEW id \in UnitIds,
           pass[w] # Nothing, pass'[w] # Nothing, pass'[w].listed = pass[w].listed,
           pass[w].listed[id] # Absent, Settled(w, id),
           Has(Here(w), id) /\ ~ Mirrored(w, id) => Has(Here(w), id)'
    PROVE  Settled(w, id)'
  <1>0. Here(w) \in Nodes /\ There(w) # Local
    BY EdgeTypes
  <1>1. Has(Here(w), id)'
    <2>1. CASE ~ Mirrored(w, id)
      BY <2>1 DEF Settled
    <2>2. CASE units'[Here(w)][id] = units[Here(w)][id]
      BY <2>2 DEF Settled, Has
    <2>3. ASSUME Mirrored(w, id), NEW n \in Nodes, NEW other \in UnitIds, ClientWrote(n, other)
          PROVE  units'[Here(w)][id] = units[Here(w)][id]
      BY <1>0, <2>3 DEF ClientWrote, OnlyWrites, Editable, Mirrored, IdsMinted
    <2>4. ASSUME Mirrored(w, id), NEW v \in Edges, NEW other \in UnitIds,
                 NEW row \in Rows \union {Absent}, WorkerWrote(v, other, row),
                 units'[Here(w)][id] = Absent
          PROVE  FALSE
      <3>1. units[Here(w)][id] # Absent
        BY <2>4 DEF Mirrored, Has
      <3>2. Here(v) = Here(w) /\ other = id
        BY <2>4, <3>1, EdgeTypes DEF WorkerWrote, OnlyWrites
      <3>3. row = Absent
        BY <2>4, <3>2, AbsentAssumption DEF WorkerWrote
      <3>4. v = w
        BY <2>4, <3>2, <3>3, EdgeTypes DEF WorkerWrote, Mirrored
      <3>5. QED
        BY <2>4, <3>2, <3>3, <3>4 DEF WorkerWrote, Source
    <2>5. QED
      BY <2>1, <2>2, <2>3, <2>4 DEF TablesStep, NothingWritten, Has
  <1>2. ASSUME Mirrored(w, id)'
        PROVE  units'[Here(w)][id].name = pass'[w].listed[id].name
    <2>1. CASE Mirrored(w, id) /\ units'[Here(w)][id] = units[Here(w)][id]
      BY <2>1 DEF Settled
    <2>2. ASSUME NEW row \in Rows, WorkerWrote(w, id, row)
          PROVE  units'[Here(w)][id].name = pass'[w].listed[id].name
      BY <2>2, AbsentAssumption DEF WorkerWrote, Source
    <2>3. QED
      BY <1>2, <2>1, <2>2, MirroredStep
  <1>3. QED
    BY <1>1, <1>2 DEF Settled

\* An upsert that meets no other unit's name settles its unit.
LEMMA UpsertSettles ==
    ASSUME TypeOK, NEW w \in Edges, NEW id \in UnitIds, Upsert(w, id),
           NameFree(Here(w), id, pass[w].listed[id].name), pass'[w].listed = pass[w].listed
    PROVE  Settled(w, id)'
  <1> DEFINE row == pass[w].listed[id]
             mirror == [row EXCEPT !.owner = There(w)]
  <1>0. row \in Rows /\ Here(w) \in Nodes /\ There(w) \in Nodes
    BY EdgeTypes DEF Upsert, InPass, TypeOK, PassesOK, Passes
  <1>1. UpsertSynced(w, id, row)
    BY DEF Upsert
  <1>2. CASE Write(Here(w), id, mirror)
    <2>1. units'[Here(w)][id] = mirror
      BY <1>0, <1>2, WriteEffect DEF TypeOK
    <2>2. mirror \in Rows /\ mirror.name = row.name
      BY <1>0 DEF Rows
    <2>3. QED
      BY <2>1, <2>2, AbsentAssumption DEF Settled, Has
  <1>3. CASE /\ UNCHANGED units
             /\ Has(Here(w), id)
             /\ Mirrored(w, id) => units[Here(w)][id].name = row.name
    BY <1>3 DEF Settled, Has, Mirrored
  <1>4. QED
    BY <1>1, <1>2, <1>3 DEF UpsertSynced

\* Which units a pass has still to upsert.
LEMMA TodoStep ==
    ASSUME TypeOK, [Next]_vars, NEW w \in Edges, pass[w] # Nothing, pass'[w] # Nothing
    PROVE  /\ pass'[w].listed = pass[w].listed
           /\ \A id \in pass[w].todo \ pass'[w].todo : Upsert(w, id) \/ UpsertFails(w, id)
  <1>1. CASE UNCHANGED pass
    BY <1>1
  <1>2. ASSUME NEW v \in Edges, BeginPass(v) \/ PassEnds(v) \/ PassFails(v) \/ WorkerRestarts(v)
        PROVE  pass'[w] = pass[w]
    BY <1>2 DEF TypeOK, PassesOK, BeginPass, StartPass, MuFree, PassEnds, PassFails, PassOver,
                WorkerRestarts
  <1>3. ASSUME NEW v \in Edges, NEW id \in UnitIds, Upsert(v, id) \/ UpsertFails(v, id), v # w
        PROVE  pass'[w] = pass[w]
    BY <1>3 DEF Upsert, UpsertFails, Upserted, TypeOK, PassesOK
  <1>4. ASSUME NEW id \in UnitIds, Upsert(w, id) \/ UpsertFails(w, id)
        PROVE  pass'[w].listed = pass[w].listed /\ pass'[w].todo = pass[w].todo \ {id}
    <2>1. pass' = [pass EXCEPT ![w].todo = @ \ {id}] /\ pass[w] \in Passes
      BY <1>4 DEF Upsert, UpsertFails, Upserted, TypeOK, PassesOK
    <2> DEFINE rest == [pass[w] EXCEPT !.todo = @ \ {id}]
    <2>2. rest.listed = pass[w].listed /\ rest.todo = pass[w].todo \ {id}
      BY <2>1 DEF Passes
    <2>3. pass'[w] = rest
      BY <2>1 DEF TypeOK, PassesOK
    <2> HIDE DEF rest
    <2>4. QED
      BY <2>2, <2>3
  <1>5. CASE PassNext
    <2>1. PICK v \in Edges :
             \/ Tick(v) \/ BeginPass(v) \/ ListFails(v) \/ PassEnds(v) \/ PassFails(v)
             \/ \E id \in UnitIds : Upsert(v, id) \/ UpsertFails(v, id) \/ DeleteVanished(v, id)
      BY <1>5 DEF PassNext
    <2>2. CASE \E id \in UnitIds : Upsert(v, id) \/ UpsertFails(v, id)
      BY <1>3, <1>4, <2>2
    <2>3. QED
      BY <1>1, <1>2, <2>1, <2>2 DEF Tick, ListFails, DeleteVanished
  <1>6. CASE StreamNext
    BY <1>1, <1>2, <1>6 DEF StreamNext, Connect, Break, Receive, Apply, ApplyFails
  <1>7. CASE ClientNext
    <2>1. UNCHANGED pass
      BY <1>7 DEF ClientNext, Create, Rename, Delete, ClientWrites
    <2>2. QED
      BY <1>1, <2>1
  <1>8. CASE CallNext
    <2>1. UNCHANGED pass
      BY <1>8 DEF CallNext, ReadBack, Lose, Publish
    <2>2. QED
      BY <1>1, <2>1
  <1>9. CASE UNCHANGED vars
    BY <1>1, <1>9 DEF vars
  <1>10. QED
    BY <1>5, <1>6, <1>7, <1>8, <1>9 DEF Next

LEMMA SettledStep ==
    ASSUME NEW w \in Edges, MirrorInv, KnownInv, SettledInv(w), [HistoryNext]_histvars,
           [Undisturbed(w)]_vars
    PROVE  SettledInv(w)'
  <1>1. CASE UNCHANGED vars
    BY <1>1 DEF vars, table, SettledInv, Settled, Has, Mirrored
  <1>2. CASE Next /\ Undisturbed(w)
    <2>1. [Next]_vars /\ TablesStep
      BY <1>2, Effects DEF MirrorInv
    <2>2. CASE pass[w] = Nothing
      <3>1. pass'[w] # Nothing =>
               pass'[w].todo = {id \in UnitIds : pass'[w].listed[id] # Absent}
        BY <2>1, <2>2, PassStep DEF BeginPass, StartPass, MirrorInv, TypeOK, PassesOK
      <3>2. QED
        BY <3>1 DEF SettledInv
    <2>3. ASSUME pass[w] # Nothing, pass'[w] # Nothing, NEW id \in UnitIds, id \notin pass'[w].todo,
                 pass'[w].listed[id] # Absent
          PROVE  Settled(w, id)'
      <3>1. pass'[w].listed = pass[w].listed
        BY <2>1, <2>3, TodoStep DEF MirrorInv
      <3>2. CASE id \notin pass[w].todo
        BY <1>2, <2>1, <2>3, <3>1, <3>2, SettledStays DEF KnownInv, SettledInv, Undisturbed
      <3>3. CASE id \in pass[w].todo
        <4>1. Upsert(w, id) \/ UpsertFails(w, id)
          <5>1. TypeOK /\ id \in pass[w].todo \ pass'[w].todo
            BY <2>3, <3>3 DEF MirrorInv
          <5>2. QED
            BY <2>1, <2>3, <5>1, TodoStep
        <4>2. Upsert(w, id) /\ NameFree(Here(w), id, pass[w].listed[id].name)
          BY <1>2, <4>1 DEF Undisturbed
        <4>3. QED
          BY <3>1, <4>2, UpsertSettles DEF MirrorInv
      <3>4. QED
        BY <3>2, <3>3
    <2>4. QED
      BY <2>2, <2>3 DEF SettledInv
  <1>3. QED
    BY <1>1, <1>2 DEF HistoryNext, histvars

(***************************************************************************)
(* A full pass that nothing disturbs leaves every unit that has not        *)
(* changed at the remote since it was listed in sync, whatever the mirror  *)
(* had missed before and whoever else mirrors whom.                        *)
(***************************************************************************)
THEOREM PassesComplete ==
    ASSUME NEW w \in Edges
    PROVE  HistorySafe /\ [][Undisturbed(w)]_vars => [][PassCompletes(w)]_vars
  <1>1. HistoryInit => SettledInv(w)
    BY DEF HistoryInit, Init, SettledInv
  <1>2. MirrorInv /\ KnownInv /\ SettledInv(w) /\ [HistoryNext]_histvars /\ [Undisturbed(w)]_vars
           => SettledInv(w)'
    BY SettledStep
  <1>3. MirrorInv /\ SettledInv(w) => PassCompletes(w)
    <2> SUFFICES ASSUME MirrorInv, SettledInv(w), PassEnds(w), NEW id \in UnitIds,
                        pass[w].listed[id] = units[There(w)][id]
                 PROVE  InSync(w, id)
      BY DEF PassCompletes
    <2>1. /\ pass[w] # Nothing /\ id \notin pass[w].todo
          /\ ~ (Mirrored(w, id) /\ pass[w].listed[id] = Absent)
      BY DEF PassEnds, PassOver, InPass, Vanished
    <2>2. QED
      BY <2>1 DEF SettledInv, Settled, InSync, Has
  <1>4. MirrorInv /\ SettledInv(w) => [PassCompletes(w)]_vars
    BY <1>3
  <1>5. QED
    BY <1>1, <1>2, <1>4, KnownInvariant, PTL DEF HistorySafe
=============================================================================
