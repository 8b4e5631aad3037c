------------------------- MODULE SyncManagerProofs -------------------------
(***************************************************************************)
(* Proofs about SyncManager for any remotes, settings and number of        *)
(* requests.                                                               *)
(***************************************************************************)
EXTENDS SyncManager, TLAPS

Holding == {"list", "stop", "wait", "start"}
Labels == {"idle", "lock", "list", "stop", "wait", "start", "kick",
           "loop", "cancel", "join", "done"}

\* reconcileMu excludes: its holder alone is inside reconcile.
LockInv == \A t \in Threads : pc[t] \in Holding <=> lock = t

\* A thread lists one configuration per remote.
DesiredInv == \A t \in Threads : \A d, e \in desired[t] : d.remote = e.remote => d = e

\* Workers are numbered, so a new one is none of those that run.
NumberInv == \A w \in live : w.no <= started[w.remote]

\* A running worker is in the map or a reconcile waits for it.
AccountedInv ==
    ~ RunStops =>
        \A w \in live : w \in workers \/ \E t \in Threads : pc[t] = "wait" /\ w \in held[t]

ManagerInv ==
    /\ TypeOK
    /\ LockInv
    /\ DesiredInv
    /\ NumberInv
    /\ AccountedInv
    /\ OneWorkerPerRemote

USE DEF Threads

LEMMA InitInv == Init => ManagerInv
  <1> SUFFICES ASSUME Init PROVE ManagerInv
    OBVIOUS
  <1> USE ThreadsAssumption DEF Init
  <1>1. AtMostOne({})
    BY DEF AtMostOne
  <1>2. TypeOK
    <2>1. pc \in [Threads -> Labels]
      BY DEF Labels
    <2>2. writes \in Nat /\ started \in [Remotes -> Nat]
      OBVIOUS
    <2>3. desired \in [Threads -> SUBSET Targets] /\ held \in [Threads -> SUBSET Workers]
      OBVIOUS
    <2>4. QED
      BY <1>1, <2>1, <2>2, <2>3 DEF TypeOK, Labels
  <1>3. LockInv
    BY DEF LockInv, Holding
  <1>4. DesiredInv
    BY DEF DesiredInv
  <1>5. NumberInv /\ AccountedInv /\ OneWorkerPerRemote
    BY <1>1 DEF NumberInv, AccountedInv, OneWorkerPerRemote
  <1>6. QED
    BY <1>2, <1>3, <1>4, <1>5 DEF ManagerInv

\* A step outside of reconcile by a thread that stays outside of it, and that
\* leaves the workers, what was listed and what is waited for alone.
LEMMA QuietStep ==
    ASSUME ManagerInv, TypeOK', lock' = lock, desired' = desired, started' = started,
           workers' = workers, live' \subseteq live, ~ RunStops' => ~ RunStops,
           \A t \in Threads : pc'[t] \in Holding <=> pc[t] \in Holding,
           \A t \in Threads : pc[t] = "wait" => pc'[t] = "wait" /\ held'[t] = held[t]
    PROVE  ManagerInv'
  <1>1. LockInv' /\ DesiredInv' /\ NumberInv'
    BY DEF ManagerInv, LockInv, DesiredInv, NumberInv
  <1>2. AccountedInv'
    BY DEF ManagerInv, AccountedInv
  <1>3. OneWorkerPerRemote'
    BY DEF ManagerInv, OneWorkerPerRemote, AtMostOne
  <1>4. QED
    BY <1>1, <1>2, <1>3 DEF ManagerInv

\* A worker step leaves the threads, the map and the table alone.
LEMMA WorkerTypes ==
    ASSUME TypeOK, NEW w \in live, WorkerStep(w)
    PROVE  TypeOK' /\ live' \subseteq live /\ UNCHANGED Manager
  <1> USE DEF TypeOK, Manager, threads
  <1>1. w \in Workers /\ w.remote \in Remotes
    BY DEF Workers
  <1>2. CASE FirstPass(w)
    BY <1>1, <1>2 DEF FirstPass, BeginPass
  <1>3. CASE TickPass(w)
    BY <1>1, <1>3 DEF TickPass, BeginPass
  <1>4. CASE KickPass(w)
    BY <1>1, <1>4 DEF KickPass, BeginPass
  <1>5. CASE PassEnds(w)
    BY <1>1, <1>5 DEF PassEnds
  <1>6. CASE StreamConnects(w)
    BY <1>1, <1>6 DEF StreamConnects, RequestSync
  <1>7. CASE WorkerEnds(w)
    BY <1>1, <1>7 DEF WorkerEnds
  <1>8. QED
    BY <1>2, <1>3, <1>4, <1>5, <1>6, <1>7 DEF WorkerStep

LEMMA WorkerInv ==
    ASSUME ManagerInv, NEW w \in live, WorkerStep(w)
    PROVE  ManagerInv'
  <1>1. TypeOK' /\ live' \subseteq live /\ UNCHANGED Manager
    BY WorkerTypes DEF ManagerInv
  <1>2. QED
    BY <1>1, QuietStep DEF Manager, threads, RunStops

\* Requests that write the table or ask for a pass.
LEMMA RequestInv ==
    ASSUME ManagerInv, NEW q \in Requests, RequestStep(q)
    PROVE  ManagerInv'
  <1>0. TypeOK /\ q \in Threads /\ q # Main
    BY ThreadsAssumption DEF ManagerInv
  <1>1. ASSUME NEW r \in Remotes, NEW row \in Rows \union {NoRow}, WriteTable(q, r, row),
               used' \subseteq Remotes
        PROVE  ManagerInv'
    <2>1. TypeOK'
      BY <1>0, <1>1 DEF WriteTable, Goto, TypeOK, work
    <2>2. QED
      BY <1>0, <1>1, <2>1, QuietStep DEF WriteTable, Goto, work, RunStops, TypeOK, Holding
  <1>2. ASSUME NEW r \in Remotes, NEW row \in Rows, Create(q, r, row) PROVE ManagerInv'
    BY <1>0, <1>1, <1>2 DEF Create, TypeOK
  <1>3. ASSUME NEW r \in Remotes, NEW row \in Rows, Update(q, r, row) PROVE ManagerInv'
    BY <1>0, <1>1, <1>3 DEF Update, TypeOK
  <1>4. ASSUME NEW r \in Remotes, Delete(q, r) PROVE ManagerInv'
    BY <1>0, <1>1, <1>4 DEF Delete, TypeOK
  <1>5. ASSUME NEW r \in Remotes, UpdateGone(q, r) PROVE ManagerInv'
    <2>1. TypeOK'
      BY <1>0, <1>5 DEF UpdateGone, Goto, TypeOK, work
    <2>2. QED
      BY <1>0, <1>5, <2>1, QuietStep DEF UpdateGone, Goto, work, RunStops, TypeOK, Holding
  <1>6. ASSUME NEW w \in workers, Trigger(q, w) PROVE ManagerInv'
    <2>1. w \in Workers /\ w.remote \in Remotes
      BY <1>0 DEF TypeOK, Workers
    <2>2. TypeOK'
      BY <1>0, <1>6, <2>1 DEF Trigger, Goto, TypeOK
    <2>3. QED
      BY <1>0, <1>6, <2>2, QuietStep DEF Trigger, Goto, RunStops, TypeOK, Holding
  <1>7. CASE Kick(q)
    <2>1. TypeOK'
      BY <1>0, <1>7 DEF Kick, RequestSync, Goto, TypeOK
    <2>2. QED
      BY <1>0, <1>7, <2>1, QuietStep DEF Kick, Goto, RunStops, TypeOK, Holding
  <1>8. QED
    BY <1>2, <1>3, <1>4, <1>5, <1>6, <1>7 DEF RequestStep

LEMMA MainInv ==
    ASSUME ManagerInv, MainStep \/ Signal \/ UNCHANGED vars
    PROVE  ManagerInv'
  <1>0. TypeOK
    BY DEF ManagerInv
  <1>1. CASE Tick
    <2>1. TypeOK'
      BY <1>0, <1>1 DEF Tick, Goto, TypeOK, work
    <2>2. QED
      BY <1>0, <1>1, <2>1, QuietStep DEF Tick, Goto, work, RunStops, TypeOK, Holding
  <1>2. CASE StopAll
    <2>1. TypeOK'
      <3>1. AtMostOne({})
        BY DEF AtMostOne
      <3>2. QED
        BY <1>0, <1>2, <3>1 DEF StopAll, Goto, TypeOK, work
    <2>2. RunStops'
      BY <1>0, <1>2 DEF StopAll, Goto, RunStops, TypeOK
    <2>3. LockInv' /\ DesiredInv' /\ NumberInv'
      BY <1>0, <1>2 DEF StopAll, Goto, work, ManagerInv, LockInv, DesiredInv, NumberInv,
                        TypeOK, Holding
    <2>4. QED
      BY <2>1, <2>2, <2>3 DEF ManagerInv, AccountedInv, OneWorkerPerRemote
  <1>3. CASE CancelAll
    <2>1. TypeOK'
      BY <1>0, <1>3 DEF CancelAll, Cancel, Goto, TypeOK
    <2>2. QED
      BY <1>0, <1>3, <2>1, QuietStep DEF CancelAll, Goto, RunStops, TypeOK, Holding
  <1>4. CASE RunReturns
    <2>1. TypeOK'
      BY <1>0, <1>4 DEF RunReturns, Goto, TypeOK, work
    <2>2. QED
      BY <1>0, <1>4, <2>1, QuietStep DEF RunReturns, Goto, work, RunStops, TypeOK, Holding
  <1>5. CASE Signal
    <2>1. TypeOK'
      BY <1>0, <1>5 DEF Signal, TypeOK, work, threads
    <2>2. QED
      BY <1>0, <1>5, <2>1, QuietStep DEF Signal, work, threads, RunStops
  <1>6. CASE UNCHANGED vars
    <2>1. TypeOK'
      BY <1>0, <1>6 DEF vars, TypeOK, work, threads
    <2>2. QED
      BY <1>0, <1>6, <2>1, QuietStep DEF vars, work, threads, RunStops
  <1>7. QED
    BY <1>1, <1>2, <1>3, <1>4, <1>5, <1>6 DEF MainStep

(***************************************************************************)
(* The steps of reconcile.  The thread that takes one holds reconcileMu,   *)
(* so no other thread waits for a worker.                                  *)
(***************************************************************************)
LEMMA OthersOutside ==
    ASSUME ManagerInv, NEW t \in Threads, pc[t] \in Holding
    PROVE  lock = t /\ \A u \in Threads : u # t => pc[u] \notin Holding
  BY DEF ManagerInv, LockInv

LEMMA LockStep ==
    ASSUME ManagerInv, NEW t \in Threads, Lock(t)
    PROVE  ManagerInv'
  <1>0. TypeOK
    BY DEF ManagerInv
  <1>1. TypeOK'
    BY <1>0 DEF Lock, Goto, TypeOK, work
  <1>2. LockInv'
    BY <1>0, ThreadsAssumption DEF Lock, Goto, ManagerInv, LockInv, TypeOK, Holding
  <1>3. DesiredInv' /\ NumberInv'
    BY DEF Lock, work, ManagerInv, DesiredInv, NumberInv
  <1>4. AccountedInv' /\ OneWorkerPerRemote'
    BY <1>0 DEF Lock, Goto, work, ManagerInv, AccountedInv, OneWorkerPerRemote, RunStops, TypeOK,
                AtMostOne
  <1>5. QED
    BY <1>1, <1>2, <1>3, <1>4 DEF ManagerInv

LEMMA ListStep ==
    ASSUME ManagerInv, NEW t \in Threads, List(t)
    PROVE  ManagerInv'
  <1>0. TypeOK
    BY DEF ManagerInv
  <1>1. TypeOK'
    BY <1>0 DEF List, Goto, TypeOK, work
  <1>2. LockInv' /\ NumberInv'
    BY <1>0 DEF List, Goto, work, ManagerInv, LockInv, NumberInv, TypeOK, Holding
  <1>3. DesiredInv'
    <2> SUFFICES ASSUME NEW u \in Threads, NEW d \in desired'[u], NEW e \in desired'[u],
                        d.remote = e.remote
                 PROVE  d = e
      BY DEF DesiredInv
    <2>1. CASE u = t
      <3>1. /\ d \in Targets /\ e \in Targets
            /\ table[d.remote].config = d.config /\ table[e.remote].config = e.config
        BY <1>0, <2>1 DEF List, TypeOK
      <3>2. QED
        BY <3>1 DEF Targets
    <2>2. CASE u # t
      BY <1>0, <2>2 DEF List, TypeOK, ManagerInv, DesiredInv
    <2>3. QED
      BY <2>1, <2>2
  <1>4. AccountedInv' /\ OneWorkerPerRemote'
    BY <1>0 DEF List, Goto, work, ManagerInv, AccountedInv, OneWorkerPerRemote, RunStops, TypeOK,
                AtMostOne
  <1>5. QED
    BY <1>1, <1>2, <1>3, <1>4 DEF ManagerInv

\* A list that fails leaves reconcile before any worker is stopped.
LEMMA ListFailsStep ==
    ASSUME ManagerInv, NEW t \in Threads, ListFails(t)
    PROVE  ManagerInv'
  <1>0. TypeOK
    BY DEF ManagerInv
  <1>1. TypeOK'
    BY <1>0 DEF ListFails, Return, Goto, TypeOK, work
  <1>2. LockInv'
    <2>1. \A u \in Threads : u # t => pc[u] \notin Holding
      BY OthersOutside DEF ListFails, Holding
    <2>2. QED
      BY <1>0, <2>1, ThreadsAssumption
      DEF ListFails, Return, Goto, ManagerInv, LockInv, TypeOK, Holding
  <1>3. DesiredInv' /\ NumberInv'
    BY DEF ListFails, work, ManagerInv, DesiredInv, NumberInv
  <1>4. AccountedInv' /\ OneWorkerPerRemote'
    BY <1>0 DEF ListFails, Return, Goto, work, ManagerInv, AccountedInv, OneWorkerPerRemote,
                RunStops, TypeOK, AtMostOne
  <1>5. QED
    BY <1>1, <1>2, <1>3, <1>4 DEF ManagerInv

LEMMA StopStep ==
    ASSUME ManagerInv, NEW t \in Threads, Stop(t)
    PROVE  ManagerInv'
  <1> DEFINE stopped == {w \in workers : ~ Wanted(w, desired[t])}
  <1>0. TypeOK
    BY DEF ManagerInv
  <1>1. /\ workers' = workers \ stopped
        /\ held' = [held EXCEPT ![t] = stopped]
        /\ canceled' = canceled \union stopped
        /\ pc[t] = "stop" /\ pc' = [pc EXCEPT ![t] = "wait"]
        /\ UNCHANGED <<table, writes, used, started, live, fresh, busy, kicked, asked,
                       lock, desired, stopping>>
    BY DEF Stop, Cancel, Goto
  <1>2. stopped \subseteq workers
    OBVIOUS
  <1> HIDE DEF stopped
  <1>3. TypeOK'
    <2>1. AtMostOne(workers')
      BY <1>0, <1>1 DEF AtMostOne, TypeOK
    <2>2. QED
      BY <1>0, <1>1, <1>2, <2>1 DEF TypeOK
  <1>4. LockInv' /\ DesiredInv' /\ NumberInv'
    BY <1>0, <1>1 DEF ManagerInv, LockInv, DesiredInv, NumberInv, TypeOK, Holding
  <1>5. AccountedInv'
    <2> SUFFICES ASSUME ~ RunStops', NEW w \in live
                 PROVE  w \in workers' \/ \E u \in Threads : pc'[u] = "wait" /\ w \in held'[u]
      BY <1>1 DEF AccountedInv
    <2>1. ~ RunStops
      BY <1>0, <1>1 DEF RunStops, TypeOK
    <2>2. w \in workers
      BY <1>1, <2>1, OthersOutside DEF ManagerInv, AccountedInv, Holding
    <2>3. w \in stopped => pc'[t] = "wait" /\ w \in held'[t]
      BY <1>0, <1>1 DEF TypeOK
    <2>4. QED
      BY <1>1, <2>2, <2>3
  <1>6. OneWorkerPerRemote'
    BY <1>0, <1>1 DEF ManagerInv, OneWorkerPerRemote, RunStops, TypeOK, AtMostOne
  <1>7. QED
    BY <1>3, <1>4, <1>5, <1>6 DEF ManagerInv

LEMMA WaitStep ==
    ASSUME ManagerInv, NEW t \in Threads, Wait(t)
    PROVE  ManagerInv'
  <1>0. TypeOK
    BY DEF ManagerInv
  <1>1. TypeOK'
    BY <1>0 DEF Wait, Goto, TypeOK, work
  <1>2. LockInv' /\ DesiredInv' /\ NumberInv'
    BY <1>0 DEF Wait, Goto, work, ManagerInv, LockInv, DesiredInv, NumberInv, TypeOK, Holding
  <1>3. AccountedInv'
    <2> SUFFICES ASSUME ~ RunStops', NEW w \in live
                 PROVE  w \in workers
      BY DEF AccountedInv, Wait, work
    <2>1. ~ RunStops
      BY <1>0 DEF Wait, Goto, RunStops, TypeOK
    <2>2. w \notin held[t]
      BY DEF Wait, Gone
    <2>3. \A u \in Threads : u # t => pc[u] # "wait"
      BY OthersOutside DEF Wait, Holding
    <2>4. QED
      BY <2>1, <2>2, <2>3 DEF ManagerInv, AccountedInv
  <1>4. OneWorkerPerRemote'
    BY <1>0 DEF Wait, Goto, work, ManagerInv, OneWorkerPerRemote, RunStops, TypeOK, AtMostOne
  <1>5. QED
    BY <1>1, <1>2, <1>3, <1>4 DEF ManagerInv

LEMMA StartStep ==
    ASSUME ManagerInv, NEW t \in Threads, Start(t)
    PROVE  ManagerInv'
  <1> DEFINE new == {NewWorker(d) : d \in Missing(t)}
  <1>0. TypeOK
    BY DEF ManagerInv
  <1>1. /\ workers' = workers \union new /\ live' = live \union new /\ fresh' = fresh \union new
        /\ started' = [r \in Remotes |-> IF \E w \in new : w.remote = r
                                         THEN started[r] + 1 ELSE started[r]]
        /\ lock' = Nobody /\ desired' = [desired EXCEPT ![t] = {}]
        /\ pc[t] = "start" /\ pc' = [pc EXCEPT ![t] = IF t = Main THEN "loop" ELSE "idle"]
        /\ UNCHANGED <<table, writes, used, canceled, busy, kicked, held, asked, stopping>>
    BY DEF Start, Return, Goto
  <1>2. /\ new \subseteq Workers
        /\ \A w \in new : /\ w.no = started[w.remote] + 1
                          /\ \A v \in workers : v.remote # w.remote
    BY <1>0 DEF NewWorker, Missing, Targets, Workers, TypeOK
  <1>3. AtMostOne(new)
    BY <1>0 DEF AtMostOne, NewWorker, Missing, ManagerInv, DesiredInv
  <1> HIDE DEF new
  <1>4. \A w \in new : w \notin live
    BY <1>0, <1>2 DEF ManagerInv, NumberInv, TypeOK, Workers
  <1>5. TypeOK'
    <2>1. AtMostOne(workers')
      BY <1>0, <1>1, <1>2, <1>3 DEF AtMostOne, TypeOK
    <2>2. started' \in [Remotes -> Nat]
      BY <1>0, <1>1 DEF TypeOK
    <2>3. pc' \in [Threads -> Labels] /\ lock' \in Threads \union {Nobody}
      BY <1>0, <1>1 DEF TypeOK, Labels
    <2>4. fresh' \subseteq live' /\ busy' \subseteq live' /\ fresh' \intersect busy' = {}
      BY <1>0, <1>1, <1>4 DEF TypeOK
    <2>5. workers' \subseteq Workers /\ live' \subseteq Workers
      BY <1>0, <1>1, <1>2 DEF TypeOK
    <2>6. QED
      BY <1>0, <1>1, <2>1, <2>2, <2>3, <2>4, <2>5 DEF TypeOK, Labels
  <1>6. LockInv'
    <2>1. \A u \in Threads : u # t => pc[u] \notin Holding
      BY <1>1, OthersOutside DEF Holding
    <2>2. QED
      BY <1>0, <1>1, <2>1, ThreadsAssumption DEF ManagerInv, LockInv, TypeOK, Holding
  <1>7. DesiredInv'
    BY <1>0, <1>1 DEF ManagerInv, DesiredInv, TypeOK
  <1>8. NumberInv'
    <2> SUFFICES ASSUME NEW w \in live' PROVE w.no <= started'[w.remote]
      BY DEF NumberInv
    <2>1. w.remote \in Remotes /\ w.no \in Nat /\ started[w.remote] \in Nat
      BY <1>0, <1>1, <1>2 DEF TypeOK, Workers
    <2>2. CASE w \in new
      BY <1>1, <1>2, <2>1, <2>2
    <2>3. CASE w \in live
      <3>1. w.no <= started[w.remote]
        BY <2>3 DEF ManagerInv, NumberInv
      <3>2. QED
        BY <1>1, <2>1, <3>1
    <2>4. QED
      BY <1>1, <2>2, <2>3
  <1>9. ~ RunStops => live \subseteq workers
    BY <1>1, OthersOutside DEF ManagerInv, AccountedInv, Holding
  <1>10. ~ RunStops' => ~ RunStops
    BY <1>0, <1>1 DEF RunStops, TypeOK
  <1>11. AccountedInv'
    BY <1>1, <1>9, <1>10 DEF AccountedInv
  <1>12. OneWorkerPerRemote'
    <2>1. ~ RunStops' => live' \subseteq workers'
      BY <1>1, <1>9, <1>10
    <2>2. AtMostOne(workers')
      BY <1>5 DEF TypeOK
    <2>3. QED
      BY <2>1, <2>2 DEF OneWorkerPerRemote, AtMostOne
  <1>13. QED
    BY <1>5, <1>6, <1>7, <1>8, <1>11, <1>12 DEF ManagerInv
-----------------------------------------------------------------------------
LEMMA ManagerInvStep == ManagerInv /\ [Next]_vars => ManagerInv'
  <1> SUFFICES ASSUME ManagerInv, [Next]_vars PROVE ManagerInv'
    OBVIOUS
  <1>1. ASSUME NEW q \in Requests, RequestStep(q) PROVE ManagerInv'
    BY <1>1, RequestInv
  <1>2. ASSUME NEW t \in Threads, ReconcileStep(t) PROVE ManagerInv'
    BY <1>2, LockStep, ListStep, ListFailsStep, StopStep, WaitStep, StartStep DEF ReconcileStep
  <1>3. ASSUME NEW w \in live, WorkerStep(w) PROVE ManagerInv'
    BY <1>3, WorkerInv
  <1>4. CASE MainStep \/ Signal \/ UNCHANGED vars
    BY <1>4, MainInv
  <1>5. QED
    BY <1>1, <1>2, <1>3, <1>4 DEF Next

\* ManagerInv holds of every reachable state.
THEOREM ManagerInvariant == Spec => []ManagerInv
  BY InitInv, ManagerInvStep, PTL DEF Spec, Safe

\* Every variable keeps its type; the map has at most one worker per remote.
THEOREM ManagerTypeCorrect == Spec => []TypeOK
  <1>1. ManagerInv => TypeOK
    BY DEF ManagerInv
  <1>2. QED
    BY <1>1, ManagerInvariant, PTL

\* Until Run stops them, no remote has two running workers.
THEOREM OneWorker == Spec => []OneWorkerPerRemote
  <1>1. ManagerInv => OneWorkerPerRemote
    BY DEF ManagerInv
  <1>2. QED
    BY <1>1, ManagerInvariant, PTL

\* A running worker is told to stop, or in the map, or about to be told.
THEOREM NoStrayWorker == Spec => []WorkersInHand
  <1>1. Init => WorkersInHand
    BY DEF Init, WorkersInHand
  <1>2. TypeOK /\ WorkersInHand /\ [Next]_vars => WorkersInHand'
    <2> SUFFICES ASSUME TypeOK, WorkersInHand, [Next]_vars PROVE WorkersInHand'
      OBVIOUS
    <2> USE DEF WorkersInHand, Goto
    <2>1. ASSUME NEW q \in Requests, RequestStep(q) PROVE WorkersInHand'
      <3>1. q # Main /\ q \in Threads
        BY ThreadsAssumption
      <3>2. /\ UNCHANGED <<live, canceled, workers>>
            /\ pc'[Main] = pc[Main] /\ held'[Main] = held[Main]
        BY <2>1, <3>1 DEF RequestStep, Create, Update, UpdateGone, Delete, WriteTable, Trigger,
                          Kick, work, TypeOK
      <3>3. QED
        BY <3>2
    <2>2. ASSUME NEW t \in Threads, Lock(t) \/ List(t) \/ ListFails(t) \/ Wait(t)
          PROVE  WorkersInHand'
      <3>1. /\ UNCHANGED <<live, canceled, workers>>
            /\ pc[Main] = "cancel" => pc'[Main] = pc[Main] /\ held'[Main] = held[Main]
        BY <2>2 DEF Lock, List, ListFails, Wait, Return, work, TypeOK
      <3>2. QED
        BY <3>1
    <2>3. ASSUME NEW t \in Threads, Stop(t) PROVE WorkersInHand'
      <3>1. pc[Main] = "cancel" => pc'[Main] = pc[Main] /\ held'[Main] = held[Main]
        BY <2>3 DEF Stop, TypeOK
      <3>2. QED
        BY <2>3, <3>1 DEF Stop, Cancel
    <2>4. ASSUME NEW t \in Threads, Start(t) PROVE WorkersInHand'
      <3>1. pc[Main] = "cancel" => pc'[Main] = pc[Main] /\ held'[Main] = held[Main]
        BY <2>4 DEF Start, Return, TypeOK
      <3>2. QED
        BY <2>4, <3>1 DEF Start
    <2>5. CASE Tick \/ RunReturns \/ Signal \/ UNCHANGED vars
      BY <2>5 DEF Tick, RunReturns, Signal, vars, work, threads, TypeOK
    <2>6. CASE StopAll
      BY <2>6 DEF StopAll, work, TypeOK
    <2>7. CASE CancelAll
      BY <2>7 DEF CancelAll, Cancel, TypeOK
    <2>8. ASSUME NEW w \in live, WorkerStep(w) PROVE WorkersInHand'
      <3>1. live' \subseteq live /\ UNCHANGED Manager
        BY <2>8, WorkerTypes
      <3>2. canceled' = canceled
        BY <2>8 DEF WorkerStep, FirstPass, TickPass, KickPass, BeginPass, PassEnds,
                    StreamConnects, WorkerEnds
      <3>3. QED
        BY <3>1, <3>2 DEF Manager, threads
    <2>9. QED
      BY <2>1, <2>2, <2>3, <2>4, <2>5, <2>6, <2>7, <2>8 DEF Next, ReconcileStep, MainStep
  <1>3. QED
    BY <1>1, <1>2, ManagerTypeCorrect, PTL DEF Spec, Safe
-----------------------------------------------------------------------------
(***************************************************************************)
(* What a reconcile achieves, and what becomes of a request for a pass.    *)
(* ReconcileExact and RequestRemembered rest on the map telling the truth: *)
(* the workers in it run and are not canceled, no canceled worker has the  *)
(* number of one to come, and what a thread has not stopped it wants.      *)
(***************************************************************************)
MapTrue == workers \subseteq live \ canceled

CanceledNumbers == \A w \in canceled : w.no <= started[w.remote]

\* What stopAll took from the map is canceled by nobody else.
TakenInv == pc[Main] = "cancel" => held[Main] \subseteq live \ (canceled \union workers)

WantedInv ==
    \A t \in Threads :
        pc[t] \in {"wait", "start"} => \A w \in workers : Wanted(w, desired[t])

MapInv == MapTrue /\ CanceledNumbers /\ TakenInv /\ WantedInv /\ RequestRemembered

LEMMA InitMap == Init => MapInv
  <1> SUFFICES ASSUME Init PROVE MapInv
    OBVIOUS
  <1>1. MapTrue /\ CanceledNumbers /\ RequestRemembered
    BY DEF Init, MapTrue, CanceledNumbers, RequestRemembered
  <1>2. TakenInv /\ WantedInv
    BY ThreadsAssumption DEF Init, TakenInv, WantedInv
  <1>3. QED
    BY <1>1, <1>2 DEF MapInv

\* A thread's step that starts, stops, cancels and asks for nothing.
LEMMA QuietMap ==
    ASSUME MapInv, UNCHANGED <<workers, live, canceled, started, fresh, kicked, asked>>,
           \A u \in Threads : pc'[u] \in {"wait", "start"} =>
                                pc[u] \in {"wait", "start"} /\ desired'[u] = desired[u],
           pc'[Main] = "cancel" => pc[Main] = "cancel" /\ held'[Main] = held[Main],
           \A u \in Requests : pc[u] = "kick" => pc'[u] = "kick" /\ held'[u] = held[u]
    PROVE  MapInv'
  <1>1. MapTrue' /\ CanceledNumbers' /\ TakenInv'
    BY DEF MapInv, MapTrue, CanceledNumbers, TakenInv
  <1>2. WantedInv'
    BY DEF MapInv, WantedInv, Wanted
  <1>3. RequestRemembered'
    BY DEF MapInv, RequestRemembered
  <1>4. QED
    BY <1>1, <1>2, <1>3 DEF MapInv

LEMMA RequestMap ==
    ASSUME TypeOK, MapInv, NEW q \in Requests, RequestStep(q)
    PROVE  MapInv'
  <1>1. q \in Threads /\ q # Main
    BY ThreadsAssumption
  <1>2. CASE \E r \in Remotes : \/ UpdateGone(q, r) \/ Delete(q, r)
                               \/ \E row \in Rows : Create(q, r, row) \/ Update(q, r, row)
    <2>1. /\ UNCHANGED <<workers, started, live, canceled, fresh, kicked, asked, desired, held>>
          /\ pc[q] = "idle" /\ pc' = [pc EXCEPT ![q] = "lock"]
      BY <1>2 DEF UpdateGone, Delete, Create, Update, WriteTable, Goto, work
    <2>2. QED
      BY <1>1, <2>1, QuietMap DEF TypeOK
  <1>3. ASSUME NEW w \in workers, Trigger(q, w) PROVE MapInv'
    <2>1. /\ UNCHANGED <<workers, started, live, canceled, fresh, kicked, desired>>
          /\ asked' = asked \union {w.remote}
          /\ pc[q] = "idle" /\ pc'[q] = "kick" /\ held'[q] = {w}
          /\ \A u \in Threads \ {q} : pc'[u] = pc[u] /\ held'[u] = held[u]
      BY <1>1, <1>3 DEF Trigger, Goto, TypeOK
    <2>2. MapTrue' /\ CanceledNumbers' /\ TakenInv' /\ WantedInv'
      BY <1>1, <2>1 DEF MapInv, MapTrue, CanceledNumbers, TakenInv, WantedInv, Wanted
    <2>3. ASSUME NEW v \in workers, v.remote \in asked'
          PROVE  \/ v \in fresh \union kicked
                 \/ \E u \in Requests : pc'[u] = "kick" /\ v \in held'[u]
      <3>1. CASE v.remote = w.remote
        BY <2>1, <3>1 DEF TypeOK, AtMostOne
      <3>2. CASE v.remote # w.remote
        BY <2>1, <2>3, <3>2 DEF MapInv, RequestRemembered
      <3>3. QED
        BY <3>1, <3>2
    <2>4. QED
      BY <2>1, <2>2, <2>3 DEF MapInv, RequestRemembered
  <1>4. CASE Kick(q)
    <2>1. /\ UNCHANGED <<workers, started, live, canceled, fresh, asked, desired>>
          /\ kicked' = kicked \union held[q]
          /\ pc[q] = "kick" /\ pc'[q] = "idle"
          /\ \A u \in Threads \ {q} : pc'[u] = pc[u] /\ held'[u] = held[u]
      BY <1>1, <1>4 DEF Kick, RequestSync, Goto, TypeOK
    <2>2. MapTrue' /\ CanceledNumbers' /\ TakenInv' /\ WantedInv'
      BY <1>1, <2>1 DEF MapInv, MapTrue, CanceledNumbers, TakenInv, WantedInv, Wanted
    <2>3. RequestRemembered'
      BY <2>1 DEF MapInv, RequestRemembered
    <2>4. QED
      BY <2>2, <2>3 DEF MapInv
  <1>5. QED
    BY <1>2, <1>3, <1>4 DEF RequestStep

LEMMA ReconcileMap ==
    ASSUME ManagerInv, MapInv, NEW t \in Threads, ReconcileStep(t)
    PROVE  MapInv'
  <1>0. TypeOK
    BY DEF ManagerInv
  <1>1. CASE Lock(t) \/ List(t) \/ ListFails(t) \/ Wait(t)
    <2>1. /\ UNCHANGED <<workers, started, live, canceled, fresh, kicked, asked>>
          /\ pc[t] \in {"lock", "list", "wait"}
          /\ pc'[t] \in {"list", "stop", "start", "loop", "idle"}
          /\ pc'[t] = "start" => pc[t] = "wait" /\ desired'[t] = desired[t]
          /\ \A u \in Threads \ {t} : pc'[u] = pc[u] /\ held'[u] = held[u]
                                      /\ desired'[u] = desired[u]
      BY <1>0, <1>1 DEF Lock, List, ListFails, Wait, Return, Goto, work, TypeOK
    <2>2. QED
      BY <2>1, QuietMap
  <1>2. CASE Stop(t)
    <2> DEFINE stopped == {w \in workers : ~ Wanted(w, desired[t])}
    <2>1. /\ workers' = workers \ stopped /\ canceled' = canceled \union stopped
          /\ UNCHANGED <<started, live, fresh, kicked, asked, desired>>
          /\ pc[t] = "stop" /\ pc'[t] = "wait"
          /\ \A u \in Threads \ {t} : pc'[u] = pc[u] /\ held'[u] = held[u]
      BY <1>0, <1>2 DEF Stop, Cancel, Goto, TypeOK
    <2>2. stopped \subseteq workers /\ \A w \in workers \ stopped : Wanted(w, desired[t])
      OBVIOUS
    <2> HIDE DEF stopped
    <2>3. MapTrue' /\ TakenInv'
      BY <2>1, <2>2 DEF MapInv, MapTrue, TakenInv
    <2>4. CanceledNumbers'
      BY <2>1, <2>2 DEF MapInv, MapTrue, CanceledNumbers, ManagerInv, NumberInv
    <2>5. WantedInv'
      <3> SUFFICES ASSUME NEW u \in Threads, pc'[u] \in {"wait", "start"}, NEW w \in workers'
                   PROVE  Wanted(w, desired[u])
        BY <2>1 DEF WantedInv, Wanted
      <3>1. CASE u = t
        BY <2>1, <2>2, <3>1
      <3>2. CASE u # t
        BY <2>1, <3>2 DEF MapInv, WantedInv
      <3>3. QED
        BY <3>1, <3>2
    <2>6. RequestRemembered'
      BY <2>1 DEF MapInv, RequestRemembered
    <2>7. QED
      BY <2>3, <2>4, <2>5, <2>6 DEF MapInv
  <1>3. CASE Start(t)
    <2> DEFINE new == {NewWorker(d) : d \in Missing(t)}
    <2>1. /\ workers' = workers \union new /\ live' = live \union new
          /\ fresh' = fresh \union new
          /\ started' = [r \in Remotes |-> IF \E w \in new : w.remote = r
                                           THEN started[r] + 1 ELSE started[r]]
          /\ UNCHANGED <<canceled, kicked, asked, held>>
          /\ pc[t] = "start" /\ pc'[t] \in {"loop", "idle"}
          /\ \A u \in Threads \ {t} : pc'[u] = pc[u] /\ desired'[u] = desired[u]
      BY <1>0, <1>3 DEF Start, Return, Goto, TypeOK
    <2>2. new \subseteq Workers /\ \A w \in new : w.no = started[w.remote] + 1
      BY <1>0 DEF NewWorker, Missing, Targets, Workers, TypeOK
    <2> HIDE DEF new
    <2>3. ASSUME NEW w \in live \union canceled
          PROVE  w \notin new /\ w.no <= started'[w.remote]
      <3>1. w.remote \in Remotes /\ w.no \in Nat /\ started[w.remote] \in Nat
        BY <1>0 DEF TypeOK, Workers
      <3>2. w.no <= started[w.remote]
        BY DEF MapInv, CanceledNumbers, ManagerInv, NumberInv
      <3>3. QED
        BY <2>1, <2>2, <3>1, <3>2
    <2>4. MapTrue' /\ CanceledNumbers'
      BY <2>1, <2>3 DEF MapInv, MapTrue, CanceledNumbers
    <2>5. TakenInv'
      BY <2>1, <2>3 DEF MapInv, TakenInv
    <2>6. WantedInv'
      <3>1. \A u \in Threads : pc'[u] \notin {"wait", "start"}
        BY <2>1, OthersOutside DEF Holding
      <3>2. QED
        BY <3>1 DEF WantedInv
    <2>7. RequestRemembered'
      BY <2>1 DEF MapInv, RequestRemembered
    <2>8. QED
      BY <2>4, <2>5, <2>6, <2>7 DEF MapInv
  <1>4. QED
    BY <1>1, <1>2, <1>3 DEF ReconcileStep

LEMMA MainMap ==
    ASSUME ManagerInv, MapInv, MainStep \/ Signal \/ UNCHANGED vars
    PROVE  MapInv'
  <1>0. TypeOK
    BY DEF ManagerInv
  <1>1. CASE Tick \/ RunReturns \/ Signal \/ UNCHANGED vars
    <2>1. /\ UNCHANGED <<workers, started, live, canceled, fresh, kicked, asked, desired, held>>
          /\ pc'[Main] \in {"lock", "done", pc[Main]}
          /\ \A u \in Threads \ {Main} : pc'[u] = pc[u]
      BY <1>0, <1>1 DEF Tick, RunReturns, Signal, Goto, vars, work, threads, TypeOK
    <2>2. QED
      BY <2>1, QuietMap, ThreadsAssumption
  <1>2. CASE StopAll
    <2>1. /\ workers' = {} /\ held'[Main] = workers
          /\ UNCHANGED <<started, live, canceled, desired>>
      BY <1>0, <1>2 DEF StopAll, work, TypeOK
    <2>2. QED
      BY <2>1 DEF MapInv, MapTrue, CanceledNumbers, TakenInv, WantedInv, RequestRemembered
  <1>3. CASE CancelAll
    <2>1. /\ UNCHANGED <<workers, started, live, fresh, kicked, asked, desired, held>>
          /\ canceled' = canceled \union held[Main]
          /\ pc[Main] = "cancel" /\ pc'[Main] = "join"
          /\ \A u \in Threads \ {Main} : pc'[u] = pc[u]
      BY <1>0, <1>3 DEF CancelAll, Cancel, Goto, TypeOK
    <2>2. MapTrue' /\ TakenInv'
      BY <2>1 DEF MapInv, MapTrue, TakenInv
    <2>3. CanceledNumbers'
      BY <2>1 DEF MapInv, TakenInv, CanceledNumbers, ManagerInv, NumberInv
    <2>4. WantedInv'
      BY <2>1 DEF MapInv, WantedInv, Wanted
    <2>5. RequestRemembered'
      BY <2>1, ThreadsAssumption DEF MapInv, RequestRemembered
    <2>6. QED
      BY <2>2, <2>3, <2>4, <2>5 DEF MapInv
  <1>4. QED
    BY <1>1, <1>2, <1>3 DEF MainStep

LEMMA WorkerMap ==
    ASSUME TypeOK, MapInv, NEW w \in live, WorkerStep(w)
    PROVE  MapInv'
  <1>1. UNCHANGED <<workers, started, pc, desired, held, canceled>>
    BY WorkerTypes DEF Manager, threads, WorkerStep, FirstPass, TickPass, KickPass, BeginPass,
                       PassEnds, StreamConnects, WorkerEnds
  <1>2. live' = live \/ (live' = live \ {w} /\ w \in canceled)
    BY DEF WorkerStep, FirstPass, TickPass, KickPass, BeginPass, PassEnds, StreamConnects,
           WorkerEnds
  <1>3. MapTrue' /\ CanceledNumbers' /\ TakenInv' /\ WantedInv'
    BY <1>1, <1>2 DEF MapInv, MapTrue, CanceledNumbers, TakenInv, WantedInv, Wanted
  <1>4. ASSUME NEW v \in workers, v.remote \in asked'
        PROVE  v.remote \in asked /\ (v \in fresh \union kicked => v \in fresh' \union kicked')
    <2>1. v \notin canceled
      BY DEF MapInv, MapTrue
    <2>2. QED
      BY <1>4, <2>1 DEF WorkerStep, FirstPass, TickPass, KickPass, BeginPass, PassEnds,
                        StreamConnects, RequestSync, WorkerEnds
  <1>5. RequestRemembered'
    BY <1>1, <1>4 DEF MapInv, RequestRemembered
  <1>6. QED
    BY <1>3, <1>5 DEF MapInv

LEMMA MapInvStep == ManagerInv /\ MapInv /\ [Next]_vars => MapInv'
  <1> SUFFICES ASSUME ManagerInv, MapInv, [Next]_vars PROVE MapInv'
    OBVIOUS
  <1>1. TypeOK
    BY DEF ManagerInv
  <1>2. QED
    BY <1>1, RequestMap, ReconcileMap, MainMap, WorkerMap DEF Next

\* MapInv holds of every reachable state.
THEOREM MapInvariant == Spec => []MapInv
  BY InitMap, MapInvStep, ManagerInvariant, PTL DEF Spec, Safe

\* A full pass that was accepted is not forgotten while its worker is in the map.
THEOREM RequestsRemembered == Spec => []RequestRemembered
  <1>1. MapInv => RequestRemembered
    BY DEF MapInv
  <1>2. QED
    BY <1>1, MapInvariant, PTL

\* The thread that leaves "start" is the one that starts workers.
LEMMA LeavesStart ==
    ASSUME TypeOK, [Next]_vars, NEW t \in Threads, pc[t] = "start", pc'[t] # "start"
    PROVE  Start(t)
  <1>1. ASSUME NEW q \in Requests, RequestStep(q) PROVE FALSE
    BY <1>1 DEF RequestStep, Create, Update, UpdateGone, Delete, WriteTable, Trigger, Kick,
                Goto, TypeOK
  <1>2. ASSUME NEW u \in Threads, ReconcileStep(u), ~ Start(t) PROVE FALSE
    <2>1. CASE u = t
      BY <1>2, <2>1 DEF ReconcileStep, Lock, List, ListFails, Stop, Wait
    <2>2. CASE u # t
      BY <1>2, <2>2 DEF ReconcileStep, Lock, List, ListFails, Stop, Wait, Start, Return, Goto,
                        TypeOK
    <2>3. QED
      BY <2>1, <2>2
  <1>3. ASSUME MainStep \/ Signal \/ UNCHANGED vars PROVE FALSE
    BY <1>3 DEF MainStep, Tick, StopAll, CancelAll, RunReturns, Signal, Goto, vars, threads,
                TypeOK
  <1>4. ASSUME NEW w \in live, WorkerStep(w) PROVE FALSE
    BY <1>4, WorkerTypes DEF Manager, threads
  <1>5. QED
    BY <1>1, <1>2, <1>3, <1>4 DEF Next

\* A reconcile that gets through leaves exactly the listed workers running.
THEOREM ReconcileIsExact == Spec => ReconcileExact
  <1> DEFINE Exact(t) == {Target(w) : w \in live'} = desired[t] /\ AtMostOne(live')
  <1>1. ASSUME ManagerInv, ManagerInv', MapInv, [Next]_vars, NEW t \in Threads,
               pc[t] = "start", pc'[t] # "start", ~ RunStops
        PROVE  Exact(t)
    <2> DEFINE new == {NewWorker(d) : d \in Missing(t)}
    <2>1. TypeOK /\ Start(t)
      BY <1>1, LeavesStart DEF ManagerInv
    <2>2. live' = live \union new /\ pc' = [pc EXCEPT ![t] = IF t = Main THEN "loop" ELSE "idle"]
      BY <2>1 DEF Start, Return, Goto
    <2>3. live = workers
      BY <1>1, OthersOutside DEF Holding, ManagerInv, AccountedInv, MapInv, MapTrue
    <2>4. ASSUME NEW w \in workers PROVE Target(w) \in desired[t]
      <3>1. PICK d \in desired[t] : d.remote = w.remote /\ d.config = w.config
        BY <1>1 DEF MapInv, WantedInv, Wanted
      <3>2. d \in Targets
        BY <2>1 DEF TypeOK
      <3>3. Target(w) = d
        BY <3>1, <3>2 DEF Target, Targets
      <3>4. QED
        BY <3>3
    <2>5. ASSUME NEW d \in Missing(t) PROVE Target(NewWorker(d)) = d /\ d \in desired[t]
      <3>1. d \in Targets /\ d \in desired[t]
        BY <2>1 DEF Missing, TypeOK
      <3>2. QED
        BY <3>1 DEF Target, NewWorker, Targets
    <2>6. ASSUME NEW d \in desired[t] \ Missing(t)
          PROVE  \E w \in workers : Target(w) = d
      <3>1. PICK w \in workers : w.remote = d.remote
        BY <2>6 DEF Missing
      <3>2. Target(w) \in desired[t] /\ Target(w).remote = d.remote
        BY <2>4, <3>1 DEF Target
      <3>3. Target(w) = d
        BY <1>1, <3>2 DEF ManagerInv, DesiredInv
      <3>4. QED
        BY <3>3
    <2>7. {Target(w) : w \in live'} = desired[t]
      <3>1. \A w \in live' : Target(w) \in desired[t]
        BY <2>2, <2>3, <2>4, <2>5
      <3>2. \A d \in desired[t] : \E w \in live' : Target(w) = d
        BY <2>2, <2>3, <2>5, <2>6
      <3>3. QED
        BY <3>1, <3>2
    <2>8. ~ RunStops'
      BY <1>1, <2>1, <2>2 DEF RunStops, TypeOK
    <2>9. AtMostOne(live')
      BY <1>1, <2>8 DEF ManagerInv, OneWorkerPerRemote, AtMostOne
    <2>10. QED
      BY <2>7, <2>9
  <1>2. ManagerInv /\ ManagerInv' /\ MapInv /\ [Next]_vars =>
           [\A t \in Threads : (pc[t] = "start" /\ pc'[t] # "start" /\ ~ RunStops) => Exact(t)]_vars
    BY <1>1
  <1>3. QED
    BY <1>2, ManagerInvariant, MapInvariant, PTL DEF Spec, Safe, ReconcileExact
=============================================================================
