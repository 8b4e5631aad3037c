---------------------------- MODULE SyncManager ----------------------------
(***************************************************************************)
(* The life cycle of the sync workers                                      *)
(* (src/internal/remotesync/manager.go, and the loop of worker.go).        *)
(*                                                                         *)
(* Several threads reconcile the running workers with the configured       *)
(* remotes: the one of Manager.Run, every reconcileInterval, and each      *)
(* request that created, updated or deleted a remote.  Two locks guard     *)
(* this.  reconcileMu is held for a whole reconcile; mu only around each   *)
(* access to the workers map, so a step below that reads or writes         *)
(* `workers` is atomic under mu.  stopAll takes mu alone.                  *)
(***************************************************************************)
EXTENDS Naturals, FiniteSets

CONSTANTS
    Remotes,     \* UUIDs of sync remotes; one is never used again
    Configs,     \* what a worker is restarted for: base URL and poll interval
    Requests,    \* threads that serve HTTP requests
    Main,        \* the thread of Manager.Run
    NoRow,       \* the remote has no row in the table
    Nobody,      \* reconcileMu is free
    MaxWrites    \* bound: changes of the table

ASSUME ThreadsAssumption == Main \notin Requests /\ Nobody \notin Requests \union {Main}
ASSUME NoRowAssumption == NoRow \notin [enabled : BOOLEAN, config : Configs]
ASSUME MaxWritesAssumption == MaxWrites \in Nat

VARIABLES
    table,       \* sync_remotes
    writes,      \* bound: changes of the table so far
    used,        \* ghost: remotes that ever had a row
    workers,     \* Manager.workers: at most one per remote
    started,     \* ghost: how many workers each remote has had
    live,        \* workers whose goroutine has not ended
    canceled,    \* workers whose context is canceled
    fresh,       \* live workers before their first full pass
    busy,        \* live workers in a full pass
    kicked,      \* workers with a request in their trigger channel
    lock,        \* holder of reconcileMu
    pc,          \* where each thread is
    desired,     \* the enabled remotes a thread has listed
    held,        \* workers a thread took from the map, to wait for or to kick
    asked,       \* ghost: remotes with a full pass asked for and not begun
    stopping     \* the process was told to stop: Run's context is done

work == <<live, canceled, fresh, busy, kicked, asked>>
threads == <<lock, pc, desired, held>>
vars == <<table, writes, used, workers, started, work, threads, stopping>>
-----------------------------------------------------------------------------
Threads == Requests \union {Main}
Rows == [enabled : BOOLEAN, config : Configs]
Targets == [remote : Remotes, config : Configs]
Workers == [remote : Remotes, config : Configs, no : Nat]

Init ==
    /\ table \in [Remotes -> Rows \union {NoRow}]
    /\ writes = 0
    /\ used = {r \in Remotes : table[r] # NoRow}
    /\ workers = {} /\ live = {} /\ canceled = {}
    /\ fresh = {} /\ busy = {} /\ kicked = {} /\ asked = {}
    /\ started = [r \in Remotes |-> 0]
    /\ lock = Nobody
    /\ pc = [t \in Threads |-> IF t = Main THEN "lock" ELSE "idle"]
    /\ desired = [t \in Threads |-> {}]
    /\ held = [t \in Threads |-> {}]
    /\ stopping = FALSE

Goto(t, l) == pc' = [pc EXCEPT ![t] = l]

\* Where a thread goes after its reconcile.
Return(t) == Goto(t, IF t = Main THEN "loop" ELSE "idle")
-----------------------------------------------------------------------------
(***************************************************************************)
(* Requests that change a remote, up to the call of reconcile.             *)
(***************************************************************************)
WriteTable(q, r, row) ==
    /\ pc[q] = "idle"
    /\ writes < MaxWrites
    /\ writes' = writes + 1
    /\ table' = [table EXCEPT ![r] = row]
    /\ Goto(q, "lock")
    /\ UNCHANGED <<workers, started, work, lock, desired, held, stopping>>

Create(q, r, row) ==
    /\ r \notin used
    /\ used' = used \union {r}
    /\ WriteTable(q, r, row)

Update(q, r, row) ==
    /\ table[r] # NoRow
    /\ WriteTable(q, r, row)
    /\ UNCHANGED used

\* Another request deleted the row between Get and Updates, which then changes
\* nothing; that goes unnoticed.
UpdateGone(q, r) ==
    /\ pc[q] = "idle"
    /\ r \in used
    /\ table[r] = NoRow
    /\ Goto(q, "lock")
    /\ UNCHANGED <<table, writes, used, workers, started, work, lock, desired, held, stopping>>

Delete(q, r) ==
    /\ table[r] # NoRow
    /\ WriteTable(q, r, NoRow)
    /\ UNCHANGED used
-----------------------------------------------------------------------------
(***************************************************************************)
(* reconcile                                                               *)
(***************************************************************************)
Lock(t) ==
    /\ pc[t] = "lock"
    /\ lock = Nobody
    /\ lock' = t
    /\ Goto(t, "list")
    /\ UNCHANGED <<table, writes, used, workers, started, work, desired, held, stopping>>

List(t) ==
    /\ pc[t] = "list"
    /\ desired' = [desired EXCEPT ![t] =
                     {d \in Targets : /\ table[d.remote] # NoRow
                                      /\ table[d.remote].enabled
                                      /\ table[d.remote].config = d.config}]
    /\ Goto(t, "stop")
    /\ UNCHANGED <<table, writes, used, workers, started, work, lock, held, stopping>>

\* The database fails, or the context of the request or of Run is done.
ListFails(t) ==
    /\ pc[t] = "list"
    /\ lock' = Nobody
    /\ Return(t)
    /\ UNCHANGED <<table, writes, used, workers, started, work, desired, held, stopping>>

\* Mutant: a worker is kept for its remote's id alone.
WantedById(w, targets) == \E d \in targets : d.remote = w.remote

Wanted(w, targets) == \E d \in targets : d.remote = w.remote /\ d.config = w.config

\* Mutant: workers in a full pass are left to finish it.
CancelIdle(ws) == canceled' = canceled \union (ws \ busy)

Cancel(ws) == canceled' = canceled \union ws

Stop(t) ==
    /\ pc[t] = "stop"
    /\ LET stopped == {w \in workers : ~ Wanted(w, desired[t])}
       IN /\ workers' = workers \ stopped
          /\ held' = [held EXCEPT ![t] = stopped]
          /\ Cancel(stopped)
    /\ Goto(t, "wait")
    /\ UNCHANGED <<table, writes, used, started, live, fresh, busy, kicked, asked,
                   lock, desired, stopping>>

\* Mutant: nobody waits for the workers that were stopped.
GoneAlways(t) == t \in Threads

Gone(t) == held[t] \intersect live = {}

Wait(t) ==
    /\ pc[t] = "wait"
    /\ Gone(t)
    /\ held' = [held EXCEPT ![t] = {}]
    /\ Goto(t, "start")
    /\ UNCHANGED <<table, writes, used, workers, started, work, lock, desired, stopping>>

\* Mutant: a worker is started whether or not there is one.
MissingAll(t) == desired[t]

Missing(t) == {d \in desired[t] : ~ \E w \in workers : w.remote = d.remote}

NewWorker(d) == [remote |-> d.remote, config |-> d.config, no |-> started[d.remote] + 1]

Start(t) ==
    /\ pc[t] = "start"
    /\ LET new == {NewWorker(d) : d \in Missing(t)}
       IN /\ workers' = workers \union new
          /\ live' = live \union new
          /\ fresh' = fresh \union new
          /\ started' = [r \in Remotes |-> IF \E w \in new : w.remote = r
                                           THEN started[r] + 1 ELSE started[r]]
    /\ lock' = Nobody
    /\ desired' = [desired EXCEPT ![t] = {}]
    /\ Return(t)
    /\ UNCHANGED <<table, writes, used, canceled, busy, kicked, held, asked, stopping>>
-----------------------------------------------------------------------------
(***************************************************************************)
(* Manager.Run between two reconciles, and its end.                        *)
(***************************************************************************)
Tick ==
    /\ pc[Main] = "loop"
    /\ Goto(Main, "lock")
    /\ UNCHANGED <<table, writes, used, workers, started, work, lock, desired, held, stopping>>

Signal ==
    /\ ~ stopping
    /\ stopping' = TRUE
    /\ UNCHANGED <<table, writes, used, workers, started, work, threads>>

\* stopAll: swap the map, cancel what was in it, wait for that.
StopAll ==
    /\ pc[Main] = "loop"
    /\ stopping
    /\ held' = [held EXCEPT ![Main] = workers]
    /\ workers' = {}
    /\ Goto(Main, "cancel")
    /\ UNCHANGED <<table, writes, used, started, work, lock, desired, stopping>>

CancelAll ==
    /\ pc[Main] = "cancel"
    /\ Cancel(held[Main])
    /\ Goto(Main, "join")
    /\ UNCHANGED <<table, writes, used, workers, started, live, fresh, busy, kicked, asked,
                   lock, desired, held, stopping>>

RunReturns ==
    /\ pc[Main] = "join"
    /\ Gone(Main)
    /\ Goto(Main, "done")
    /\ UNCHANGED <<table, writes, used, workers, started, work, lock, desired, held, stopping>>
-----------------------------------------------------------------------------
(***************************************************************************)
(* Manager.Trigger: the map is read under mu, the worker found is asked    *)
(* for a full pass after that.  A remote without a worker is an error.     *)
(***************************************************************************)
Trigger(q, w) ==
    /\ pc[q] = "idle"
    /\ w \in workers
    /\ held' = [held EXCEPT ![q] = {w}]
    /\ asked' = asked \union {w.remote}
    /\ Goto(q, "kick")
    /\ UNCHANGED <<table, writes, used, workers, started, live, canceled, fresh, busy, kicked,
                   lock, desired, stopping>>

\* Mutant: a worker in a pass takes no request.
RequestIdle(ws) == kicked' = kicked \union (ws \ busy)

\* requestSync: the channel holds one request; more are dropped.
RequestSync(ws) == kicked' = kicked \union ws

Kick(q) ==
    /\ pc[q] = "kick"
    /\ RequestSync(held[q])
    /\ held' = [held EXCEPT ![q] = {}]
    /\ Goto(q, "idle")
    /\ UNCHANGED <<table, writes, used, workers, started, live, canceled, fresh, busy, asked,
                   lock, desired, stopping>>
-----------------------------------------------------------------------------
(***************************************************************************)
(* The workers: a full pass on start, on a tick and on request.  A pass    *)
(* with a canceled context fails at once and counts as none.               *)
(***************************************************************************)
Manager == <<table, writes, used, workers, started, threads, stopping>>

BeginPass(w) ==
    /\ w \in live \ (busy \union canceled)
    /\ busy' = busy \union {w}
    /\ asked' = asked \ {w.remote}
    /\ UNCHANGED <<live, canceled>>
    /\ UNCHANGED Manager

FirstPass(w) ==
    /\ w \in fresh
    /\ fresh' = fresh \ {w}
    /\ BeginPass(w)
    /\ UNCHANGED kicked

TickPass(w) ==
    /\ w \notin fresh
    /\ BeginPass(w)
    /\ UNCHANGED <<fresh, kicked>>

KickPass(w) ==
    /\ w \in kicked \ fresh
    /\ kicked' = kicked \ {w}
    /\ BeginPass(w)
    /\ UNCHANGED fresh

PassEnds(w) ==
    /\ w \in busy
    /\ busy' = busy \ {w}
    /\ UNCHANGED <<live, canceled, fresh, kicked, asked>>
    /\ UNCHANGED Manager

\* Each time its event stream connects the worker asks for a pass itself.
StreamConnects(w) ==
    /\ w \in live \ canceled
    /\ RequestSync({w})
    /\ UNCHANGED <<live, canceled, fresh, busy, asked>>
    /\ UNCHANGED Manager

WorkerEnds(w) ==
    /\ w \in live \intersect canceled
    /\ w \notin busy
    /\ live' = live \ {w}
    /\ fresh' = fresh \ {w}
    /\ UNCHANGED <<canceled, busy, kicked, asked>>
    /\ UNCHANGED Manager
-----------------------------------------------------------------------------
RequestStep(q) ==
    \/ \E r \in Remotes, row \in Rows : Create(q, r, row) \/ Update(q, r, row)
    \/ \E r \in Remotes : UpdateGone(q, r) \/ Delete(q, r)
    \/ \E w \in workers : Trigger(q, w)
    \/ Kick(q)

ReconcileStep(t) == Lock(t) \/ List(t) \/ ListFails(t) \/ Stop(t) \/ Wait(t) \/ Start(t)

MainStep == Tick \/ StopAll \/ CancelAll \/ RunReturns

WorkerStep(w) == \/ FirstPass(w) \/ TickPass(w) \/ KickPass(w) \/ PassEnds(w)
                 \/ StreamConnects(w) \/ WorkerEnds(w)

Next ==
    \/ \E q \in Requests : RequestStep(q)
    \/ \E t \in Threads : ReconcileStep(t)
    \/ MainStep
    \/ \E w \in live : WorkerStep(w)
    \/ Signal

Safe == Init /\ [][Next]_vars

(***************************************************************************)
(* Threads go on.  Whoever waits for reconcileMu gets it in the end, and   *)
(* Run's list succeeds when tried again and again, for the database is not *)
(* down forever: strong fairness.  At a select with the end of the context *)
(* and a tick both ready Go picks at random: strong fairness of StopAll.   *)
(* A pass ends (its client has a timeout), a worker takes a request from   *)
(* its channel, and a canceled one ends.  Ticks of a worker are up to a    *)
(* day apart: nothing is assumed of them.  A remote has no more workers    *)
(* than AllWorkers: one at first, one per write and one after stopAll.     *)
(***************************************************************************)
AllWorkers == [remote : Remotes, config : Configs, no : 1..(MaxWrites + 2)]

Fairness ==
    /\ \A t \in Threads : /\ SF_vars(Lock(t))
                          /\ WF_vars(List(t) \/ ListFails(t))
                          /\ WF_vars(Stop(t) \/ Wait(t) \/ Start(t))
    /\ SF_vars(List(Main))
    /\ WF_vars(Tick)
    /\ SF_vars(StopAll)
    /\ WF_vars(CancelAll \/ RunReturns)
    /\ \A q \in Requests : WF_vars(Kick(q))
    /\ \A w \in AllWorkers :
          /\ WF_vars(w \in live /\ (FirstPass(w) \/ KickPass(w)))
          /\ WF_vars(w \in live /\ (PassEnds(w) \/ WorkerEnds(w)))

Spec == Safe /\ Fairness
-----------------------------------------------------------------------------
AtMostOne(ws) == \A v, w \in ws : v.remote = w.remote => v = w

TypeOK ==
    /\ table \in [Remotes -> Rows \union {NoRow}]
    /\ writes \in Nat
    /\ used \subseteq Remotes
    /\ workers \subseteq Workers /\ AtMostOne(workers)
    /\ started \in [Remotes -> Nat]
    /\ live \subseteq Workers /\ canceled \subseteq Workers /\ kicked \subseteq Workers
    /\ fresh \subseteq live /\ busy \subseteq live /\ fresh \intersect busy = {}
    /\ lock \in Threads \union {Nobody}
    /\ pc \in [Threads -> {"idle", "lock", "list", "stop", "wait", "start", "kick",
                           "loop", "cancel", "join", "done"}]
    /\ desired \in [Threads -> SUBSET Targets]
    /\ held \in [Threads -> SUBSET Workers]
    /\ asked \subseteq Remotes
    /\ stopping \in BOOLEAN

RunStops == pc[Main] \in {"cancel", "join", "done"}

(***************************************************************************)
(* "A restarted remote's old worker must be gone before the new one        *)
(* starts, or both could write its units at once" (manager.go:150).  Holds *)
(* until Run begins to stop the workers: stopAll empties the map, so a     *)
(* reconcile meanwhile starts a remote's worker beside the old one.        *)
(***************************************************************************)
OneWorkerPerRemote == RunStops \/ AtMostOne(live)

(***************************************************************************)
(* No worker gets out of hand, at a shutdown either: one that is not told  *)
(* to stop is in the map, where the next reconcile finds it, or stopAll is *)
(* about to cancel it.                                                     *)
(***************************************************************************)
WorkersInHand ==
    \A w \in live \ canceled : w \in workers \/ (pc[Main] = "cancel" /\ w \in held[Main])

(***************************************************************************)
(* A reconcile that gets through leaves exactly the workers it listed      *)
(* running, each with its listed settings, one per remote and the old ones *)
(* gone, whatever requests, triggers, passes and failed lists overlap it   *)
(* (reconcile, manager.go:117-165).  The shutdown may overtake it.         *)
(***************************************************************************)
Target(w) == [remote |-> w.remote, config |-> w.config]

ReconcileExact ==
    [][\A t \in Threads :
          (pc[t] = "start" /\ pc'[t] # "start" /\ ~ RunStops) =>
             {Target(w) : w \in live'} = desired[t] /\ AtMostOne(live')]_vars

(***************************************************************************)
(* A full pass that Trigger accepted is not forgotten while its worker is  *)
(* in the map: the worker's first pass is to come, its channel holds the   *)
(* request, or a request is about to put it there ("Trigger starts a full  *)
(* sync of the remote now", manager.go:199), though it may find the worker *)
(* in a pass, its channel full, or a worker that replaces another.         *)
(***************************************************************************)
RequestRemembered ==
    \A w \in workers :
        w.remote \in asked =>
            \/ w \in fresh \union kicked
            \/ \E q \in Requests : pc[q] = "kick" /\ w \in held[q]

(***************************************************************************)
(* Violated.  Run "then stops every worker and waits for them"             *)
(* (manager.go:99): but a request's reconcile that listed before stopAll,  *)
(* or comes after it, starts workers again.                                *)
(***************************************************************************)
RunStopsEveryWorker == pc[Main] = "done" => live = {}

(***************************************************************************)
(* Once the table is quiet every enabled remote has a worker with its      *)
(* current settings and no other one runs, though any list may fail and    *)
(* requests race with the reconcile of Run.                                *)
(***************************************************************************)
FollowsTable ==
    \A r \in Remotes :
        LET mine == {w \in live : w.remote = r}
        IN IF table[r] # NoRow /\ table[r].enabled
           THEN \E w \in (mine \intersect workers) \ canceled :
                   mine = {w} /\ w.config = table[r].config
           ELSE mine = {}

WorkersFollowTable == <>[](FollowsTable \/ stopping)

\* The shutdown does not hang: Run returns, whatever reconciles overlap it.
RunReturnsInTheEnd == stopping ~> pc[Main] = "done"

(***************************************************************************)
(* A full pass that Trigger has accepted begins, without waiting for the   *)
(* poll interval: by the worker asked, or by the one that replaces it.     *)
(* Only a disabled or deleted remote and the shutdown excuse it.           *)
(***************************************************************************)
TriggerHonoured ==
    \A r \in Remotes :
        r \in asked ~> \/ r \notin asked
                       \/ table[r] = NoRow
                       \/ table[r] # NoRow /\ ~ table[r].enabled
                       \/ stopping
=============================================================================
