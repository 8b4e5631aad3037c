---------------------------- MODULE EventBroker ----------------------------
(***************************************************************************)
(* The fan-out of unit events: units.Broker (src/internal/units/events.go) *)
(* and the WebSocket handler that drains one subscription                  *)
(* (src/internal/server/unit_events.go), up to the server's shutdown.      *)
(*                                                                         *)
(* Events are numbered in the order of Publish, which the broker's mutex   *)
(* makes atomic, as it does Subscribe and cancel.  A handler subscribes    *)
(* before it upgrades the connection; then its loop waits for whichever of *)
(* several things comes first, and a write takes time during which the     *)
(* buffer fills.                                                           *)
(***************************************************************************)
EXTENDS Naturals, Sequences

CONSTANTS
    Subs,        \* event streams, each opened at most once
    Cap,         \* subscriberBuffer
    MaxEvents    \* bound: events published

ASSUME CapAssumption == Cap \in Nat \ {0}
ASSUME MaxEventsAssumption == MaxEvents \in Nat

VARIABLES
    published,   \* number of events published so far
    registered,  \* Broker.subs
    buf,         \* what is buffered in each subscriber's channel
    closes,      \* how often each channel was closed; the second time panics
    pc,          \* where each handler is
    hand,        \* the event a handler is writing, 0 if none
    got,         \* what each client has received
    start,       \* ghost: what was published when a handler subscribed
    toldSlow,    \* streams closed as "too slow" (StatusTryAgainLater)
    revoked,     \* streams whose session has ended
    shutdown     \* the channel CloseStreams closes

vars == <<published, registered, buf, closes, pc, hand, got, start, toldSlow, revoked, shutdown>>
-----------------------------------------------------------------------------
Init ==
    /\ published = 0
    /\ registered = {}
    /\ buf = [s \in Subs |-> <<>>]
    /\ closes = [s \in Subs |-> 0]
    /\ pc = [s \in Subs |-> "new"]
    /\ hand = [s \in Subs |-> 0]
    /\ got = [s \in Subs |-> <<>>]
    /\ start = [s \in Subs |-> 0]
    /\ toldSlow = {}
    /\ revoked = {}
    /\ shutdown = FALSE

\* Mutant: the buffer is one longer than what counts as too far behind.
FullLate(s) == Len(buf[s]) > Cap

\* A send that would block.
Full(s) == Len(buf[s]) >= Cap

\* Mutant: a full subscriber misses the event but stays.
DroppedNone == {}

\* Subscribers that Publish drops.
Dropped == {s \in registered : Full(s)}

\* Broker.Publish: every subscriber gets the event or is dropped.
Publish ==
    /\ published < MaxEvents
    /\ published' = published + 1
    /\ buf' = [s \in Subs |-> IF s \in registered /\ ~ Full(s)
                              THEN Append(buf[s], published + 1) ELSE buf[s]]
    /\ registered' = registered \ Dropped
    /\ closes' = [s \in Subs |-> IF s \in Dropped THEN closes[s] + 1 ELSE closes[s]]
    /\ UNCHANGED <<pc, hand, got, start, toldSlow, revoked, shutdown>>

\* Mutant: cancel closes the channel whatever happened to it before.
MustCloseAlways(s) == s \in Subs

\* Broker.remove closes a channel only while it is registered.
MustClose(s) == s \in registered
-----------------------------------------------------------------------------
\* handleUnitEvents: subscribe before the upgrade.
Subscribe(s) ==
    /\ pc[s] = "new"
    /\ registered' = registered \union {s}
    /\ start' = [start EXCEPT ![s] = published]
    /\ pc' = [pc EXCEPT ![s] = "upgrade"]
    /\ UNCHANGED <<published, buf, closes, hand, got, toldSlow, revoked, shutdown>>

\* The handler goes on to its deferred calls.
EndStream(s) ==
    /\ pc' = [pc EXCEPT ![s] = "ending"]
    /\ hand' = [hand EXCEPT ![s] = 0]
    /\ UNCHANGED <<published, registered, buf, closes, got, start, revoked, shutdown>>

Upgrade(s) ==
    /\ pc[s] = "upgrade"
    /\ pc' = [pc EXCEPT ![s] = "select"]
    /\ UNCHANGED <<published, registered, buf, closes, hand, got, start, toldSlow, revoked, shutdown>>

UpgradeFails(s) ==
    /\ pc[s] = "upgrade"
    /\ EndStream(s)
    /\ UNCHANGED toldSlow

\* The loop takes an event, which a closed channel still yields if buffered.
Receive(s) ==
    /\ pc[s] = "select"
    /\ buf[s] # <<>>
    /\ hand' = [hand EXCEPT ![s] = Head(buf[s])]
    /\ buf' = [buf EXCEPT ![s] = Tail(@)]
    /\ pc' = [pc EXCEPT ![s] = "writing"]
    /\ UNCHANGED <<published, registered, closes, got, start, toldSlow, revoked, shutdown>>

Written(s) ==
    /\ pc[s] = "writing"
    /\ got' = [got EXCEPT ![s] = Append(@, hand[s])]
    /\ hand' = [hand EXCEPT ![s] = 0]
    /\ pc' = [pc EXCEPT ![s] = "select"]
    /\ UNCHANGED <<published, registered, buf, closes, start, toldSlow, revoked, shutdown>>

\* The client is gone or takes longer than eventsWriteTimeout.
WriteFails(s) ==
    /\ pc[s] = "writing"
    /\ EndStream(s)
    /\ UNCHANGED toldSlow

\* Mutant: a closed channel goes unnoticed.
ExhaustedNever(s) == s \notin Subs

\* A channel closed and drained: the client fell behind and missed events.
Exhausted(s) == s \notin registered /\ buf[s] = <<>>

SeesClosed(s) ==
    /\ pc[s] = "select"
    /\ Exhausted(s)
    /\ EndStream(s)
    /\ toldSlow' = toldSlow \union {s}

\* The connection ends or does not answer a ping.
ClientGone(s) ==
    /\ pc[s] = "select"
    /\ EndStream(s)
    /\ UNCHANGED toldSlow

\* Mutants: the shutdown, the session are looked at only before the loop.
SeesShutdownFirst(s) ==
    /\ pc[s] = "upgrade"
    /\ shutdown
    /\ EndStream(s)
    /\ UNCHANGED toldSlow
SeesRevokedFirst(s) ==
    /\ pc[s] = "upgrade"
    /\ s \in revoked
    /\ EndStream(s)
    /\ UNCHANGED toldSlow

SeesShutdown(s) ==
    /\ pc[s] = "select"
    /\ shutdown
    /\ EndStream(s)
    /\ UNCHANGED toldSlow

\* The check every eventsSessionCheck finds the session gone.
SeesRevoked(s) ==
    /\ pc[s] = "select"
    /\ s \in revoked
    /\ EndStream(s)
    /\ UNCHANGED toldSlow

\* The deferred unsubscribe, then streams.Done.
Unsubscribe(s) ==
    /\ pc[s] = "ending"
    /\ pc' = [pc EXCEPT ![s] = "ended"]
    /\ registered' = registered \ {s}
    /\ closes' = [closes EXCEPT ![s] = IF MustClose(s) THEN @ + 1 ELSE @]
    /\ buf' = [buf EXCEPT ![s] = <<>>]          \* nobody reads it any more
    /\ UNCHANGED <<published, hand, got, start, toldSlow, revoked, shutdown>>
-----------------------------------------------------------------------------
\* A logout, a revoked token or an expiry.
Revoke(s) ==
    /\ s \notin revoked
    /\ pc[s] # "ended"
    /\ revoked' = revoked \union {s}
    /\ UNCHANGED <<published, registered, buf, closes, pc, hand, got, start, toldSlow, shutdown>>

\* CloseStreams waits until every handler is at "new" or "ended".
CloseStreams ==
    /\ ~ shutdown
    /\ shutdown' = TRUE
    /\ UNCHANGED <<published, registered, buf, closes, pc, hand, got, start, toldSlow, revoked>>

StreamEnds(s) == \/ SeesClosed(s) \/ ClientGone(s) \/ SeesShutdown(s) \/ SeesRevoked(s)
                 \/ UpgradeFails(s) \/ WriteFails(s)

Stream(s) == \/ Subscribe(s) \/ Upgrade(s) \/ Receive(s) \/ Written(s)
             \/ StreamEnds(s) \/ Unsubscribe(s)

Next == \/ Publish
        \/ CloseStreams
        \/ \E s \in Subs : Stream(s) \/ Revoke(s)

(***************************************************************************)
(* A handler that can go on does: an upgrade and a write end (the write    *)
(* within its timeout), and deferred calls run.  At the select Go picks    *)
(* among the ready cases at random, and the session ticker fires again and *)
(* again, so neither the shutdown nor an ended session is passed over      *)
(* forever.  Nothing makes a client leave, an event happen, a session end  *)
(* or the server shut down.                                                *)
(***************************************************************************)
Fairness ==
    \A s \in Subs : /\ WF_vars(Upgrade(s) \/ UpgradeFails(s))
                    /\ WF_vars(Receive(s) \/ SeesClosed(s))
                    /\ WF_vars(Written(s) \/ WriteFails(s))
                    /\ WF_vars(Unsubscribe(s))
                    /\ SF_vars(SeesShutdown(s))
                    /\ SF_vars(SeesRevoked(s))

Safe == Init /\ [][Next]_vars

Spec == Safe /\ Fairness
-----------------------------------------------------------------------------
TypeOK ==
    /\ published \in Nat
    /\ registered \subseteq Subs
    /\ buf \in [Subs -> Seq(Nat)] /\ \A s \in Subs : Len(buf[s]) <= Cap
    /\ closes \in [Subs -> Nat]
    /\ pc \in [Subs -> {"new", "upgrade", "select", "writing", "ending", "ended"}]
    /\ hand \in [Subs -> Nat]
    /\ got \in [Subs -> Seq(Nat)]
    /\ start \in [Subs -> Nat]
    /\ toldSlow \subseteq Subs
    /\ revoked \subseteq Subs
    /\ shutdown \in BOOLEAN

\* How many events are on their way to the client, in its handler or its channel.
InHand(s) == IF pc[s] = "writing" THEN 1 ELSE 0

(***************************************************************************)
(* Events reach a client in order and without a gap: what it has, what its *)
(* handler writes and what its channel holds are consecutive from the      *)
(* first event after the subscription; while subscribed, up to the last    *)
(* one published.                                                          *)
(***************************************************************************)
GapFree ==
    \A s \in Subs :
        /\ \A i \in 1..Len(got[s]) : got[s][i] = start[s] + i
        /\ pc[s] = "writing" => hand[s] = start[s] + Len(got[s]) + 1
        /\ pc[s] \in {"upgrade", "select", "writing"} =>
              \A i \in 1..Len(buf[s]) : buf[s][i] = start[s] + Len(got[s]) + InHand(s) + i
        /\ s \in registered /\ pc[s] # "ending" =>
              start[s] + Len(got[s]) + InHand(s) + Len(buf[s]) = published

\* No channel is closed twice and none is sent to after it was closed: both
\* panic, and cancel may come before or after Publish drops the subscriber.
NoPanic == \A s \in Subs : closes[s] <= 1 /\ (s \in registered => closes[s] = 0)

\* A client told that it is too slow really missed an event: the list fetch
\* that follows is not in vain.
TooSlowMissed ==
    \A s \in toldSlow : start[s] + Len(got[s]) < published

\* CloseStreams does not wait in vain: after a shutdown every stream ends.
ShutdownEndsStreams == \A s \in Subs : shutdown /\ pc[s] # "new" ~> pc[s] = "ended"

\* A logout or an expiry ends the stream that was opened with the session.
RevokedEnds == \A s \in Subs : s \in revoked /\ pc[s] # "new" ~> pc[s] = "ended"

(***************************************************************************)
(* Together the broker and the handlers keep FeedPromise.  A subscription  *)
(* is open from Subscribe until the handler has left its loop.             *)
(***************************************************************************)
promisedState == [s \in Subs |-> CASE pc[s] = "new" -> "new"
                                   [] pc[s] \in {"upgrade", "select", "writing"} -> "open"
                                   [] OTHER -> "closed"]

Promise == INSTANCE FeedPromise WITH state <- promisedState

KeepsPromise == Promise!Spec
=============================================================================
