---------------------------- MODULE FeedPromise ----------------------------
(***************************************************************************)
(* What the unit event stream promises a client: from the moment it is     *)
(* subscribed it gets every published event, once and in the order of      *)
(* publication, until the stream ends.  It may miss events only by being   *)
(* closed, which is its sign to fetch the list again ("a subscriber whose  *)
(* channel closes on its own has missed events and should resync",         *)
(* events.go:42).  An open stream never just stalls.                       *)
(***************************************************************************)
EXTENDS Naturals, Sequences

CONSTANT Subs

VARIABLES published,   \* number of events published; they are numbered 1, 2, ...
          start,       \* what was published when the subscription began
          got,         \* the events each client has received
          state        \* "new", "open" or "closed"

promise == <<published, start, got, state>>

Init ==
    /\ published = 0
    /\ start = [s \in Subs |-> 0]
    /\ got = [s \in Subs |-> <<>>]
    /\ state = [s \in Subs |-> "new"]

Publish ==
    /\ published' = published + 1
    /\ UNCHANGED <<start, got, state>>

Open(s) ==
    /\ state[s] = "new"
    /\ state' = [state EXCEPT ![s] = "open"]
    /\ start' = [start EXCEPT ![s] = published]
    /\ UNCHANGED <<published, got>>

Deliver(s) ==
    /\ state[s] = "open"
    /\ start[s] + Len(got[s]) < published
    /\ got' = [got EXCEPT ![s] = Append(@, start[s] + Len(@) + 1)]
    /\ UNCHANGED <<published, start, state>>

Close(s) ==
    /\ state[s] = "open"
    /\ state' = [state EXCEPT ![s] = "closed"]
    /\ UNCHANGED <<published, start, got>>

Next == Publish \/ \E s \in Subs : Open(s) \/ Deliver(s) \/ Close(s)

\* The safety half of the promise.
Safe == Init /\ [][Next]_promise

\* A client with an event outstanding gets it or learns that it won't.
Outstanding(s) == start[s] + Len(got[s]) < published

Spec == Safe /\ \A s \in Subs : WF_promise(Outstanding(s) /\ (Deliver(s) \/ Close(s)))
=============================================================================
