----------------------------- MODULE CopyPromise -----------------------------
(***************************************************************************)
(* What a sync remote promises of its units ("mirrors the units of other   *)
(* instances", src/internal/remotesync/manager.go:1): a unit's copy is a   *)
(* state that the unit had at its instance at some time, whole, and being  *)
(* gone is such a state only once it was gone there.  The copy may lag and *)
(* go back, but it never shows what never was.                             *)
(***************************************************************************)
CONSTANTS UnitIds,
          Absent     \* the state of a unit that is gone

VARIABLES source,    \* each unit's state at its instance
          past,      \* the states it had there; before it is there first, none
          copy       \* its state at the instance that mirrors it

copies == <<source, past, copy>>

Init ==
    /\ past = [id \in UnitIds |-> {source[id]} \ {Absent}]
    /\ copy = [id \in UnitIds |-> Absent]

\* The unit is created, changed or deleted at its instance.
Change(id) ==
    /\ source'[id] # source[id]
    /\ source' = [source EXCEPT ![id] = source'[id]]
    /\ past' = [past EXCEPT ![id] = @ \union {source'[id]}]
    /\ UNCHANGED copy

Mirror(id) ==
    /\ \E state \in past[id] : copy' = [copy EXCEPT ![id] = state]
    /\ UNCHANGED <<source, past>>

Next == \E id \in UnitIds : Change(id) \/ Mirror(id)

Spec == Init /\ [][Next]_copies
=============================================================================
