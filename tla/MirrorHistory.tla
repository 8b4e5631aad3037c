---------------------------- MODULE MirrorHistory ----------------------------
(***************************************************************************)
(* Mirror with its units' pasts, for the promise that every copy was the   *)
(* original once.  past is a history variable: it follows the tables and   *)
(* nothing reads it.                                                       *)
(***************************************************************************)
EXTENDS Mirror

VARIABLE past    \* the states each unit had at an instance that is followed

histvars == <<vars, past>>

Followed == {There(w) : w \in Edges}

\* A row without its owner, which differs between the instances.
Shown(row) == IF row = Absent THEN Absent ELSE [row EXCEPT !.owner = Local]

HistoryInit ==
    /\ Init
    /\ past = [n \in Followed |-> [id \in UnitIds |-> {Shown(units[n][id])} \ {Absent}]]

Remember ==
    past' = [n \in Followed |-> [id \in UnitIds |->
                past[n][id] \union (IF units'[n][id] = units[n][id] THEN {}
                                    ELSE {Shown(units'[n][id])})]]

HistoryNext == Next /\ Remember

HistorySafe == HistoryInit /\ [][HistoryNext]_histvars

HistorySpec == HistorySafe /\ Fairness
-----------------------------------------------------------------------------
Original(w) == [id \in UnitIds |-> Shown(units[There(w)][id])]

\* A local unit and another remote's are no copies of this one's.
Mirrorings(w) ==
    [id \in UnitIds |-> IF Mirrored(w, id) THEN Shown(units[Here(w)][id]) ELSE Absent]

Copy(w) == INSTANCE CopyPromise WITH
               source <- Original(w), past <- past[There(w)], copy <- Mirrorings(w)

(***************************************************************************)
(* Every mirror keeps CopyPromise, in any topology and through every       *)
(* failed list, restart and late event: what it shows of a unit, the unit  *)
(* once was, and it drops a unit only if its instance had dropped it.      *)
(* This is Copy(w)!Spec for all w, with the quantifier inside.             *)
(***************************************************************************)
KeepsCopy ==
    /\ \A w \in Edges : Copy(w)!Init
    /\ [][\A w \in Edges : [Copy(w)!Next]_(Copy(w)!copies)]_histvars
=============================================================================
