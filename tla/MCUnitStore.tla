---------------------------- MODULE MCUnitStore ----------------------------
(***************************************************************************)
(* Small instances of UnitStore for TLC.  Places, names, units, remotes    *)
(* and threads are interchangeable: no action or property names one.       *)
(***************************************************************************)
EXTENDS UnitStore, TLC

Symmetry == Permutations(UnitIds) \union Permutations(Names) \union
            Permutations(Calls) \union Permutations(Places) \union
            Permutations(Remotes)
=============================================================================
