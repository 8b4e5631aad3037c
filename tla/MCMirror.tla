------------------------------ MODULE MCMirror ------------------------------
(***************************************************************************)
(* Small instances of Mirror for TLC.                                      *)
(***************************************************************************)
EXTENDS MirrorHistory

CONSTANTS a, b

McNodes == {a, b}

\* b mirrors a.
McEdges == {<<b, a>>}

\* Each mirrors the other.
McMutualEdges == {<<a, b>>, <<b, a>>}

McHome == [id \in UnitIds |-> a]
=============================================================================
