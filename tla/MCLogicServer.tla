--------------------------- MODULE MCLogicServer ---------------------------
(***************************************************************************)
(* Instances of LogicServer for TLC.                                        *)
(***************************************************************************)
EXTENDS LogicServer, TLC

\* Contexts and workers are interchangeable, except that MayDie must be all
\* the contexts or none.  Not used for liveness.
Symmetry == Permutations(Contexts) \cup Permutations(Workers)
=============================================================================
