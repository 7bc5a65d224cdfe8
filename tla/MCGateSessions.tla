--------------------------- MODULE MCGateSessions ---------------------------
(***************************************************************************)
(* Instances of GateSessions for TLC.                                       *)
(***************************************************************************)
EXTENDS GateSessions, TLC

\* Nothing tells two users, two workers or two addresses apart.
Symmetry == Permutations(Users) \cup Permutations(Workers) \cup Permutations(Addresses)

\* Every property excuses a run in which a task has acted on what is not its
\* own: what follows such a step is not explored.
Sound == ~stray
=============================================================================
