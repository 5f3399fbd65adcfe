---------------------------- MODULE MCRunRegistry -----------------------------
EXTENDS Lineage, TLC

\* The three stores are filled one at a time, and a little of all together.
MCLoads ==
  {[runs |-> 2, updates |-> 4, artifacts |-> 0, trajectories |-> 0],
   [runs |-> 1, updates |-> 0, artifacts |-> 4, trajectories |-> 0],
   [runs |-> 0, updates |-> 0, artifacts |-> 0, trajectories |-> 5],
   [runs |-> 1, updates |-> 1, artifacts |-> 1, trajectories |-> 2]}

Symmetry == Permutations(Clients)

===============================================================================
