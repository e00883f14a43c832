----------------------------- MODULE MpiGroups -----------------------------
(***************************************************************************)
(* How procs items are divided among num_groups groups: the first          *)
(* procs % num_groups groups get one item more than the others.            *)
(* Parallel_Global::divide_mpi_groups divides processes so, PW_Basis::     *)
(* distribute_r the z planes of the grid.                                  *)
(***************************************************************************)
EXTENDS Integers

Least(a, b) == IF a < b THEN a ELSE b

\* nproc_group_[i]; numz[i].
GroupSize(procs, num_groups, i) ==
    procs \div num_groups + (IF i < procs % num_groups THEN 1 ELSE 0)

\* The sum of the sizes of the groups before group i, which the loop
\* accumulates in np_now; startz[i].
GroupStart(procs, num_groups, i) ==
    i * (procs \div num_groups) + Least(i, procs % num_groups)

\* The group at which the loop over the groups stops for this rank.
MyGroup(procs, num_groups, rank) ==
    CHOOSE i \in 0 .. num_groups - 1 :
        /\ GroupStart(procs, num_groups, i) <= rank
        /\ rank < GroupStart(procs, num_groups, i) + GroupSize(procs, num_groups, i)

RankInGroup(procs, num_groups, rank) ==
    rank - GroupStart(procs, num_groups, MyGroup(procs, num_groups, rank))
=============================================================================
