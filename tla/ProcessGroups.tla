--------------------------- MODULE ProcessGroups ---------------------------
(***************************************************************************)
(* The communicators of a run.  divide_pools divides the processes into    *)
(* NSTOGROUP stochastic groups (an even division, refused otherwise), each *)
(* of these into KPAR pools, and splits MPI_COMM_WORLD accordingly.  All   *)
(* splits use one key, so the order of the ranks is kept.                  *)
(*                                                                         *)
(* A layout L is a record with the fields NPROC, NSTOGROUP and KPAR; a     *)
(* communicator is the set of the world ranks of its members.              *)
(***************************************************************************)
EXTENDS MpiGroups, FiniteSets

\* The layouts that divide_mpi_groups accepts for at most maxproc processes.
Layouts(maxproc) ==
    {L \in [NPROC : 1 .. maxproc, NSTOGROUP : 1 .. maxproc, KPAR : 1 .. maxproc] :
        /\ L.NPROC >= L.NSTOGROUP
        /\ L.NPROC % L.NSTOGROUP = 0
        /\ L.NPROC \div L.NSTOGROUP >= L.KPAR}

World(L) == 0 .. L.NPROC - 1

NPROC_IN_STOGROUP(L) == L.NPROC \div L.NSTOGROUP

MY_STOGROUP(L, r) == MyGroup(L.NPROC, L.NSTOGROUP, r)

RANK_IN_STOGROUP(L, r) == RankInGroup(L.NPROC, L.NSTOGROUP, r)

MY_POOL(L, r) == MyGroup(NPROC_IN_STOGROUP(L), L.KPAR, RANK_IN_STOGROUP(L, r))

RANK_IN_POOL(L, r) == RankInGroup(NPROC_IN_STOGROUP(L), L.KPAR, RANK_IN_STOGROUP(L, r))

NPROC_IN_POOL(L, r) == GroupSize(NPROC_IN_STOGROUP(L), L.KPAR, MY_POOL(L, r))

EvenPools(L) == NPROC_IN_STOGROUP(L) % L.KPAR = 0

----------------------------------------------------------------------------
STO_WORLD(L, r) == {s \in World(L) : MY_STOGROUP(L, s) = MY_STOGROUP(L, r)}

POOL_WORLD(L, r) == {s \in STO_WORLD(L, r) : MY_POOL(L, s) = MY_POOL(L, r)}

\* Split off only when the pools are even.
INTER_POOL(L, r) == {s \in STO_WORLD(L, r) : RANK_IN_POOL(L, s) = RANK_IN_POOL(L, r)}

\* Mutant of ParapwColor: the group's number instead of the rank in the group.
ParapwColorGroup(L, r) == r \div NPROC_IN_STOGROUP(L)

ParapwColor(L, r) == r % NPROC_IN_STOGROUP(L)

PARAPW_WORLD(L, r) == {s \in World(L) : ParapwColor(L, s) = ParapwColor(L, r)}

\* The rank of a member in a communicator, and the member of a given rank.
CommRank(comm, r) == Cardinality({s \in comm : s < r})

Member(comm, rank) == CHOOSE r \in comm : CommRank(comm, r) = rank
=============================================================================
