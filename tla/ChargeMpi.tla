------------------------------ MODULE ChargeMpi ------------------------------
(***************************************************************************)
(* Charge::rho_mpi: the density of the pools is summed.  Every pool holds  *)
(* the whole grid, its processes hold the planes that distribute_r gives   *)
(* them, and a process ends with the sum over the pools on its own planes. *)
(*                                                                         *)
(* The value of a grid point is [cell, terms]: the point (column, plane)   *)
(* it belongs to, and what has been added up there.  A term is one part in *)
(* `parts' of the density of the pool `from', and `by' the processes whose *)
(* values were added, so that no term is lost to an equal one.             *)
(*                                                                         *)
(* The specification's own names begin with CM: it is used together with   *)
(* that of the SCF loop, whose collectives sum this density.               *)
(***************************************************************************)
EXTENDS ProcessGroups, Sequences

CONSTANTS MaxProc,    \* processes: bound of the layouts
          MaxNz,      \* z planes: bound of the grids
          ncxy        \* points of a plane

ASSUME BoundAssumption == /\ MaxProc \in Nat \ {0}
                          /\ MaxNz \in Nat \ {0}
                          /\ ncxy \in Nat \ {0}

VARIABLES layout,     \* the processes, their groups and pools, the solver
          nz,         \* planes of the grid
          stage,      \* "psi": each pool has its own density; then the steps
          array_rho,  \* the density on the planes of each process
          array_tot   \* the whole grid on each process (uneven pools only)

cmVars == <<layout, nz, stage, array_rho, array_tot>>

----------------------------------------------------------------------------
\* Mutant of numz: every process gets the size of the largest share.
numzRoundedUp(r) == LET n == NPROC_IN_POOL(layout, r) IN (nz + n - 1) \div n

numz(r) == GroupSize(nz, NPROC_IN_POOL(layout, r), RANK_IN_POOL(layout, r))

startz(r) == GroupStart(nz, NPROC_IN_POOL(layout, r), RANK_IN_POOL(layout, r))

nrxx(r) == numz(r) * ncxy

\* The processes of the pool of r in the order of Allgatherv, with the
\* displacement dis[ip] at which the data of the ip-th one is put.
PoolMember(r, ip) == Member(POOL_WORLD(layout, r), ip)

dis(r, ip) == GroupStart(nz, NPROC_IN_POOL(layout, r), ip) * ncxy

rec(r, ip) == GroupSize(nz, NPROC_IN_POOL(layout, r), ip) * ncxy

Contributions == (0 .. layout.NSTOGROUP - 1) \X (0 .. layout.KPAR - 1)

\* The sum of grid points; a sum over different cells is none of them.
Total(vals) ==
    [cell |-> IF Cardinality({vals[x].cell : x \in DOMAIN vals}) = 1
              THEN (CHOOSE v \in {vals[x].cell : x \in DOMAIN vals} : TRUE)
              ELSE <<>>,
     terms |-> UNION {{[t EXCEPT !.by = Append(@, x)] : t \in vals[x].terms} :
                        x \in DOMAIN vals}]

----------------------------------------------------------------------------
\* After psiToRho each process holds its pool's density on its planes, the z
\* index running fastest.
OwnDensity(r) ==
    [i \in 0 .. nrxx(r) - 1 |->
        [cell |-> <<i \div numz(r), startz(r) + (i % numz(r))>>,
         terms |-> {[from  |-> <<MY_STOGROUP(layout, r), MY_POOL(layout, r)>>,
                     parts |-> 1, by |-> <<>>]}]]

\* bndpar is 1 unless esolver_type is sdft.
CMInit ==
    /\ layout \in [NPROC : 1 .. MaxProc, NSTOGROUP : 1 .. MaxProc,
                   KPAR : 1 .. MaxProc, ESOLVER_TYPE : {"ksdft", "sdft"}]
    /\ [NPROC |-> layout.NPROC, NSTOGROUP |-> layout.NSTOGROUP,
        KPAR |-> layout.KPAR] \in Layouts(MaxProc)
    /\ layout.ESOLVER_TYPE = "ksdft" => layout.NSTOGROUP = 1
    /\ nz \in 1 .. MaxNz
    /\ stage = "psi"
    /\ array_rho = [r \in World(layout) |-> OwnDensity(r)]
    /\ array_tot = <<>>

\* KPAR <= 1: there is nothing to sum.
OnePool == /\ stage = "psi" /\ layout.KPAR <= 1
           /\ stage' = "done"
           /\ UNCHANGED <<layout, nz, array_rho, array_tot>>

\* use_intel_pool: one Allreduce over the processes with the same planes.
ReduceInterPool ==
    /\ stage = "psi" /\ layout.KPAR > 1 /\ EvenPools(layout)
    /\ array_rho' = [r \in World(layout) |->
                 [i \in 0 .. nrxx(r) - 1 |->
                    Total([s \in INTER_POOL(layout, r) |-> array_rho[s][i]])]]
    /\ stage' = "done"
    /\ UNCHANGED <<layout, nz, array_tot>>

\* The share of a process in the sum over all processes of whole grids.
Share(r, v) == [v EXCEPT !.terms = {[t EXCEPT !.parts = @ * NPROC_IN_POOL(layout, r)] :
                                      t \in v.terms}]

\* Allgatherv of array_rho / NPROC_IN_POOL over the pool.
GatherPool ==
    /\ stage = "psi" /\ layout.KPAR > 1 /\ ~EvenPools(layout)
    /\ array_tot' =
         [r \in World(layout) |->
            [j \in 0 .. nz * ncxy - 1 |->
               LET ip == CHOOSE k \in 0 .. NPROC_IN_POOL(layout, r) - 1 :
                            j \in dis(r, k) .. dis(r, k) + rec(r, k) - 1
                   s  == PoolMember(r, ip)
               IN  Share(s, array_rho[s][j - dis(r, ip)])]]
    /\ stage' = "gathered"
    /\ UNCHANGED <<layout, nz, array_rho>>

\* array_tot_aux: the gathered data of process ip, whose planes are
\* consecutive within a column, put where the column has nz planes.
ArrayTotAux(r) ==
    [j \in 0 .. nz * ncxy - 1 |->
        LET ir == j \div nz
            ip == MyGroup(nz, NPROC_IN_POOL(layout, r), j % nz)
            iz == RankInGroup(nz, NPROC_IN_POOL(layout, r), j % nz)
        IN  array_tot[r][GroupSize(nz, NPROC_IN_POOL(layout, r), ip) * ir
                         + dis(r, ip) + iz]]

\* Mutant of GridWorld: the stochastic groups are summed together.
GridWorldOfAll(r) == World(layout)

\* The processes over which the whole grids are summed.
GridWorld(r) == IF layout.ESOLVER_TYPE = "sdft" THEN STO_WORLD(layout, r)
                                                ELSE World(layout)

ReduceGrids ==
    /\ stage = "gathered"
    /\ LET aux == [r \in World(layout) |-> ArrayTotAux(r)] IN
       array_tot' = [r \in World(layout) |->
                       [j \in 0 .. nz * ncxy - 1 |->
                          Total([s \in GridWorld(r) |-> aux[s][j]])]]
    /\ stage' = "summed"
    /\ UNCHANGED <<layout, nz, array_rho>>

\* Each process takes its own planes from the whole grid.
TakeOwnPlanes ==
    /\ stage = "summed"
    /\ array_rho' = [r \in World(layout) |->
                 [i \in 0 .. nrxx(r) - 1 |->
                    array_tot[r][nz * (i \div numz(r)) + startz(r) + (i % numz(r))]]]
    /\ stage' = "done"
    /\ UNCHANGED <<layout, nz, array_tot>>

CMNext == OnePool \/ ReduceInterPool \/ GatherPool \/ ReduceGrids \/ TakeOwnPlanes

CMSpec == CMInit /\ [][CMNext]_cmVars

----------------------------------------------------------------------------
Terms == [from : Contributions, parts : 1 .. layout.NPROC, by : Seq(World(layout))]

Points == [cell : ((0 .. ncxy - 1) \X (0 .. nz - 1)) \cup {<<>>}, terms : SUBSET Terms]

CMTypeOK ==
    /\ stage \in {"psi", "gathered", "summed", "done"}
    /\ \A r \in World(layout) : array_rho[r] \in [0 .. nrxx(r) - 1 -> Points]
    /\ array_tot # <<>> => array_tot \in [World(layout) -> [0 .. nz * ncxy - 1 -> Points]]

\* The terms of a pool's density that a value contains
TermsOf(v, c) == {t \in v.terms : t.from = c}

\* When rho_mpi is over, every process holds on each of its own points the
\* density of every pool of its own stochastic group exactly once, in as many
\* terms as they are parts of it, and nothing of another group, whether the
\* pools are even or not.
RhoSummed ==
    stage = "done" =>
        \A r \in World(layout) : \A i \in 0 .. nrxx(r) - 1 :
            /\ array_rho[r][i].cell = <<i \div numz(r), startz(r) + (i % numz(r))>>
            /\ \A c \in Contributions :
                   LET own == TermsOf(array_rho[r][i], c)
                   IN  IF c[1] = MY_STOGROUP(layout, r)
                       THEN own # {} /\ \A t \in own : t.parts = Cardinality(own)
                       ELSE own = {}

=============================================================================
