------------------------------- MODULE ScfMpi -------------------------------
(***************************************************************************)
(* The SCF loop of a plane-wave run as its MPI processes execute it: each  *)
(* process goes through its own sequence of collective operations, which   *)
(* depends on its group and its pool, and decides for itself, or is told,  *)
(* that the density has converged and the loop is over.                    *)
(*                                                                         *)
(* An Allreduce, Allgatherv or Barrier returns when every member of the    *)
(* communicator has called it; a Bcast returns at the root at once and     *)
(* elsewhere when the root has called it.  Operations that only the        *)
(* processes of one pool take part in, all of them alike, are left out,    *)
(* except where the pool's processes differ from others in calling them.   *)
(***************************************************************************)
EXTENDS ProcessGroups, Sequences

CONSTANTS Cases,      \* layouts and settings of the runs
          NKSTOT,     \* k points
          PoolsAgree  \* TRUE: rounding never makes two pools decide differently

Settings == [NPROC : Nat, NSTOGROUP : Nat, KPAR : Nat,
             ESOLVER_TYPE : {"ksdft", "sdft"},
             SCF_NMAX : 1 .. 5,        \* maxniter
             NSPIN : {1, 2, 4},
             meta_gga : BOOLEAN,       \* get_xc_func_type() is 3 or 5
             symm_flag : BOOLEAN,
             scf_ene_thr : BOOLEAN]    \* the energy criterion is in use

ASSUME CasesAssumption ==
    \A c \in Cases :
        /\ c \in Settings
        /\ c.NPROC > 0 /\ c.NSTOGROUP > 0 /\ c.KPAR > 0
        /\ c.NPROC % c.NSTOGROUP = 0
        /\ c.KPAR <= NPROC_IN_STOGROUP(c)
        /\ c.ESOLVER_TYPE = "ksdft" => c.NSTOGROUP = 1

ASSUME ParamAssumption == /\ NKSTOT \in Nat \ {0}
                          /\ PoolsAgree \in BOOLEAN

VARIABLES case,        \* layout and settings
          comm,        \* process |-> communicator |-> members, as split
          drho_at,     \* pool |-> iteration from which drho < scf_thr in it
          etot_at,     \* <<group, pool>> |-> the same for scf_ene_thr
          redo,        \* pool |-> the first iteration's hsolver_error > drho
          iter,        \* process |-> iteration
          todo,        \* process |-> collectives left, the head being called
          called,      \* process |-> communicator |-> collectives called on it
          conv_elec,   \* process |-> conv_elec
          rho,         \* process |-> density of each spin
          left         \* processes that left the loop

vars == <<case, comm, drho_at, etot_at, redo, iter, todo, called, conv_elec,
          rho, left>>

Names == {"WORLD", "STO_WORLD", "POOL_WORLD", "INTER_POOL", "PARAPW_WORLD"}

Procs == World(case)

Group(r) == MY_STOGROUP(case, r)

Pool(r) == MY_POOL(case, r)

Split(r) == [WORLD        |-> Procs,
             STO_WORLD    |-> STO_WORLD(case, r),
             POOL_WORLD   |-> POOL_WORLD(case, r),
             INTER_POOL   |-> IF EvenPools(case) THEN INTER_POOL(case, r) ELSE {},
             PARAPW_WORLD |-> PARAPW_WORLD(case, r)]

Members(name, r) == comm[r][name]

Pools == 0 .. case.KPAR - 1

Groups == 0 .. case.NSTOGROUP - 1

----------------------------------------------------------------------------
(* The collectives of an iteration, in the order of the program.           *)

All(name, what) == <<[comm |-> name, what |-> what, bcast |-> FALSE]>>

Bcast(what) == <<[comm |-> "PARAPW_WORLD", what |-> what, bcast |-> TRUE]>>

None == <<>>

When(cond, ops) == IF cond THEN ops ELSE None

\* ops, n times.
Times(n, ops) == [i \in 1 .. n * Len(ops) |-> ops[1 + ((i - 1) % Len(ops))]]

\* Mutant of reduce_diff_pools: one group sums over all processes.
reduce_diff_pools_world ==
    IF EvenPools(case) THEN All("INTER_POOL", "rho")
    ELSE All("POOL_WORLD", "rho") \o All("WORLD", "rho")

\* Mutant of reduce_diff_pools: the pools are taken to be even.
reduce_diff_pools_even == All("INTER_POOL", "rho")

\* Charge::reduce_diff_pools.
reduce_diff_pools ==
    IF EvenPools(case) THEN All("INTER_POOL", "rho")
    ELSE All("POOL_WORLD", "rho")
         \o All(IF case.ESOLVER_TYPE = "sdft" THEN "STO_WORLD" ELSE "WORLD", "rho")

\* Charge::rho_mpi.
rho_mpi == When(case.KPAR > 1,
                Times(IF case.meta_gga THEN 2 * case.NSPIN ELSE case.NSPIN,
                      reduce_diff_pools))

\* Symmetry_rho::begin for every spin: psymmg of the density and, for a
\* meta-GGA, of the kinetic energy density.  Each psymmg has a barrier.
SymmetryRho ==
    When(case.symm_flag,
         Times(IF case.meta_gga THEN 2 * case.NSPIN ELSE case.NSPIN,
               All("POOL_WORLD", "fftixy2is") \o All("WORLD", "barrier")))

\* Symmetrizing in the first group, while the others wait at one barrier.
SymmetryRhoSdft(r) ==
    IF Group(r) = 0 THEN SymmetryRho
    ELSE When(case.symm_flag, All("WORLD", "barrier"))

\* get_nks_pool.
nks(r) == GroupSize(NKSTOT, case.KPAR, Pool(r))

\* ESolver_KS_PW::hamilt2density: the weights (with smearing, which has a
\* demet), the band energy, the density.
Hamilt2DensityKs ==
    When(case.KPAR # 1, All("WORLD", "demet") \o All("WORLD", "eband"))
    \o rho_mpi \o SymmetryRho

\* Mutant of PsiToRhoSdft: the Bcast is left to the first group too.
PsiToRhoSdftAlone(r) ==
    When(Group(r) = 0, rho_mpi \o All("STO_WORLD", "eband") \o Bcast("eband"))

\* The density of the Kohn-Sham orbitals, and its band energy for all groups.
PsiToRhoSdft(r) == When(Group(r) = 0, rho_mpi \o All("STO_WORLD", "eband"))
                   \o Bcast("eband")

\* ESolver_SDFT_PW::hamilt2density.  The Kohn-Sham orbitals are those of the
\* first group, which alone has their density; every group has stochastic
\* orbitals.  calne is called as often by every process: once here; checkemm
\* in the first five iterations, which SCF_NMAX does not exceed.
Hamilt2DensitySdft(r) ==
    Times(nks(r), Bcast("psi") \o Bcast("ekb"))
    \o All("WORLD", "emax")                                  \* checkemm
    \o All("STO_WORLD", "KS_ne") \o All("WORLD", "sto_ne")   \* calne
    \o All("WORLD", "precision")
    \o PsiToRhoSdft(r)
    \o All("STO_WORLD", "demet") \o All("WORLD", "stodemet")   \* sum_stoband
    \o All("WORLD", "precision") \o All("WORLD", "sto_eband")
    \o rho_mpi
    \o All("POOL_WORLD", "sto_ne") \o All("PARAPW_WORLD", "sto_ne")
    \o All("PARAPW_WORLD", "sto_rho")
    \o SymmetryRhoSdft(r)

Hamilt2Density(r) == IF case.ESOLVER_TYPE = "sdft" THEN Hamilt2DensitySdft(r)
                                                   ELSE Hamilt2DensityKs

\* get_drho is called in the first group only, and is a sum over its pool.
GetDrho(r) == When(Group(r) = 0, All("POOL_WORLD", "drho"))

Results == Bcast("drho") \o Bcast("conv_elec") \o Bcast("rho")

\* The second hamilt2density of the first iteration, with a tighter
\* threshold of the diagonalization.
Redo(r) == When(iter[r] = 0 /\ case.ESOLVER_TYPE = "ksdft" /\ redo[Pool(r)],
                Hamilt2Density(r) \o GetDrho(r))

\* All of the iteration after iter[r].
Iteration(r) == Hamilt2Density(r) \o GetDrho(r) \o Redo(r) \o Results

----------------------------------------------------------------------------
Decisions == 1 .. case.SCF_NMAX + 1

\* The pools of one group hold the same density: their drho and etot are
\* different sums of the same numbers, and so are the results of the first
\* diagonalization.
Agree(f) == \A p, q \in Pools : f[p] = f[q]

Init ==
    /\ case \in Cases
    /\ comm = [r \in Procs |-> Split(r)]
    /\ drho_at \in [Pools -> Decisions]
    /\ etot_at \in [Groups \X Pools ->
                      IF case.scf_ene_thr THEN Decisions \ {1}
                      ELSE {case.SCF_NMAX + 1}]
    /\ redo \in [Pools -> BOOLEAN]
    /\ case.ESOLVER_TYPE = "sdft" => \A p \in Pools : ~redo[p]
    /\ Agree(redo)
    /\ PoolsAgree => /\ Agree(drho_at)
                     /\ \A g \in Groups : Agree([p \in Pools |-> etot_at[g, p]])
    /\ iter = [r \in Procs |-> 0]
    /\ todo = [r \in Procs |-> <<>>]
    /\ called = [r \in Procs |-> [n \in Names |-> <<>>]]
    /\ conv_elec = [r \in Procs |-> FALSE]
    /\ rho = [r \in Procs |-> [is \in 1 .. case.NSPIN |-> <<>>]]
    /\ left = {}

\* The density of iteration i that the process has before the Bcast: only the
\* first group has that of the run, each process the part on its own planes.
OwnRho(r, i) == [iter |-> i,
                 part |-> IF Group(r) = 0 THEN RANK_IN_STOGROUP(case, r) ELSE -1]

\* What the first group puts in a Bcast, and what the others leave to it.
Content(r, op) ==
    CASE op.what = "conv_elec" -> conv_elec'[r]
      [] op.what = "rho"       -> rho'[r][1]
      [] OTHER                 -> {}

\* The process calls the first of ops, or none.
Call(r, ops) ==
    /\ todo' = [todo EXCEPT ![r] = ops]
    /\ called' =
         IF ops = <<>> THEN called
         ELSE [called EXCEPT ![r][Head(ops).comm] =
                 Append(@, [what    |-> Head(ops).what,
                            content |-> Content(r, Head(ops))])]

\* The operation that r is in, and its number among those on its communicator.
Op(r) == Head(todo[r])

Number(r) == Len(called[r][Op(r).comm])

Root(r) == CHOOSE m \in Members(Op(r).comm, r) :
               \A s \in Members(Op(r).comm, r) : m <= s

Returns(r) ==
    \A m \in IF Op(r).bcast THEN {Root(r)} ELSE Members(Op(r).comm, r) :
        Len(called[m][Op(r).comm]) >= Number(r)

Sent(r) == called[Root(r)][Op(r).comm][Number(r)].content

\* Only rho[0], the density of the first spin, is in the Bcast.
Receive(r) ==
    /\ conv_elec' = IF Op(r).what = "conv_elec" /\ Op(r).bcast
                    THEN [conv_elec EXCEPT ![r] = Sent(r)] ELSE conv_elec
    /\ rho' = IF Op(r).what = "rho" /\ Op(r).bcast
              THEN [rho EXCEPT ![r][1] = Sent(r)] ELSE rho

----------------------------------------------------------------------------
\* conv_elec when the first group has drho.
ConvergedByDensity(r) == iter[r] >= drho_at[Pool(r)]

\* ESolver_KS::iter_finish.  The energy of the groups but the first lacks
\* deband, which only the first computes.
ConvergedByEnergy(r) == iter[r] # 1 /\ iter[r] >= etot_at[Group(r), Pool(r)]

\* The next iteration begins with hamilt2density, whose densities of all
\* spins are the process's own.
BeginIteration(r) ==
    /\ r \notin left /\ todo[r] = <<>>
    /\ iter' = [iter EXCEPT ![r] = @ + 1]
    /\ UNCHANGED <<case, comm, drho_at, etot_at, redo, conv_elec, left>>
    /\ rho' = [rho EXCEPT ![r] = [is \in 1 .. case.NSPIN |-> OwnRho(r, iter[r] + 1)]]
    /\ Call(r, Iteration(r))

\* A collective before the results of the iteration.
Return(r) ==
    /\ todo[r] # <<>> /\ Len(todo[r]) > 1 /\ Returns(r)
    /\ Tail(todo[r]) # Results
    /\ Receive(r)
    /\ Call(r, Tail(todo[r]))
    /\ UNCHANGED <<case, comm, drho_at, etot_at, redo, iter, left>>

\* The density is known: the first group decides and mixes, the others wait
\* for the results.
Decide(r) ==
    /\ todo[r] # <<>> /\ Returns(r)
    /\ Tail(todo[r]) = Results
    /\ conv_elec' = IF Group(r) = 0
                    THEN [conv_elec EXCEPT ![r] = ConvergedByDensity(r)]
                    ELSE conv_elec
    /\ rho' = rho
    /\ Call(r, Results)
    /\ UNCHANGED <<case, comm, drho_at, etot_at, redo, iter, left>>

\* The last Bcast has returned: update_pot, iter_finish and the test that
\* ends the loop.
EndIteration(r) ==
    /\ Len(todo[r]) = 1 /\ Returns(r)
    /\ rho' = [rho EXCEPT ![r][1] = Sent(r)]
    /\ conv_elec' = [conv_elec EXCEPT ![r] = @ \/ ConvergedByEnergy(r)]
    /\ left' = IF conv_elec'[r] \/ iter[r] = case.SCF_NMAX
               THEN left \cup {r} ELSE left
    /\ Call(r, <<>>)
    /\ UNCHANGED <<case, comm, drho_at, etot_at, redo, iter>>

Next ==
    \/ \E r \in Procs : BeginIteration(r)
    \/ \E r \in Procs : Return(r)
    \/ \E r \in Procs : Decide(r)
    \/ \E r \in Procs : EndIteration(r)

\* Processes do not stop of themselves.  That some process goes on while one
\* can is enough: the steps of each are bounded by the iterations.
Spec == Init /\ [][Next]_vars /\ WF_vars(Next)

----------------------------------------------------------------------------
Densities == {<<>>} \cup [iter : 1 .. case.SCF_NMAX, part : {-1} \cup Procs]

TypeOK ==
    /\ iter \in [Procs -> 0 .. case.SCF_NMAX]
    /\ \A r \in Procs : todo[r] # <<>> => r \in Members(Op(r).comm, r)
    /\ conv_elec \in [Procs -> BOOLEAN]
    /\ rho \in [Procs -> [1 .. case.NSPIN -> Densities]]
    /\ left \subseteq Procs

\* The members of a communicator call the same operations on it in the same
\* order, however far one is ahead of another: what a process called last,
\* the others that have called as often called too.
CollectivesMatch ==
    \A r \in Procs : \A name \in Names : \A m \in Members(name, r) :
        LET n == Len(called[r][name]) IN
        n > 0 /\ n <= Len(called[m][name])
        => called[m][name][n].what = called[r][name][n].what

BetweenIterations(r) == todo[r] = <<>> /\ iter[r] > 0

\* A process ends an iteration with the density that the first group has
\* computed in it, of every spin and on the planes that are its own.
SameDensity ==
    \A r \in Procs : BetweenIterations(r) =>
        \A is \in 1 .. case.NSPIN :
            rho[r][is] = [iter |-> iter[r], part |-> RANK_IN_STOGROUP(case, r)]

\* No process waits for ever for another: all leave the loop.
AllLeave == <>(left = Procs)
=============================================================================
