# A verification project for ABACUS

TLA+ models, model-checking configurations and machine-checked proofs for the
control logic of ABACUS (electronic structure with plane waves or numerical
atomic orbitals). The numerics (integrals, FFTs, eigenvalues) are out of scope;
what is modelled is what decides *which* numbers are combined: ring buffers,
caches, flags and counters that live across iterations, and the collective
operations of MPI processes that must agree.

Paths below are relative to `src/source/` unless they start with `src/`.

## 1. Inventory of the system

A run reads INPUT, splits its MPI processes into groups, builds an ESolver and
enters a loop over ionic steps (`driver_run.cpp`, `module_relax`, `module_md`).
Every ionic step calls `ESolver::runner`, which for the Kohn-Sham solvers is
the self-consistent field (SCF) loop:

    before_scf -> ( iter_init -> hamilt2density -> get_drho -> converged? ->
                    mix_rho -> Bcast -> update_pot -> iter_finish )* -> after_scf

| component | source | state it keeps | operations | hard behaviour | what makes it correct |
|---|---|---|---|---|---|
| vectors' ring | `module_base/module_mixing/mixing_data.*` | slots, `start`, `ndim_use`, `ndim_history` | push, reset, resize, index_move | wrap-around | a slot holds the vector of its age |
| Broyden mixing | `module_base/module_mixing/broyden_mixing.*` | ring of residual differences, cached inner products, coefficients | push_data, cal_coef, mix_data, reset | two rings of different lengths, a cache addressed by slots, restart with old memory | it is Anderson mixing of consecutive vectors; no stale product |
| Charge_Mixing | `module_elecstate/module_charge/charge_mixing.*` | rings of rho, tau, DM(R); restart step and count | init_mixing, mix_rho, mix_dmr, get_drho | several rings share one set of coefficients | what goes together is combined with the same weights |
| SCF loop | `module_esolver/esolver_ks*.cpp`, `lcao_before_scf.cpp` | iter, conv_elec, drho, densities, potential | runner and its handlers | flags set at one place and read three calls later; a loop counter reset by a callee | converged means converged at the target U, with the functional asked for, on a mixed input |
| exact exchange loop | `module_ri/Exx_LRI_interface.hpp`, `Mix_Matrix.*`, `Mix_DMk_2D.*` | two_level_step, a borrowed pointer to the mixing object | beforescf, eachiterinit, after_converge | pointer to an object its owner deletes; loop that restarts its caller | ends; mixes with a live object into allocated storage |
| DFT+U | `module_hamilt_lcao/module_dftu` | U, U0, uramping, occupation matrices | uramping_update, u_converged | U moves only at a mixing restart | U never passes its target |
| process groups | `module_base/parallel_global.cpp` | GlobalV ranks, communicators | divide_mpi_groups, divide_pools, split_* | uneven division, colours of splits | every rank in one group; Bcast partners hold the same part |
| density over pools | `module_elecstate/module_charge/charge_mpi.cpp`, `module_basis/module_pw/pw_distributer.cpp` | rho of each process | rho_mpi, reduce_diff_pools | pools of different sizes pack planes differently | each pool counted exactly once |
| SCF over processes | `esolver_ks.cpp`, `esolver_sdft_pw.cpp`, `module_hsolver/hsolver_pw_sdft.cpp`, `module_hamilt_pw/hamilt_stodft` | per process: iter, conv_elec, rho, position in its collectives | collectives of an iteration | groups execute different code between collectives | same collectives in the same order, same decision, same density |
| potential | `module_elecstate/potentials`, `elecstate_energy.cpp` | v_eff, vnew | init_pot, update_from_charge, get_vnew, cal_converged | made anew at several places of an iteration | it is of the density and the functional of the iteration |
| charge extrapolation | `module_elecstate/module_charge/charge_extra.cpp` | three displacements, three densities, a count of steps | update_all_dis, extrapolate_charge, update_delta_rho | two histories shifted in different functions, one of them only when the ions moved | displacement i goes with density i; the guess is for the present structure and volume |
| relaxation, nested | `module_relax/relax_driver.cpp`, `module_relax/relax_old` | counters of ionic, force and stress steps; last position, gradient and energy of BFGS; lowest energy with its gradient, and position, of SD; state of the line searches of CG in static variables | relax_step, do_relax, do_cellrelax, the methods' start | steps taken back, a switch of the method, memory that outlives a change of the cell | what is compared belongs to one structure; the cell waits for the ions; converged means converged for the structure written |
| relaxation, all at once | `module_relax/relax_new` | search directions, line search | relax_step, move_cell_ions | flags for the solver | the solver is told of what moved |
| molecular dynamics | `module_md` | phase-space point, thermostat and barostat variables, step counts, three files | setup, first_half, second_half, dump_info, print_stru_file, write_restart, restart | a kill between two writes | the files always allow a restart, and it continues the same run |
| iterative diagonalization | `module_hsolver/diago_*.cpp` | basis, H times it, subspace matrices, unconverged bands | diag, diag_once, cal_grad, cal_elem, refresh | arrays compacted in place, restart of the basis at its limit, retries | matrices are of the basis there is; bands go with their eigenvalues; the result is the last one |
| real-space matrices | `module_hamilt_lcao/module_hcontainer` | atom pairs, index maps | insert, transfer | messages of two phases | every element arrives once |
| block-cyclic distribution | `module_basis/module_ao/parallel_2d.*` | local/global maps | set, local2global | uneven blocks | bijection |
| plane-wave basis | `module_basis/module_pw` | sticks, planes | distribute, gather, scatter | balance, all-to-all order | gather inverts scatter |
| k points, symmetry, cell, neighbours | `module_cell` | lists and tables | generate, distribute | uneven pools | complete lists |
| Hamiltonians, grid integration, deltaspin, DeePKS, RT-TDDFT, linear response, other solvers | `module_hamilt_*`, `module_esolver`, `module_lr` | matrices | kernels | mostly numerical | - |
| input/output | `module_io` | parameters, files | read, convert, write, restart | - | - |

Components interact by calls (runner and its handlers), by shared objects
(`Charge`, `Charge_Mixing`, `GlobalC::dftu`, the functional set in
`XC_Functional`), by borrowed pointers (`Mix_Matrix` holds the mixing object
of `Charge_Mixing`), by out-parameters (`iter_finish(int& iter)`), and between
processes by MPI collectives over five communicators. `PROJECT.json` lists
every component with what is modelled of it, and the hazards with their lines.

## 2. Modules

| module | models | uses |
|---|---|---|
| `MixingData` | `Mixing_Data`: operators on one ring | |
| `AndersonMixing` | abstract specification: the combination Broyden mixing must compute, without rings, slots or caches | |
| `BroydenMixing`, `MCBroydenMixing` | `Broyden_Mixing` with the rings of rho and tau; actions `InitMixing`, `MixReset`, `MixRho` | `MixingData`, refines `AndersonMixing` |
| `BroydenMixing_proof` | proofs about `BroydenMixing` | |
| `ScfLoop`, `MCScfLoop`, `ScfLoop_proof` | `ESolver_KS::runner` with the handlers of the LCAO or of the plane-wave solver, over `MaxIon` ionic steps | `MixingData` |
| `MpiGroups` | division of items among groups as a pure algorithm | |
| `ProcessGroups`, `ProcessGroups_proof` | `divide_pools`: groups, pools, communicators; theorems about the division and what the Bcasts rely on | `MpiGroups` |
| `ChargeMpi` | `rho_mpi`: the sum of the density over pools | `ProcessGroups` |
| `ScfMpi`, `MCScfMpi`, `ScfMpi_proof` | the SCF loop as its processes execute it; `ScfMpi_proof` holds the proofs about it and about `ChargeMpi` | `ProcessGroups` |
| `ChargeExtra` | `Charge_Extra`: operators on the two histories | |
| `IonicLoop`, `MCIonicLoop`, `IonicLoop_proof` | the solver's part in the ionic loop (guess, SCF, what is kept) with the three drivers that move the structure | `ChargeExtra` |
| `RelaxOld`, `MCRelaxOld`, `RelaxOld_proof` | `Relax_Driver` with `Relax_old`: the nested relaxation and its methods | |
| `MDTrajectory` | abstract specification: the steps of a run that may be interrupted and resumed | |
| `RunMD`, `MCRunMD`, `RunMD_proof` | `Run_MD::md_line` with six integrators, its files, kills and restarts | refines `MDTrajectory` |
| `DavSubspace`, `MCDavSubspace`, `DavSubspace_proof` | `Diago_DavSubspace::diag` for one k point | |

### MixingData, BroydenMixing, AndersonMixing

Variables carry the names of the members of `Broyden_Mixing` and
`Charge_Mixing`. A number is abstracted to its origin: vector and residual *n*
to the number of the call of `mix_rho`; a slot of `dF` to the pair of residuals
it is the difference of; an inner product to the pair of its arguments; a
coefficient to which unknowns it is the sum of. With this the result of a
linear combination is a set of (vector, coefficient), and a stale slot or cache
entry is visible as the wrong pair. One `MixRho` step is the whole of
`mix_rho`: push and coefficients for rho, the linear system given to DSYSV, the
residual left in the next slot, the mixing, then tau. `InitMixing` is
`Charge_Mixing::init_mixing` (first iteration and every restart of the loop),
`MixReset` is `Charge_Mixing::mix_reset`, a public operation that keeps the
memory and that the present solvers do not call. A failing DSYSV ends the
program and is not modelled.

### ScfLoop

Each action is one call of `runner` or a stretch of `runner` between two
calls: `BeforeScf`, `IterInit`, `Hamilt2density` (possibly
`Hamilt2densityAgain`), `Mixing` (the tests, the restart, `mix_rho`),
`UpdatePot`, `IterFinish`, `CheckConvergence`, `AfterScf`. Densities are
abstracted to (guess | output of iteration i | mixture of iteration i), `drho`
and the estimated error of the diagonalization to values below, at and above
the thresholds, the energy criterion to its outcome. The mixing rings are
those of `MixingData`; `coef` records for which vector each slot's coefficient
was computed, so that mixing DM(R) with it can be judged. `mix_DMk` is the
`Mix_Matrix`: its pointer is null, live or dangling. The INPUT parameters are
the record `inp`, chosen in the initial state from `Inputs` and never changed,
so that one run covers several kinds of calculation.

Abstracted: the values of `diag_ethr`, kinetic energy, Kerker factors, output
other than the wavefunctions; DFT+U has one atom type; restart files are not
loaded; `nscf` and other calculations that leave `before_scf` early.

### MpiGroups, ProcessGroups

Groups are given by their sizes and starts, in closed form; the loop of
`divide_mpi_groups` that accumulates sizes is the search for the group whose
interval contains the rank. Communicators are sets of world ranks: all
`MPI_Comm_split` calls use one key, so the order of ranks is kept.

### ChargeMpi

A grid point is [cell, terms]: which point of the grid it is, and the terms that
have been added up there. A term is one part in `parts` of the density of the
pool `from`, so that dividing by the number of processes multiplies `parts`; `by`
names the processes through whose sums it came, which keeps equal shares of the
processes of a pool apart. A density counts once when its terms are as many as
they are parts of it. The actions are the steps between the
collectives of `reduce_diff_pools`; a collective is one step because no state
that it reads can change before all members have called it. `OwnDensity` is
the state in which `psiToRho` leaves each process. The names of the
specification begin with CM, since its proofs share a module with those of
`ScfMpi`.

### ScfMpi

Every process has the list `todo` of the collectives that are left in the
current iteration, computed from its group, its pool and the settings exactly
as the code branches, and `called` records what it has called on each of its
communicators. Reductions and barriers return when all members have called
them, a Bcast returns at its root at once: processes may be several
collectives apart, and the first group may already be in the next iteration.
The decision to leave the loop is taken by the first group (`Decide`), spread
by Bcast (`Results`), and may be changed by each process in `iter_finish`
(`EndIteration`).

Abstracted: collectives in which exactly the processes of one pool take part
and all of them alike (FFTs, diagonalization, most sums); repeated collectives
that every process executes equally often (the search for the Fermi level, the
three reductions of `checkemm`) stand once; the reductions inside `update_pot`
and the energies are left out, their results being values. When `drho` or the
energy passes its threshold is chosen per pool (and, for the energy, per
group) in the initial state. `PoolsAgree` says whether two pools, which
compute the same number in different orders, may decide differently.

### ChargeExtra, IonicLoop

`IonicLoop` composes the two sides of an ionic step. The solver: `BeforeScf`
(what `before_scf` does when `ionic_position_updated` is set: `update_all_dis`,
new structure factors, `extrapolate_charge`) and `AfterScf`
(`update_delta_rho`). The drivers: `RelaxStep`, `RelaxOldIons`, `RelaxOldCell`
and `MdStep` move the structure, shift `Atom::dis` and set the two flags, each
at its place in the code; `Stop` ends the loop. A structure is the direct
coordinates of its ions (a vector of integers) and the number of its cell. A
density without that of the atoms is the structure it was computed for, and the
positions of the atoms taken away from it; a guess is the coefficients, the
atoms added and the volume divided by. The coefficients are computed exactly,
with their common denominator kept apart. All branches of
`find_alpha_and_beta` occur, the one with a determinant of zero too.

Abstracted: the renormalisation of the guess, the floor on small determinants,
PAW and the orbital-free solver, extrapolation of wave functions, and when a
driver finds the structure converged. A move is one of atoms that are free in
all directions or in none, for which `UpdatePosition` is a shift of the direct
coordinates by `dis`; of an atom frozen in some directions `update_pos_tau`
(`module_cell/unitcell.cpp:313`) leaves the frozen components of the last `dis`
in place and multiplies them by `GT` once more, which no property looks at.

### RelaxOld

`Runner` is the SCF loop with energy, forces and stress; the other actions are
one call of `relax_step` each, split by what it ends in: `RelaxIons` (one of
BFGS, CG, SD, or CG that may switch to BFGS), `RelaxCell`, `Converged`,
`LastStep`, and `Exit` for the EXIT file. Every action is the whole call:
`setup_etot`, the method, the move, the counters, the output of STRU_ION_D. A
structure is a number; positions, gradients and energies that the methods keep
are the number of the structure they are of, so that a comparison of things
that do not belong together can be seen. Energies are small integers, since
BFGS and SD compare them. What SD keeps is of two structures: `energy_saved`
and `grad_saved` of the lowest one (`sd.saved`), `pos_saved` of the present one
(`sd.pos`), because `move_atoms` moves it in place; so SD never goes back.
Whether forces and stresses are below their
thresholds, whether a trial radius is below `relax_bfgs_rmin`, and what a line
search decides are left open; the counters that bound a line search (`nbrent`)
are kept.

Abstracted: step lengths, the inverse Hessian, Brent's interpolation, symmetry
of the moves; fixed axes or volume differ in values only.

### RunMD, MDTrajectory

The actions are the stretches of one pass of `md_line` between two writes that
a kill can separate: `Setup` or `Step` (both halves, the forces between them,
the temperature), `OpenDump`/`WriteDump`, `OpenStru`/`WriteStru`,
`OpenRestart` and one `WriteLine` for every flushed line of Restart_md.dat,
`NextStep`. `Kill` may come between any two, `Launch` reads the files as
`Input_Conv` and the constructors do; it refuses to start without
Restart_md.dat or without the structure it names. A file that was opened and
not finished is there, with nothing or some lines in it.

A quantity is the step of the uninterrupted run it has the value of, or `Off`.
`Integrated` takes a step to the next values only from a state that is wholly
on the track of that run, so forgetting one quantity in `Lines` (or in what
`setup` computes again) shows as `Off` in the next step. The quantities of
every integrator, and which of them are written, computed again or constructed,
are taken from the class of that integrator. `Now`, the sum of the steps of
this launch and of those before, is the refinement of the abstract step.

Abstracted: the six digits of Restart_md.dat (see remarks), processes other
than the one that writes, the energies printed.

### DavSubspace

One action per part of `diag_once`: `First` (up to the loop), `CalGrad`,
`Solve` (`cal_elem`, `diag_zhegvx`), `CheckUpdate` (convergence, write-back,
`refresh`), and `TestExit` for `test_exit_cond`. A vector is named by the
diagonalization and the band it came from, a correction by the vector and the
eigenvalue it is the residual of, an element of the subspace matrices by its
two vectors. The in-place compaction of `vcc` and `eigenvalue_iter`, the growth
by `notconv` columns and the copy of elements on restart are those of the code.
Which bands are converged is open in every iteration. `scc` follows `hcc` in
every statement and is not kept twice.

Abstracted: the reductions within a pool, preconditioning, the choice of the
dense eigensolver.

## 3. Runs

Every run finishes within about a minute. `pass` runs:

| run | checks | bounds and why they are enough |
|---|---|---|
| `broyden` | types, `DsysvFresh`, refinement `ImplementsAnderson` | 3 differences, 10 vectors: either ring wraps around twice, restarts at any point |
| `scf` | types; mixing: `RestartBound`, `RestartFromOutput`, `ConvergedOnMixedInput`, `DmrMixedAlike`; exact exchange: `ExxMixingValid`, `ConvergedWithHybrid`, `Termination`; what is left behind: `ResidualOfPotential`, `WfcOfLastIteration` | 2 ionic steps, so that the second meets the objects of the first; 8 iterations for U 0 -> 2 -> 3 (two ramps with iterations between), 4 for the others; up to 3 outer loops of exact exchange |
| `charge_mpi` | types, `RhoSummed` | all layouts of up to 6 processes (2+1, 3+2, 2+2+1 processes in pools, groups of pools), grids of 1 to 4 planes, also fewer planes than processes |
| `mpi` | types, `CollectivesMatch`, `SameDensity`, `AllLeave` | Kohn-Sham: one pool, even pools with two spins, uneven pools with a meta-GGA; stochastic: two and three groups, groups of two pools, groups of pools of 2 and 1 processes with 2 and 1 k points |
| `md` | types; files: `Restartable`, `FramesKept`, `WorkLost`; steps: `ContinuesRun`, `RunEnds`, refinement `ImplementsTrajectory` | 4 steps and up to 2 kills and launches: a restarted run is killed and restarted again, before and after it wrote files of its own; all six integrators, constant and rising target temperature, frames and restart files of every or every second step |
| `ionic` | types, `GuessOfThisStructure`, `ExtrapolatedPositionsClosest`, `UniformMotionFollowed` | 5 structures, so that both histories (3 long) have been shifted out once; four displacements: none, forth, back, and one in another direction, which give regular and singular determinants; all drivers, fixed and moving cell, all values of `chg_extrap` |
| `relax` | types; BFGS: `BfgsPoint`, `BfgsDescends`; CG: `ConjugateWithinCell`; SD: `SdLowest`; the nesting: `Nested` | 7 steps: two relaxations of the ions with a change of the cell between, three rejected steps in a row, a line search with all its Brent steps; two energies, every method, with atoms or cell fixed or not |
| `dav` | types, `SubspaceOfBasis`, `ResidualOfBand`, `ResultOfBands` | 3 bands, room for 9 vectors, 6 iterations: the basis fills up and is restarted several times with 1, 2 or 3 unconverged bands; all retries of `diag` |

The inputs of `scf` (`AllInputs` in `MCScfLoop`) are one of each kind of
calculation: plain, U-ramping with mixing restart and density matrix mixing,
joint and separate exact exchange, plane waves with restart and repeated
diagonalization. `drho` is below `scf_thr`, equal to it, or above it. The
properties of one kind hold trivially for the others.

Two iterations suffice in `mpi` for a process to be one iteration ahead; the
cases of one pool and of even pools with the energy criterion, which is not
asked in the first iteration, have three, so that it may end the loop before
`SCF_NMAX` does; the largest case (six processes) has one, because the sequence
of collectives is the same in every iteration.

Where the program may stop, the cfg says CHECK_DEADLOCK FALSE: in `mpi` all
processes may have left (that none waits for ever is `AllLeave`), in
`charge_mpi` the function has returned, in `md` nobody has to launch the run
again, in `ionic`, `relax` and `dav` the loop has ended.

What the runs leave out, and why: `mpi` assumes that pools agree, and its
stochastic cases have one spin and no energy criterion; in `scf`, U-ramping and
the output of wavefunctions go without the energy criterion; `ionic` leaves out
second-order extrapolation in the cell-relax of `Relax_old`; `ContinuesRun`
leaves out Langevin and NPT with a ramp. In each of these cases the properties
fail, as the findings and remarks below say. Of `exx_mixing_beta`, which no
code outside the tests hands to `Mix_Matrix`, there is nothing to model.

`violation` runs show where the program does not do what its documents or
comments say:

| run | shows |
|---|---|
| `scf_energy_u` | `scf_ene_thr` ends the loop while U is still ramped |
| `mpi_symmetry` | `bndpar` > 1, `nspin` 2 and symmetry: barriers do not match, the program hangs |
| `mpi_spin` | `bndpar` > 1 and `nspin` 2: only the first spin is broadcast |
| `relax_bfgs` | in cell-relax BFGS goes on, after a change of the cell, from the Cartesian positions in the old cell |

Every property of a passing run has a mutant in `PROJECT.json`: an operator
next to the one it replaces (its comment begins with "Mutant") that changes it
as a plausible slip would, and that makes the property fail.

### Fairness

`ScfLoop` has WF on the whole next-state relation: the program is sequential
and no call waits for anything. `ScfMpi` has WF on its next-state relation
too: some process whose collective can return goes on. Nothing is assumed about
relative speed; since each process takes a bounded number of steps, all that
can go on do.
`RunMD` has WF on `Run`, the steps of a launched process, and none on `Kill` or
`Launch`: a process that is not killed goes on, and nobody has to kill it or to
launch it again. All other modules have safety properties only.

## 4. Proofs

`BroydenMixing_proof`, for every `mixing_ndim` >= 1 and any number of vectors:

- `TypeCorrect`, `SystemFresh`: the invariants of the run; `TauMixedAlike`: tau
  is combined as rho is, with rings that are reset together (`TauFollowsRho`,
  which is proved only).
- `Refinement`: `Spec => ImplementsAnderson`.

The properties are not inductive: whether the linear system is fresh depends
on what slots and cache held before. `IndInv` adds `Counters` (the numbers of
vectors and differences, and the newest slots, are functions of the number of
pushes since the restart), `VectorsInOrder` and `DifferencesInOrder` (a used
slot holds what its age says; the slot that the next push completes holds the
newest residual), `CacheFresh` (the cache is right wherever the next
`cal_coef` reads it, which excludes the row and column of the slot about to be
overwritten) and `TauInStep`. After a restart the last three say nothing, so
that old memory does no harm. The refinement then compares, slot by slot, the
coefficient of a vector's age with that of its number (`CoefFits`), and the
oldest used slot with the oldest vector of the abstract specification.

`ScfLoop_proof`, for any settings of an LCAO or a plane-wave run (tolerances,
residuals, ring sizes, ramps of U, both loops of the exact exchange) and any
number of ionic steps and iterations: `TypeCorrect`, `RestartsBounded`,
`ResidualMeasuresPotential`, `ExxMixingIsValid`, `HybridConverges`,
`RestartsFromOutput`, `ConvergesOnMixedInput`, `DmrIsMixedAlike`,
`WfcIsOfLastIteration` and `ConvergesAtTargetU`. `IInv` says what holds at every
call of `runner`. Its parts are

- `ControlInv`: the counters, and what `conv_elec` can be at each call;
- `DensityInv`: which density and functional the potential is made of, and that
  `rho_save` is that density while the residual is taken;
- `InputInv`: which density an iteration begins with. It is a mixture unless
  `mixing_restart_step` is this iteration, and then it is the last output;
- `RestartInv`: while a restart is to come, there was none in this loop, or U
  has made as many steps and is below its target. The bound needs it, since
  each restart can arm the next;
- `RingInv`, `AlignInv`: the rings of the density and of the density matrix.
  After each iteration that mixes they have the vectors of the same iterations,
  in between the density's is one push ahead;
- `ExxInv`: the mixing object of the exact exchange is never the one of
  `Charge_Mixing`, and there is storage before the first mixing of a loop with
  the hybrid functional;
- `LastInv`: what a loop leaves that ends without the energy criterion.

The last two theorems assume that the energy criterion does not fire where
wave functions are written, or where U is ramped: it ends a loop after the tests
they are about. The run `scf_energy_u` shows that `ConvergedAtTargetU` fails
without the assumption; the theorem says that there is no other way.

`ProcessGroups_proof`, for every number of processes (or planes) and groups:
every rank finds a group (`GroupOfRank`), no two ranks share group and rank
(`RanksDistinct`), the groups end where the items end (`GroupsEnd`). They rest on
one arithmetic lemma (`Division`) and monotone starts. For every even division
into groups, members of `PARAPW_WORLD` have the same rank in their groups, pools included
(`ParapwSamePart`), and its lowest rank is in the first group
(`ParapwRootInFirstGroup`): what is broadcast over it comes from the first
group and fits the planes of the receiver. The processes of a pool are
consecutive ranks of the world and none is empty (`PoolInterval`), and between
even pools `INTER_POOL` has exactly one process of each pool, which holds the
same planes (`InterPool`).

`ScfMpi_proof`, for every layout of processes in groups and pools, even or not,
any number of k points, spins and iterations, and any speed of the processes:
`TypeCorrect`, `CollectivesAlwaysMatch` (the members of a communicator call the
same collectives on it in the same order) and `DensityIsShared` (a process ends
an iteration with the density of the first group on its own planes).
`CollectivesMatch` looks only at the last calls and is not inductive. `IInv` ties
a process to its program: `ControlInv` types the state, `CallsInv` says that
what it called on a communicator are exactly the calls on it in its past
iterations and the first *k* operations of the present one (`InIteration`,
`Logged`), and that the rest is still to be called; `RhoInv` says whose density
it has. The argument then counts: the *n*-th call on a communicator is the
operation at which the count of this communicator reaches *n*. Two processes are
`Alike` on a communicator if these operations are equal for every *n*;
concatenations of alike sequences are alike (`AlikeConcat`), so it is enough to
compare the parts of an iteration (`ScriptsAlike`, with the pools, groups and
ranks that the theorems of `ProcessGroups_proof` give). From there two
members, however far apart, agree on the operation and the iteration of their
*n*-th call (`SameCall`), and what is received from a root was written by the
root in that same operation (`Received`).

These theorems assume `GroupsSymmetrizeAlike`: a stochastic run of several groups
does not symmetrize more than one density. `DensityIsShared` further assumes that
such a run has one spin. They are the cases the runs `mpi_symmetry` and
`mpi_spin` show to fail, and the theorems say that nothing else goes wrong.

The second part of `ScfMpi_proof` is about `ChargeMpi`, for every layout, even or
not, every number of planes (fewer than processes too) and of points of a plane:
`DensityTypeCorrect`, which includes that no index leaves its array, and
`DensitySummed` (`RhoSummed`). `RhoSummed` speaks of the end only. `CMIInv` says
what each step has brought about: before the end every process still has its
pool's density on its planes; after `GatherPool` its grid, put in the order of
the planes, has at every point the share of the process in its pool's density,
of that very point; after `ReduceGrids` one such share of every process of the
group. The indices are the hard part. A position of the gathered grid lies in the block
of exactly one process of the pool (`GatheredBlock`), whose length is that of
the planes this process has (`BlockOfMember`, since the members of a pool are
taken in the order of their ranks in it); `array_tot_aux` looks at the position
where the value of its cell was put (`GridReordered`), and each process takes
back the cells of its own points (`OwnInGrid`). The rest is counting: the shares
of a pool's density at a point are as many as its processes (`PoolCounted`,
`TermsCounted`), which is what each was divided by.

`IonicLoop_proof`, for any displacements (not only the few of the run) and any
number of steps: `TypeCorrect`, and `GuessCorrect`, that a guess is for the
structure and the volume whose SCF loop begins and combines only densities that
exist, without their own atoms. `IInv` adds `HistoryInv` (the densities kept
are those of the last structures in order; the count of `Charge_Extra` is
behind by at least the steps that moved no ions, so a coefficient never reaches
past them) and `FactorsInv` (structure factors are of the present ions unless
the flag is still to be seen). `SecondOrderWeights` shows that the denominator
is never zero. `ClosestPositions` and `UniformMotionIsFollowed` need more:
`DisplacementsInv`, that after every shift the displacement *i* of `Charge_Extra`
is the one between the structures of densities *i* and *i* + 1 (the one of the
present step while the SCF loop runs, one behind while the driver moves), and
`WeightsInv`, that the guess was made with the coefficients of these
displacements. From there it is algebra, in `SecondOrderSolves`: where the
determinant is not zero alpha and beta are Cramer's solution of the normal
equations; where it is zero and the last displacement is not, the equation that
`find_alpha_and_beta` drops follows from the one it solves, since the displacements
are then parallel (`Dependent`); and for equal displacements the weights give the
uniform motion. The displacements are of two components, as in the model. Both theorems assume
`DisplacementsShifted`: no cell-relax of `Relax_old` with second-order
extrapolation, the case of section 5 in which the two histories part.

`RelaxOld_proof`, for any set of energies and any `relax_nmax`: `TypeCorrect`,
`BfgsPointKept`, `BfgsDescent`, `ConjugateKept`, `SdLowestKept`, `NestedKept`. `IInv` is
`ControlInv` (the counters), `StructuresInv` (what exists: every structure but
possibly the newest has an energy), `BfgsInv` (before its first step BFGS has
saved nothing; after it, while it runs, its position is the structure's and the
saved position, gradient and energy are of one structure), `CgInv`
(after the first step of a relaxation the directions of the ions, and the next
one, are made of gradients in the present cell; those of the cell of relaxed
structures only), `CellsInv` (every cell is entered once, and where a
relaxation of the ions begins the structure is the only one of its cell) and
`SdInv` (after that first step the energy SD compares with is the lowest of the
present cell; without `CellsInv` an energy of an earlier cell could not be ruled
out).

`DavSubspace_proof`, for any number of bands, `pw_diag_ndim` >= 2 and any
number of iterations: `TypeCorrect` (the basis never exceeds its storage: the
test for room is made with the number of corrections that come next, and after
a restart there is room for all bands), `SubspaceCorrect`, `ResidualsPaired`, `ResultCurrent`. The
invariant says what is known before each part (`PartInv`): before `cal_grad`
there is room for the corrections and the eigenvalues are those of the last
diagonalization, before the test both arrays are.

`RunMD_proof`, for any settings and any number of steps, kills and launches:
`TypeCorrect`, `AlwaysRestartable`, `RestartContinues`, `LittleWorkLost`,
`FramesAreKept` and `Refinement` (`Spec => ImplementsTrajectory`). `IInv` is `ControlInv` and
`FilesInv` (types, and what the places between writes say of the files),
`PairInv` (Restart_md.dat is complete except while it is written, and the
structure it names whole except while that one is written again; before setup
`md_restart` says whether there is a file), `ValuesInv` (every whole structure
has the values of its step, every Restart_md.dat those of the step it names)
and `WorkInv` (steps saved are multiples of `restartfreq`, so a step that is
not saved is less than `restartfreq` after the last one, and before the first
Restart_md.dat the run is at step 0). `LittleWorkLost` needs `PairInv` too: what
a kill costs is the age of the last pair only where that pair can be started
from. The argument about
restarts is in two lemmas: `RestartBegin`, that the lines of a complete file
and the structure give every quantity of the kind that setup does not compute,
and `SetUpOnTrack`, that from these setup computes the others. They split on
the kinds, so a line dropped from a file or a quantity added to an integrator
breaks the proof at its kind. `FramesAreKept` rests on an invariant of its own on
top of `IInv`: `FramesInv` says that MD_dump has frames of the steps the launch has
reached and of those before the step in Restart_md.dat, where the next launch
would begin, that the run never works on a step before that one (so step 0,
which clears MD_dump, comes only when nothing would be lost), and that the
frame being written is of this step.

Assumptions are those on the CONSTANTS and the hypotheses named above. Only
model-checked is liveness: `Termination` of `ScfLoop`, `AllLeave` of `ScfMpi`,
`RunEnds` of `RunMD` (fairness and ENABLED are out of the provers' reach). So are
facts about recursive definitions for all inputs, which is why sums are sets of
terms whose origins are compared and counted.

## 5. Remarks on the code

What was met while modelling and has no run of its own:

- `mix_dmr` runs also in iterations that did not mix the density, with
  coefficients of an earlier one (`src/docs/advanced/input_files/input-main.md:1093`
  describes it as mixing DM with the density).
- After an ionic step that did not converge, `vnew` is that of an earlier
  iteration (`module_elecstate/elecstate_energy.cpp:259`); forces read it.
- The joint exact exchange loop falls back to plain mixing, because the mixing
  object does not exist yet when it is handed over (`module_ri/Mix_Matrix.h:25`).
  This is also why `ExxMixingValid` holds: the pointer that would dangle is
  never used.
- Uneven pools sum the density in different orders and decide each for itself;
  with `PoolsAgree` FALSE `AllLeave` is violated. The same holds for
  `scf_ene_thr` with several stochastic groups (`module_esolver/esolver_ks.cpp:668`).
- An unset `md_tlast` becomes the `md_tfirst` of INPUT, which may be unset
  itself (`module_io/read_input_item_md.cpp:61`): the target temperature then
  goes to -1 K, while the documentation (`input-main.md:2484`) says that it is
  `md_tfirst`.
- Restart_md.dat is written with six digits, so a restarted run agrees with the
  uninterrupted one to that precision. An incomplete Restart_md.dat is accepted
  without a word, unless it ends before the length of a chain. A run that was
  just restarted writes the two files it was started from again, in place; a
  kill there leaves nothing to start from (`BetweenFiles`, the places that
  `Restartable` and `WorkLost` leave out).
- The random numbers of Langevin and Anderson dynamics are not saved. NPT
  computes the masses of the barostat from the target temperature at setup: with
  a ramp a restarted run has other ones.
- MD_dump has the frames after the last Restart_md.dat twice after a restart.
- In the cell-relax of `Relax_old` a step of the cell does not shift the
  displacements of `Charge_Extra` but does shift its densities, so that the
  second-order coefficients are for other densities (`module_elecstate/module_charge/charge_extra.cpp:251`).
- A second `diag_once` with `is_subspace` sets only the diagonal of `vcc`; what
  the first left off the diagonal stays (`module_hsolver/diago_dav_subspace.cpp:615`).
  `ResidualOfBand` leaves its first corrections out.
- With `cg_bfgs`, a first BFGS step whose energy is above the last one of CG
  restores a position that was never saved, and the run quits.
- After a step that raised the energy, SD keeps the gradient of the lowest
  structure but not its position: it goes on from the rejected structure along
  the gradient of another one (`module_relax/relax_old/ions_move_sd.cpp:84`),
  while `src/docs/advanced/opt.md:29` describes steps along the gradient.
- The counter of Brent steps is not reset when the step found is negative
  (`module_relax/relax_old/ions_move_cg.cpp`), so the next line search has
  fewer of them.
- `Relax` moves the structure after its last step too: the last STRU_ION_D of a
  run that reached `relax_nmax` was never computed.

## 6. Plan

Done: mixing (modelled and proved), SCF loop (proved), process groups (proved),
density over pools (proved), SCF over processes (proved), the ionic loop with
charge extrapolation (proved), nested relaxation (proved), molecular dynamics
with restarts (proved), Davidson in a subspace (proved).

Proofs next: `DisplacementsInv` for displacements of any number of components.

Models that would follow: Pulay mixing against the same abstract form, the line
search of `Relax`, block-cyclic indices (`parallel_2d`) and the distribution of
sticks as pure algorithms, the two-phase exchange of real-space matrices, the
lambda loop of deltaspin.

## 7. Not modelled, and why

Numerical kernels (Hamiltonians, grid integration, FFT, exchange-correlation,
forces, DeePKS, linear response) have no control state worth a model. Dense
eigensolvers are libraries. Parsing and formatting of INPUT, STRU and output
are left out. BPCG, CG and the older Davidson work on values band by band or
repeat the structure of `Diago_DavSubspace`. The Bcast of the flag `conv_elec` as an MPI_DOUBLE
(`esolver_ks.cpp:580`) depends on the layout of the object in memory, which the
models do not have.

## 8. Running

    tlc -config ScfLoop.cfg MCScfLoop.tla      # module and cfg of a run
    tlapm BroydenMixing_proof.tla
