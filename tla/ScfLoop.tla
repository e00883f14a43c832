------------------------------ MODULE ScfLoop ------------------------------
(***************************************************************************)
(* ESolver_KS::runner, the self-consistent field loop, with the handlers   *)
(* of ESolver_KS_LCAO (DFT+U with U-ramping, mixing restart, mixing of the *)
(* density matrix, the two ways to iterate exact exchange) or of           *)
(* ESolver_KS_PW (the precision of the diagonalization).  It is called     *)
(* once for each of MaxIon ionic steps; the objects it leaves behind are   *)
(* those the next call starts from.                                        *)
(*                                                                         *)
(* A density is abstracted to where it comes from: the guess of the ionic  *)
(* step, the output of iteration i, or the mixture made in iteration i.    *)
(* drho, the distance of the output from the input, and the estimated      *)
(* error of the diagonalization take any of a few values around the        *)
(* thresholds.                                                             *)
(***************************************************************************)
EXTENDS MixingData, FiniteSets

CONSTANTS
    Inputs,  \* the settings of the runs
    MaxIon   \* bound: number of ionic steps

Settings ==
    [basis_type      : {"lcao", "pw"},
     SCF_NMAX        : Nat \ {0},         \* most iterations of a loop
     mixing_ndim     : Nat \ {0},
     Drho            : SUBSET Nat,        \* values of drho
     HSolverErrors   : SUBSET Nat,        \* values of cal_hsolve_error
     scf_thr         : Nat,
     EnergyCriterion : SUBSET BOOLEAN,    \* outcomes of |etot_delta| < scf_ene_thr
     MIXING_RESTART  : Nat,               \* 0: no mixing restart
     MIXING_DMR      : BOOLEAN,
     dft_plus_u      : BOOLEAN,
     U0              : Nat,               \* target U
     uramping        : Nat,               \* 0: no ramping
     cal_exx         : BOOLEAN,
     separate_loop   : BOOLEAN,
     hybrid_step     : Nat \ {0},         \* most outer loops when separate_loop
     out_wfc_lcao    : BOOLEAN]

ASSUME MaxIonAssumption == MaxIon \in Nat \ {0}

ASSUME InputsAssumption ==
    \A i \in Inputs :
        /\ i \in Settings
        /\ i.HSolverErrors # {} /\ i.EnergyCriterion # {}
        /\ i.basis_type = "lcao" => i.HSolverErrors = {0}
        /\ i.basis_type = "pw" =>
             {i.MIXING_DMR, i.dft_plus_u, i.cal_exx, i.out_wfc_lcao} = {FALSE}

VARIABLES
    inp,            \* the settings
    pc,             \* the call of runner that comes next
    istep,          \* ionic step, from 1
    iter,           \* iteration of the loop
    firstscf,
    drho,
    hsolver_error,
    conv_elec,
    rho,            \* charge->rho
    rho_save,       \* charge->rho_save
    pot,            \* the potential: the density and functional it is made of
    wfc_file,       \* the iteration whose wavefunctions were written last
    mixing_restart_step,
    mixing_restart_count,
    rho_mdata, dmr_mdata,
    coef,           \* slot -> the vector the coefficient was computed for
    dmr_out,        \* the last mix_dmr: pairs of a vector, and of the vector
                    \* its coefficient was computed for
    U,
    xc,             \* the functional: "semilocal" or "hybrid"
    two_level_step,
    mix_DMk         \* Mix_Matrix of the exact exchange density matrix

loopVars == <<iter, firstscf, drho, hsolver_error, conv_elec>>
rhoVars  == <<rho, rho_save, pot>>
mixVars  == <<mixing_restart_step, mixing_restart_count, rho_mdata,
              dmr_mdata, coef, dmr_out>>
exxVars  == <<xc, two_level_step, mix_DMk>>
vars == <<inp, pc, istep, loopVars, rhoVars, wfc_file, mixVars, U, exxVars>>

-----------------------------------------------------------------------------
Density(kind, i) == [kind |-> kind, iter |-> i]
Guess  == Density("guess", 0)
Potential(density, functional) == [rho |-> density, xc |-> functional]

\* The iteration, named uniquely over the whole calculation.
ThisIteration == [istep |-> istep, loop |-> two_level_step, iter |-> iter]
NoIteration   == [istep |-> 0, loop |-> 0, iter |-> 0]

MixingRestartOn == inp.MIXING_RESTART > 0

\* A Mixing_Data before init_mixing_data.
Unallocated == Resize(0)

\* The coefficients of a Broyden_Mixing that has computed none.
NoCoef == [s \in 0 .. inp.mixing_ndim |-> NoVector]

\* DFTU::u_converged.
u_converged == U = inp.U0

Init ==
    /\ inp \in Inputs
    /\ pc = "before_scf"
    /\ istep = 1
    /\ iter = 0
    /\ firstscf = TRUE
    /\ drho = 0
    /\ hsolver_error = 0
    /\ conv_elec = FALSE
    /\ rho = Guess
    /\ rho_save = Guess
    /\ pot = Potential(Guess, "semilocal")
    /\ wfc_file = NoIteration
    /\ mixing_restart_step = 0
    /\ mixing_restart_count = 0
    /\ rho_mdata = Unallocated
    /\ dmr_mdata = Unallocated
    /\ coef = NoCoef
    /\ dmr_out = {}
    /\ U = IF inp.uramping > 0 THEN 0 ELSE inp.U0
    /\ xc = IF inp.cal_exx THEN "hybrid" ELSE "semilocal"
    /\ two_level_step = 0
    /\ mix_DMk = [mixing |-> "null", separate_loop |-> FALSE,
                  allocated |-> FALSE, used |-> "none"]

-----------------------------------------------------------------------------
(* Mix_Matrix.  Its mixing object is its own ("plain"), or the one of       *)
(* Charge_Mixing: "live", or "dangling" once init_mixing has deleted it.   *)

\* Mutant: only this call of init decides.
SetMixingOfThisCall(mdm, mixing_in) ==
    [mdm EXCEPT !.mixing = mixing_in, !.separate_loop = (mixing_in = "null")]

\* Mix_DMk_2D::set_mixing and Mix_Matrix::init.
SetMixing(mdm, mixing_in) ==
    [mdm EXCEPT !.mixing = mixing_in,
                !.separate_loop = @ \/ mixing_in = "null"]

\* Mix_Matrix::mix.
MixMatrix(mdm, flag_restart) ==
    [mdm EXCEPT !.mixing    = IF mdm.separate_loop THEN "null" ELSE @,
                !.used      = IF mdm.separate_loop THEN "plain" ELSE mdm.mixing,
                !.allocated = @ \/ flag_restart]

\* Charge_Mixing::init_mixing deletes the object others may point to.
Deleted(mdm) == [mdm EXCEPT !.mixing = IF @ = "live" THEN "dangling" ELSE @]

\* Exx_LRI_Interface::exx_beforescf.  Charge_Mixing has no mixing object
\* before the first init_mixing.
ExxBeforeScf ==
    IF inp.cal_exx
    THEN /\ xc' = "semilocal"
         /\ two_level_step' = 0
         /\ mix_DMk' = SetMixing(mix_DMk, IF inp.separate_loop \/ istep = 1
                                          THEN "null" ELSE "live")
    ELSE UNCHANGED exxVars

-----------------------------------------------------------------------------
\* before_scf and the head of runner: the extrapolated density, the
\* potential made of it, and the flags of the loop.
BeforeScf ==
    /\ pc = "before_scf"
    /\ ExxBeforeScf
    /\ rho' = Guess
    /\ pot' = Potential(Guess, xc')
    /\ firstscf' = TRUE
    /\ conv_elec' = FALSE
    /\ iter' = 1
    /\ pc' = "iter_init"
    /\ UNCHANGED <<inp, istep, drho, hsolver_error, rho_save, wfc_file,
                   mixVars, U>>

\* Mutant: the step is added without looking at the target.
UrampingPastTarget == U' = IF U = inp.U0 THEN U ELSE U + inp.uramping

\* DFTU::uramping_update.
UrampingUpdate ==
    U' = IF inp.uramping = 0 THEN U
         ELSE IF U + inp.uramping < inp.U0 THEN U + inp.uramping ELSE inp.U0

-----------------------------------------------------------------------------
\* Charge_Mixing::init_mixing.
InitMixing ==
    /\ rho_mdata' = Resize(inp.mixing_ndim + 1)
    /\ coef' = NoCoef

\* Exx_LRI_Interface::exx_eachiterinit: H_exx follows every iteration of the
\* second loop when the loops are not separate.
ExxEachIterInit(mdm) ==
    IF inp.cal_exx /\ ~inp.separate_loop /\ two_level_step > 0
    THEN MixMatrix(mdm, iter = 1) ELSE mdm

\* Mutant: the count of the previous loop is kept.
FirstIterInitKeepingCount ==
    /\ iter = 1
    /\ InitMixing
    /\ mixing_restart_step' = inp.SCF_NMAX + 1
    /\ mix_DMk' = ExxEachIterInit(Deleted(mix_DMk))
    /\ UNCHANGED <<mixing_restart_count, dmr_mdata, U>>

\* iter_init of the first iteration of a loop.
FirstIterInit ==
    /\ iter = 1
    /\ InitMixing
    /\ mixing_restart_step' = inp.SCF_NMAX + 1
    /\ mixing_restart_count' = IF inp.basis_type = "lcao" THEN 0
                               ELSE mixing_restart_count
    /\ mix_DMk' = ExxEachIterInit(Deleted(mix_DMk))
    /\ UNCHANGED <<dmr_mdata, U>>

\* iter_init of an iteration that restarts the mixing.
RestartIterInit ==
    /\ iter # 1 /\ iter = mixing_restart_step /\ MixingRestartOn
    /\ InitMixing
    /\ IF inp.basis_type = "lcao"
       THEN /\ mixing_restart_count' = mixing_restart_count + 1
            /\ IF inp.dft_plus_u THEN UrampingUpdate ELSE U' = U
            /\ mixing_restart_step' =
                 IF inp.dft_plus_u /\ inp.uramping > 0 /\ U' # inp.U0
                 THEN inp.SCF_NMAX + 1 ELSE mixing_restart_step
            /\ dmr_mdata' = IF inp.MIXING_DMR THEN Resize(inp.mixing_ndim + 1)
                            ELSE dmr_mdata
       ELSE UNCHANGED <<mixing_restart_count, U, mixing_restart_step, dmr_mdata>>
    /\ mix_DMk' = ExxEachIterInit(Deleted(mix_DMk))

\* iter_init of any other iteration.
PlainIterInit ==
    /\ iter # 1 /\ ~(iter = mixing_restart_step /\ MixingRestartOn)
    /\ mix_DMk' = ExxEachIterInit(mix_DMk)
    /\ UNCHANGED <<rho_mdata, coef, mixing_restart_step, mixing_restart_count,
                   dmr_mdata, U>>

IterInit ==
    /\ pc = "iter_init"
    /\ FirstIterInit \/ RestartIterInit \/ PlainIterInit
    /\ rho_save' = IF inp.basis_type = "pw" THEN rho ELSE rho_save
    /\ pc' = "hamilt2density"
    /\ UNCHANGED <<inp, istep, loopVars, rho, pot, wfc_file, dmr_out, xc,
                   two_level_step>>

-----------------------------------------------------------------------------
\* Mutant: the density is saved before every diagonalization.
SolveSaving ==
    /\ rho' = Density("out", iter)
    /\ rho_save' = rho
    /\ drho' \in inp.Drho

\* hamilt2density and get_drho: the potential gives a new density.
Solve ==
    /\ rho' = Density("out", iter)
    /\ rho_save' = IF inp.basis_type = "lcao" THEN rho ELSE rho_save
    /\ drho' \in inp.Drho

\* In the first iteration a diagonalization less precise than the density
\* asks for is done again.
Hamilt2density ==
    /\ pc = "hamilt2density"
    /\ Solve
    /\ firstscf' = FALSE
    /\ \E e \in (IF firstscf THEN inp.HSolverErrors ELSE {0}) :
         /\ hsolver_error' = e
         /\ pc' = IF e > drho' THEN "hamilt2density_again" ELSE "mixing"
    /\ UNCHANGED <<inp, istep, iter, conv_elec, pot, wfc_file, mixVars, U,
                   exxVars>>

Hamilt2densityAgain ==
    /\ pc = "hamilt2density_again"
    /\ Solve
    /\ hsolver_error' \in inp.HSolverErrors
    /\ pc' = "mixing"
    /\ UNCHANGED <<inp, istep, iter, firstscf, conv_elec, pot, wfc_file,
                   mixVars, U, exxVars>>

-----------------------------------------------------------------------------
\* Mutant: a restart does not exclude a later one.
RestartStepAgain ==
    IF MixingRestartOn /\ drho <= inp.MIXING_RESTART THEN iter + 1
    ELSE mixing_restart_step

\* The restart the density asks for, unless the loop had one.
RestartStep ==
    IF MixingRestartOn /\ drho <= inp.MIXING_RESTART /\ mixing_restart_step > iter
    THEN iter + 1 ELSE mixing_restart_step

\* Mutant: the restart iteration may be the converged one.
DensityConvergedOnRestart(step) ==
    drho < inp.scf_thr /\ (inp.dft_plus_u => u_converged)

DensityConverged(step) ==
    /\ drho < inp.scf_thr
    /\ ~(MixingRestartOn /\ iter = step)
    /\ inp.dft_plus_u => u_converged

\* Mutant: the output is kept one iteration late.
KeepForRestartLate(step) ==
    MixingRestartOn /\ iter = step /\ drho <= inp.MIXING_RESTART

\* The output density is the input of the restart.
KeepForRestart(step) ==
    MixingRestartOn /\ iter = step - 1 /\ drho <= inp.MIXING_RESTART

\* Charge_Mixing::mix_rho; the coefficients go with the vectors of the ring.
MixRho ==
    /\ rho_mdata' = Push(rho_mdata, iter)
    /\ coef' = [s \in DOMAIN coef |-> IF s \in UsedSlots(rho_mdata')
                                      THEN rho_mdata'.data[s] ELSE coef[s]]
    /\ rho' = Density("mixed", iter)
    /\ rho_save' = rho

\* The middle of runner: is the density converged, and if not, mix it.
Mixing ==
    /\ pc = "mixing"
    /\ mixing_restart_step' = RestartStep
    /\ conv_elec' = DensityConverged(mixing_restart_step')
    /\ IF drho < hsolver_error \/ conv_elec' \/ KeepForRestart(mixing_restart_step')
       THEN UNCHANGED <<rho, rho_save, rho_mdata, coef>>
       ELSE MixRho
    /\ pc' = "update_pot"
    /\ UNCHANGED <<inp, istep, iter, firstscf, drho, hsolver_error, pot, wfc_file, mixing_restart_count, dmr_mdata, dmr_out, U,
                   exxVars>>

-----------------------------------------------------------------------------
\* Mutant: a loop that does not converge writes nothing.
LastIterationConvergedOnly == conv_elec

\* What update_pot takes for the last iteration.
LastIteration == conv_elec \/ iter = inp.SCF_NMAX

\* update_pot, which also writes the wavefunctions of the last iteration.
\* Both update_from_charge and cal_converged renew the potential.
UpdatePot ==
    /\ pc = "update_pot"
    /\ wfc_file' = IF inp.out_wfc_lcao /\ LastIteration
                   THEN ThisIteration ELSE wfc_file
    /\ pot' = Potential(rho, xc)
    /\ pc' = "iter_finish"
    /\ UNCHANGED <<inp, istep, loopVars, rho, rho_save, mixVars, U, exxVars>>

-----------------------------------------------------------------------------
\* Charge_Mixing::mix_dmr, with the coefficients mix_rho left behind.
MixDmr ==
    /\ dmr_mdata' = Push(dmr_mdata, iter)
    /\ dmr_out' = {<<dmr_mdata'.data[s], coef[s]>> : s \in UsedSlots(dmr_mdata')}

\* exx_after_converge: is the exact exchange converged too?  ediff_small
\* compares the energies of this outer loop and the last.
ExxFinished(ediff_small) ==
    IF inp.separate_loop
    THEN \/ two_level_step = inp.hybrid_step
         \/ two_level_step # 0 /\ (iter = 1 \/ ediff_small)
    ELSE two_level_step > 0

\* Mutant: the outer loops are not counted.
ExxNextLoopUncounted ==
    /\ conv_elec' = FALSE
    /\ iter' = 0
    /\ xc' = "hybrid"
    /\ two_level_step' = IF two_level_step = 0 THEN 1 ELSE two_level_step
    /\ mix_DMk' = IF inp.separate_loop THEN MixMatrix(mix_DMk, two_level_step = 0)
                  ELSE mix_DMk

\* Mutant: the functional stays the semilocal one.
ExxNextLoopSemilocal ==
    /\ conv_elec' = FALSE
    /\ iter' = 0
    /\ xc' = xc
    /\ two_level_step' = two_level_step + 1
    /\ mix_DMk' = IF inp.separate_loop THEN MixMatrix(mix_DMk, two_level_step = 0)
                  ELSE mix_DMk

\* exx_after_converge when it asks for another loop: iter is set back.
ExxNextLoop ==
    /\ conv_elec' = FALSE
    /\ iter' = 0
    /\ xc' = "hybrid"
    /\ two_level_step' = two_level_step + 1
    /\ mix_DMk' = IF inp.separate_loop THEN MixMatrix(mix_DMk, two_level_step = 0)
                  ELSE mix_DMk

\* iter_finish: the energy criterion, the density matrix, the exact exchange.
IterFinish ==
    /\ pc = "iter_finish"
    /\ IF MixingRestartOn /\ inp.MIXING_DMR /\ mixing_restart_count > 0
       THEN MixDmr ELSE UNCHANGED <<dmr_mdata, dmr_out>>
    /\ \E energy_small, ediff_small \in inp.EnergyCriterion :
         LET converged == conv_elec \/ (iter # 1 /\ energy_small)
         IN  IF inp.cal_exx /\ converged /\ ~ExxFinished(ediff_small)
             THEN ExxNextLoop
             ELSE conv_elec' = converged /\ UNCHANGED <<iter, exxVars>>
    /\ pc' = "check"
    /\ UNCHANGED <<inp, istep, firstscf, drho, hsolver_error, rhoVars, wfc_file,
                   mixing_restart_step, mixing_restart_count, rho_mdata, coef,
                   U>>

\* The end of the body of the loop.
CheckConvergence ==
    /\ pc = "check"
    /\ IF conv_elec \/ iter >= inp.SCF_NMAX
       THEN pc' = "after_scf" /\ UNCHANGED iter
       ELSE pc' = "iter_init" /\ iter' = iter + 1
    /\ UNCHANGED <<inp, istep, firstscf, drho, hsolver_error, conv_elec, rhoVars,
                   wfc_file, mixVars, U, exxVars>>

\* after_scf, the forces, and the move of the ions.
AfterScf ==
    /\ pc = "after_scf"
    /\ IF istep < MaxIon
       THEN pc' = "before_scf" /\ istep' = istep + 1
       ELSE pc' = "end" /\ UNCHANGED istep
    /\ UNCHANGED <<inp, loopVars, rhoVars, wfc_file, mixVars, U, exxVars>>

Finished == pc = "end" /\ UNCHANGED vars

Next ==
    \/ BeforeScf \/ IterInit \/ Hamilt2density \/ Hamilt2densityAgain
    \/ Mixing \/ UpdatePot \/ IterFinish \/ CheckConvergence \/ AfterScf
    \/ Finished

\* The program is sequential and none of these calls waits for anything.
Spec == Init /\ [][Next]_vars /\ WF_vars(Next)

-----------------------------------------------------------------------------
Rings == [ndim_tot : {0, inp.mixing_ndim + 1}, start : -1 .. inp.mixing_ndim,
          ndim_use : 0 .. inp.mixing_ndim + 1, ndim_history : 0 .. inp.SCF_NMAX,
          data : UNION {[0 .. n - 1 -> 0 .. inp.SCF_NMAX] :
                            n \in {0, inp.mixing_ndim + 1}}]
Densities   == [kind : {"guess", "out", "mixed"}, iter : 0 .. inp.SCF_NMAX]
Functionals == {"semilocal", "hybrid"}
Iterations  == [istep : 0 .. MaxIon, loop : 0 .. inp.hybrid_step,
                iter : 0 .. inp.SCF_NMAX]
MixingObjects == {"null", "live", "dangling"}

\* The type invariant; U stays between 0 and its target.
TypeOK ==
    /\ pc \in {"before_scf", "iter_init", "hamilt2density",
               "hamilt2density_again", "mixing", "update_pot", "iter_finish",
               "check", "after_scf", "end"}
    /\ istep \in 1 .. MaxIon
    /\ iter \in 0 .. inp.SCF_NMAX
    /\ {firstscf, conv_elec} \subseteq BOOLEAN
    /\ drho \in inp.Drho \cup {0}
    /\ hsolver_error \in inp.HSolverErrors \cup {0}
    /\ {rho, rho_save} \subseteq Densities
    /\ pot \in [rho : Densities, xc : Functionals]
    /\ wfc_file \in Iterations
    /\ mixing_restart_step \in 0 .. inp.SCF_NMAX + 1
    /\ mixing_restart_count \in 0 .. inp.SCF_NMAX
    /\ {rho_mdata, dmr_mdata} \subseteq Rings
    /\ coef \in [0 .. inp.mixing_ndim -> 0 .. inp.SCF_NMAX]
    /\ dmr_out \subseteq (0 .. inp.SCF_NMAX) \X (0 .. inp.SCF_NMAX)
    /\ U \in 0 .. inp.U0
    /\ xc \in Functionals
    /\ two_level_step \in 0 .. inp.hybrid_step
    /\ mix_DMk \in [mixing : MixingObjects, separate_loop : BOOLEAN,
                    allocated : BOOLEAN,
                    used : MixingObjects \cup {"none", "plain"}]

-----------------------------------------------------------------------------
(* What the loop must do. *)

\* Every calculation ends, although exx_after_converge sets iter back to 0.
Termination == <>(pc = "end")

\* The ramps U needs to reach its target, one restart at least.
Restarts == IF inp.dft_plus_u /\ inp.uramping > 0
            THEN CHOOSE k \in 1 .. inp.U0 + 1 :
                   /\ k * inp.uramping >= inp.U0
                   /\ \A j \in 1 .. k - 1 : j * inp.uramping < inp.U0
            ELSE 1

\* A loop restarts the mixing once, with U-ramping once for each ramp, although
\* each restart may arm the next one.
RestartBound == mixing_restart_count <= Restarts

\* The input of the iteration that restarts the mixing is the output of the
\* previous one, unmixed, and a new mixing begins there.
RestartFromOutput ==
    [][ (/\ pc = "iter_init" /\ pc' # pc
          /\ iter = mixing_restart_step /\ MixingRestartOn)
        => rho = Density("out", iter - 1) /\ rho_mdata'.ndim_history = 0 ]_vars

\* The residual that get_drho measures and mix_rho mixes is that of the
\* density in the potential, also when the diagonalization was repeated.
ResidualOfPotential ==
    pc = "mixing" => /\ pot.rho = rho_save
                     /\ rho = Density("out", iter)
                     /\ pot.xc = xc \/ iter = 1

\* drho decides convergence only for an input that was mixed: the small drho
\* of a restart, whose input is the last output, never ends the loop.
ConvergedOnMixedInput ==
    [][ (pc = "mixing" /\ conv_elec' /\ iter > 1 /\ inp.basis_type = "lcao")
        => rho_save.kind = "mixed" ]_vars

\* In an iteration that mixed the density, mix_dmr gives each density matrix
\* the coefficient computed for the density of the same iteration.
DmrMixedAlike ==
    [][ (pc = "iter_finish" /\ dmr_mdata' # dmr_mdata /\ rho.kind = "mixed")
        => \A pair \in dmr_out' : pair[1] = pair[2] ]_vars

\* A loop that reports convergence reached the target U.
ConvergedAtTargetU ==
    pc = "after_scf" /\ conv_elec /\ inp.dft_plus_u => u_converged

\* A loop that reports convergence of a hybrid functional ran with it, and the
\* potential left behind is that of the last density and of the functional.
ConvergedWithHybrid ==
    pc = "after_scf" /\ conv_elec /\ inp.cal_exx =>
        two_level_step > 0 /\ pot = Potential(rho, "hybrid")

\* The density matrix of the exact exchange is mixed by an object that exists,
\* into storage that was allocated.
ExxMixingValid ==
    /\ mix_DMk.used # "dangling"
    /\ mix_DMk.used # "none" => mix_DMk.allocated

\* The wavefunctions on disk are those of the last iteration.
WfcOfLastIteration ==
    pc = "after_scf" /\ inp.out_wfc_lcao => wfc_file = ThisIteration
=============================================================================
