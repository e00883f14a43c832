----------------------------- MODULE MCScfLoop -----------------------------
(***************************************************************************)
(* Settings for checking ScfLoop.  drho is below scf_thr, equal to it, or  *)
(* above it; mixing_restart equals scf_thr.                                *)
(***************************************************************************)
EXTENDS ScfLoop

Plain == [basis_type |-> "lcao", SCF_NMAX |-> 4, mixing_ndim |-> 1,
          Drho |-> 0 .. 2, HSolverErrors |-> {0}, scf_thr |-> 1,
          EnergyCriterion |-> {FALSE},
          MIXING_RESTART |-> 0, MIXING_DMR |-> FALSE,
          dft_plus_u |-> FALSE, U0 |-> 0, uramping |-> 0,
          cal_exx |-> FALSE, separate_loop |-> TRUE, hybrid_step |-> 1,
          out_wfc_lcao |-> FALSE]

\* The small instance of U-ramping: two ramps, density matrix mixing.
SmallU == [Plain EXCEPT !.MIXING_RESTART = 1, !.MIXING_DMR = TRUE,
                        !.dft_plus_u = TRUE, !.U0 = 3, !.uramping = 2,
                        !.out_wfc_lcao = TRUE]

\* Long enough for both ramps and for the rings to wrap around.
LongU == [SmallU EXCEPT !.SCF_NMAX = 8, !.mixing_ndim = 2]

\* Exact exchange renewed in every iteration of the second loop.
Joint == [Plain EXCEPT !.cal_exx = TRUE, !.separate_loop = FALSE]

\* Exact exchange renewed between loops, of which there are up to four.
Separate == [Plain EXCEPT !.cal_exx = TRUE, !.hybrid_step = 3,
                          !.out_wfc_lcao = TRUE]

\* Plane waves, with a first diagonalization that may be repeated.
PlaneWaves == [Plain EXCEPT !.basis_type = "pw", !.HSolverErrors = 0 .. 2,
                            !.MIXING_RESTART = 1]

WithEnergy(input) == [input EXCEPT !.EnergyCriterion = BOOLEAN]

\* Plain is also the loop without any of these; the energy criterion goes
\* with the others where no file or U depends on it.
AllInputs == {Plain, LongU, Joint, Separate, PlaneWaves,
              WithEnergy(Plain), WithEnergy(Joint), WithEnergy(PlaneWaves),
              WithEnergy([Separate EXCEPT !.out_wfc_lcao = FALSE])}

\* This shows a disagreement.
UWithEnergy == {WithEnergy(SmallU)}
=============================================================================
