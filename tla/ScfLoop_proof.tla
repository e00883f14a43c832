--------------------------- MODULE ScfLoop_proof ---------------------------
(***************************************************************************)
(* Proofs about ScfLoop, for any settings that satisfy InputsAssumption    *)
(* and any number of ionic steps.                                          *)
(***************************************************************************)
EXTENDS ScfLoop, TLAPS

\* The calls of runner between before_scf and after_scf
Solving  == {"hamilt2density", "hamilt2density_again", "mixing"}
Mixed    == {"update_pot", "iter_finish"}
Calls    == {"before_scf", "iter_init", "check", "after_scf", "end"}
              \cup Solving \cup Mixed

lcao == inp.basis_type = "lcao"
pw   == inp.basis_type = "pw"

\* iter_init of this loop has been called: init_mixing was.
Begun == \/ pc \in Solving \cup Mixed
         \/ pc \in {"check", "after_scf"} /\ iter > 0
         \/ pc = "iter_init" /\ iter > 1

\* The next iteration restarts the mixing.
RestartNext == MixingRestartOn /\ mixing_restart_step = iter + 1

\* This iteration does, or did.
RestartNow == MixingRestartOn /\ mixing_restart_step = iter

ControlInv ==
    /\ inp \in Inputs
    /\ pc \in Calls
    /\ istep \in 1 .. MaxIon
    /\ iter \in 0 .. inp.SCF_NMAX
    /\ firstscf \in BOOLEAN /\ conv_elec \in BOOLEAN
    /\ drho \in inp.Drho \cup {0}
    /\ hsolver_error \in inp.HSolverErrors \cup {0}
    /\ pc \notin {"before_scf", "check", "end"} => iter > 0
    /\ pc = "check" /\ iter = 0 => ~conv_elec
    /\ pc \in Solving \cup {"iter_init"} => ~conv_elec
    /\ lcao => pc # "hamilt2density_again"

\* The density the potential is made of, and the functional
DensityInv ==
    /\ rho \in Densities /\ rho_save \in Densities
    /\ pot \in [rho : Densities, xc : Functionals]
    /\ xc \in Functionals
    /\ pc \in {"iter_init", "hamilt2density"} => pot.rho = rho
    /\ pc = "hamilt2density" /\ pw => rho_save = rho
    /\ pc \in {"hamilt2density_again", "mixing"} =>
           pot.rho = rho_save /\ rho = Density("out", iter)
    /\ pc \in {"iter_init"} \cup Solving => pot.xc = xc \/ iter = 1
    /\ pc \in {"iter_finish", "check", "after_scf"} =>
           pot.rho = rho /\ (pot.xc = xc \/ iter = 0)

\* Which density an iteration begins and ends with: a mixture, except where
\* the mixing restarts
InputInv ==
    /\ mixing_restart_step \in {0} \cup 2 .. inp.SCF_NMAX + 1
    /\ U \in 0 .. inp.U0
    /\ Begun /\ pc \in {"iter_init"} \cup Solving =>
           mixing_restart_step <= iter \/ mixing_restart_step = inp.SCF_NMAX + 1
    /\ pc \in Mixed \cup {"check"} /\ iter > 0 =>
           mixing_restart_step <= iter + 1 \/ mixing_restart_step = inp.SCF_NMAX + 1
    /\ pc \in Mixed \cup {"check"} /\ iter \in 1 .. inp.SCF_NMAX - 1 /\ RestartNext =>
           rho = Density("out", iter)
    /\ pc = "iter_init" /\ RestartNow => rho = Density("out", iter - 1)
    /\ lcao =>
        /\ pc \in Mixed \cup {"check"} /\ iter > 0 =>
               rho.kind = "mixed" \/ conv_elec \/ RestartNext
        /\ pc = "iter_init" /\ iter > 1 => rho.kind = "mixed" \/ RestartNow
        /\ pc = "hamilt2density" /\ iter > 1 =>
               rho.kind = "mixed" \/ RestartNow \/ (inp.dft_plus_u /\ ~u_converged)
        /\ pc = "mixing" /\ iter > 1 =>
               rho_save.kind = "mixed" \/ RestartNow \/ (inp.dft_plus_u /\ ~u_converged)

\* A restart still to come in this loop
RestartAhead == IF pc = "iter_init" THEN mixing_restart_step >= iter
                                    ELSE mixing_restart_step > iter

Ramping == inp.dft_plus_u /\ inp.uramping > 0

\* The number of restarts of this loop: while one is to come, there was none
\* or U has made as many steps and is below its target.
RestartInv ==
    /\ mixing_restart_count \in 0 .. inp.SCF_NMAX
    /\ mixing_restart_count <= Restarts
    /\ mixing_restart_count > 0 => lcao /\ MixingRestartOn
    /\ Begun => mixing_restart_count < iter
    /\ Begun /\ pc = "iter_init" => mixing_restart_count + 1 < iter
    /\ Begun /\ RestartAhead =>
           \/ mixing_restart_count = 0
           \/ /\ Ramping /\ U < inp.U0
              /\ mixing_restart_count * inp.uramping <= U

\* A Mixing_Data of n vectors
RingOf(n) == [ndim_tot : {n}, start : -1 .. n - 1, ndim_use : 0 .. n,
              ndim_history : 0 .. inp.SCF_NMAX, data : [0 .. n - 1 -> 0 .. inp.SCF_NMAX]]

\* mix_dmr is called.
DmrOn == inp.MIXING_DMR /\ mixing_restart_count > 0

RingInv ==
    /\ rho_mdata \in RingOf(0) \cup RingOf(inp.mixing_ndim + 1)
    /\ dmr_mdata \in RingOf(0) \cup RingOf(inp.mixing_ndim + 1)
    /\ coef \in [0 .. inp.mixing_ndim -> 0 .. inp.SCF_NMAX]
    /\ dmr_out \subseteq (0 .. inp.SCF_NMAX) \X (0 .. inp.SCF_NMAX)
    /\ Begun =>
        /\ rho_mdata.ndim_tot = inp.mixing_ndim + 1
        /\ rho_mdata.ndim_history <= iter
        /\ pc \in {"iter_init"} \cup Solving => rho_mdata.ndim_history < iter
    /\ Begun /\ DmrOn =>
        /\ dmr_mdata.ndim_tot = inp.mixing_ndim + 1
        /\ dmr_mdata.ndim_history <= iter
        /\ pc \in {"iter_init"} \cup Solving \cup Mixed => dmr_mdata.ndim_history < iter

\* The two rings have the vectors of the same iterations.
AlignInv ==
    /\ pc \in Mixed /\ rho.kind = "mixed" =>
           \A s \in UsedSlots(rho_mdata) : coef[s] = rho_mdata.data[s]
    /\ DmrOn =>
        /\ pc \in Solving => rho_mdata = dmr_mdata
        /\ pc \in Mixed /\ rho.kind = "mixed" => rho_mdata = Push(dmr_mdata, iter)
        /\ pc = "check" /\ iter > 0 /\ ~conv_elec /\ ~RestartNext => rho_mdata = dmr_mdata
        /\ pc = "iter_init" /\ iter > 1 /\ ~RestartNow => rho_mdata = dmr_mdata

\* The states of the Mix_Matrix of the exact exchange: what it mixed with was
\* never the object of Charge_Mixing.
Matrices == [mixing : MixingObjects, separate_loop : BOOLEAN,
             allocated : BOOLEAN, used : {"none", "plain"}]

\* The loops of the exact exchange and the mixing of its density matrix
ExxInv ==
    /\ two_level_step \in 0 .. inp.hybrid_step
    /\ mix_DMk \in Matrices
    /\ mix_DMk.used = "plain" => mix_DMk.allocated
    /\ ~inp.cal_exx => two_level_step = 0
    /\ inp.cal_exx =>
        /\ pc # "before_scf" \/ istep > 1 => mix_DMk.separate_loop
        /\ pc \notin {"before_scf", "end"} => (two_level_step > 0 <=> xc = "hybrid")
        /\ two_level_step > 0 /\ (inp.separate_loop \/ ~(iter = 0 \/ (pc = "iter_init" /\ iter = 1)))
               => mix_DMk.allocated
        /\ pc \in {"check", "after_scf"} /\ conv_elec => two_level_step > 0

\* What a loop that ends without the energy criterion leaves
LastInv ==
    /\ wfc_file \in Iterations
    /\ pc = "after_scf" => LastIteration
    /\ inp.EnergyCriterion = {FALSE} =>
        /\ /\ inp.out_wfc_lcao /\ LastIteration
           /\ pc \in {"iter_finish", "check", "after_scf"}
           => wfc_file = ThisIteration
        /\ inp.dft_plus_u /\ conv_elec /\ pc \in Mixed \cup {"check", "after_scf"} =>
               u_converged

IInv == /\ ControlInv /\ DensityInv /\ InputInv /\ RestartInv /\ RingInv /\ AlignInv
        /\ ExxInv /\ LastInv

-----------------------------------------------------------------------------
(* Facts about the settings and the operators *)

LEMMA InputFacts ==
    ASSUME inp \in Inputs
    PROVE  /\ inp.basis_type \in {"lcao", "pw"}
           /\ inp.SCF_NMAX \in Nat \ {0} /\ inp.mixing_ndim \in Nat \ {0}
           /\ inp.Drho \subseteq Nat /\ inp.HSolverErrors \subseteq Nat
           /\ inp.scf_thr \in Nat /\ inp.EnergyCriterion \subseteq BOOLEAN
           /\ inp.MIXING_RESTART \in Nat /\ inp.MIXING_DMR \in BOOLEAN
           /\ inp.dft_plus_u \in BOOLEAN /\ inp.U0 \in Nat /\ inp.uramping \in Nat
           /\ inp.cal_exx \in BOOLEAN /\ inp.separate_loop \in BOOLEAN
           /\ inp.hybrid_step \in Nat \ {0} /\ inp.out_wfc_lcao \in BOOLEAN
           /\ lcao => inp.HSolverErrors = {0}
           /\ pw => /\ ~inp.MIXING_DMR /\ ~inp.dft_plus_u
                    /\ ~inp.cal_exx /\ ~inp.out_wfc_lcao
           /\ lcao <=> ~pw
           /\ MaxIon \in Nat \ {0}
  <1>1. inp \in Settings
    BY InputsAssumption
  <1>2. /\ lcao => inp.HSolverErrors = {0}
        /\ pw => {inp.MIXING_DMR, inp.dft_plus_u, inp.cal_exx, inp.out_wfc_lcao} = {FALSE}
    BY InputsAssumption DEF lcao, pw
  <1>3. inp.basis_type \in {"lcao", "pw"} /\ (lcao <=> ~pw)
    BY <1>1 DEF Settings, lcao, pw
  <1>4. pw => ~inp.MIXING_DMR /\ ~inp.dft_plus_u /\ ~inp.cal_exx /\ ~inp.out_wfc_lcao
    BY <1>2
  <1>. QED BY <1>1, <1>2, <1>3, <1>4, MaxIonAssumption DEF Settings

\* Mixing_Data::push stores the vector in one slot of the ring.
LEMMA PushFacts ==
    ASSUME NEW n \in Nat \ {0}, NEW max \in Nat, NEW v \in 0 .. max, NEW m,
           m \in [ndim_tot : {n}, start : -1 .. n - 1, ndim_use : 0 .. n,
                  ndim_history : Nat, data : [0 .. n - 1 -> 0 .. max]]
    PROVE  /\ Push(m, v).ndim_tot = n
           /\ Push(m, v).start \in -1 .. n - 1
           /\ Push(m, v).ndim_use \in 0 .. n
           /\ Push(m, v).ndim_history = m.ndim_history + 1
           /\ Push(m, v).data \in [0 .. n - 1 -> 0 .. max]
           /\ Push(m, v) = [ndim_tot |-> Push(m, v).ndim_tot, start |-> Push(m, v).start,
                             ndim_use |-> Push(m, v).ndim_use,
                             ndim_history |-> Push(m, v).ndim_history,
                             data |-> Push(m, v).data]
  <1>1. (m.start + 1) % n \in 0 .. n - 1
    <2>1. m.start + 1 \in Int
      OBVIOUS
    <2>. QED BY <2>1
  <1>. DEFINE slot == (m.start + 1) % n
  <1>2. /\ m.ndim_tot = n /\ m.ndim_use \in 0 .. n /\ m.ndim_history \in Nat
        /\ m.data \in [0 .. n - 1 -> 0 .. max]
    OBVIOUS
  <1>3. Push(m, v) = [ndim_tot     |-> n,
                      start        |-> slot,
                      ndim_use     |-> IF m.ndim_use < n THEN m.ndim_use + 1 ELSE n,
                      ndim_history |-> m.ndim_history + 1,
                      data         |-> [m.data EXCEPT ![slot] = v]]
    BY <1>2 DEF Push
  <1>4. slot \in 0 .. n - 1
    BY <1>1
  <1>. HIDE DEF slot
  <1>5. [m.data EXCEPT ![slot] = v] \in [0 .. n - 1 -> 0 .. max]
    BY <1>2, <1>4
  <1>. QED BY <1>2, <1>3, <1>4, <1>5

\* Mixing_Data::resize, of n vectors or of none
LEMMA ResizeFacts ==
    ASSUME NEW n \in Nat, inp.SCF_NMAX \in Nat
    PROVE  Resize(n) \in RingOf(n) /\ Resize(n).ndim_tot = n /\ Resize(n).ndim_history = 0
  BY DEF Resize, RingOf, NoVector

\* Quotient and remainder
LEMMA Division ==
    ASSUME NEW a \in Nat, NEW b \in Nat \ {0}
    PROVE  /\ a \div b \in Nat
           /\ a % b \in 0 .. b - 1
           /\ a = (b * (a \div b)) + (a % b)
  OBVIOUS

\* Multiples are ordered as their factors.
LEMMA Factors ==
    ASSUME NEW r \in Nat \ {0}, NEW a \in Int, NEW b \in Int, a * r < b * r
    PROVE  a < b
  <1>. SUFFICES ASSUME b <= a PROVE FALSE
    OBVIOUS
  <1>1. PICK d \in Nat : a = b + d
    BY a - b \in Nat
  <1>2. a * r = (b * r) + (d * r) /\ d * r >= 0
    BY <1>1
  <1>. QED BY <1>2

\* The number of ramps: as many steps of uramping as reach U0, and no fewer
LEMMA RestartsFacts ==
    ASSUME inp \in Inputs
    PROVE  /\ Restarts \in Nat \ {0}
           /\ Ramping => \A c \in Nat : c * inp.uramping < inp.U0 => c < Restarts
  <1>1. CASE ~Ramping
    BY <1>1 DEF Restarts, Ramping
  <1>2. CASE Ramping
    <2>. DEFINE r == inp.uramping
                IsCount(k) == /\ k * r >= inp.U0
                              /\ \A j \in 1 .. k - 1 : j * r < inp.U0
    <2>1. r \in Nat \ {0} /\ inp.U0 \in Nat
      BY <1>2, InputFacts DEF Ramping
    <2>2. \E k \in 1 .. inp.U0 + 1 : IsCount(k)
      <3>1. CASE inp.U0 = 0
        <4>1. 1 \in 1 .. inp.U0 + 1 /\ 1 * r >= inp.U0
          BY <2>1, <3>1
        <4>2. \A j \in 1 .. 1 - 1 : j * r < inp.U0
          OBVIOUS
        <4>. QED BY <4>1, <4>2
      <3>2. CASE inp.U0 # 0
        <4>. DEFINE a == inp.U0 + (r - 1)
                    k == a \div r
                    m == a % r
        <4>1. a \in Nat
          BY <2>1
        <4>2. k \in Nat /\ m \in 0 .. r - 1 /\ a = (r * k) + m
          BY <2>1, <4>1, Division
        <4>. HIDE DEF k, m, r
        <4>3. k * r \in Nat /\ k * r = (inp.U0 + (r - 1)) - m
          BY <2>1, <4>2
        <4>4. k * r >= inp.U0 /\ k * r < inp.U0 + r
          BY <2>1, <4>2, <4>3
        <4>5. k >= 1
          <5>1. 0 * r = 0 /\ k * r \in Nat /\ k * r > 0
            BY <2>1, <3>2, <4>3, <4>4
          <5>. QED BY <2>1, <4>2, <5>1, Factors
        <4>6. k <= inp.U0 + 1
          <5>1. (inp.U0 + 1) * r = (inp.U0 * r) + r /\ inp.U0 * r >= inp.U0
            BY <2>1
          <5>2. k * r < (inp.U0 + 1) * r
            BY <2>1, <4>3, <4>4, <5>1
          <5>. QED BY <2>1, <4>2, <5>2, Factors
        <4>7. ASSUME NEW j \in 1 .. k - 1 PROVE j * r < inp.U0
          <5>1. PICK d \in Nat : k = (j + 1) + d
            BY <4>2, k - (j + 1) \in Nat
          <5>2. k * r = ((j * r) + r) + (d * r) /\ d * r >= 0 /\ j * r \in Nat
            BY <2>1, <4>2, <5>1
          <5>. QED BY <2>1, <4>4, <5>2
        <4>. QED BY <2>1, <4>2, <4>4, <4>5, <4>6, <4>7
      <3>. QED BY <3>1, <3>2
    <2>3. Restarts = CHOOSE k \in 1 .. inp.U0 + 1 : IsCount(k)
      BY <1>2 DEF Restarts, Ramping
    <2>4. Restarts \in 1 .. inp.U0 + 1 /\ IsCount(Restarts)
      <3>. HIDE DEF IsCount
      <3>. QED BY <2>2, <2>3
    <2>5. ASSUME NEW c \in Nat, c * r < inp.U0 PROVE c < Restarts
      <3>1. c * r < Restarts * r
        <4>1. c * r \in Int /\ Restarts * r \in Int /\ inp.U0 <= Restarts * r
          BY <2>1, <2>4
        <4>. QED BY <2>1, <2>5, <4>1
      <3>. QED BY <2>1, <2>4, <3>1, Factors
    <2>. QED BY <2>1, <2>4, <2>5
  <1>. QED BY <1>1, <1>2

-----------------------------------------------------------------------------
(* The invariant holds initially and is kept. *)

LEMMA SettingsKept ==
    ASSUME [Next]_vars
    PROVE  inp' = inp
  BY DEF Next, vars, BeforeScf, IterInit, Hamilt2density, Hamilt2densityAgain, Mixing,
     UpdatePot, IterFinish, CheckConvergence, AfterScf, Finished

LEMMA InitKept == Init => IInv
  <1>. SUFFICES ASSUME Init PROVE IInv
    OBVIOUS
  <1>. USE DEF Init
  <1>1. inp \in Inputs /\ pc = "before_scf"
    OBVIOUS
  <1>. USE <1>1, InputFacts
  <1>2. ControlInv
    <2>1. firstscf \in BOOLEAN /\ conv_elec \in BOOLEAN
      OBVIOUS
    <2>2. istep = 1 /\ iter = 0 /\ drho = 0 /\ hsolver_error = 0
      OBVIOUS
    <2>. QED BY <2>1, <2>2 DEF ControlInv, Calls, Solving, Mixed
  <1>3. Guess \in Densities
    BY DEF Guess, Density, Densities
  <1>4. DensityInv
    BY <1>3 DEF DensityInv, Functionals, Potential, Solving
  <1>5. InputInv
    BY DEF InputInv, Mixed
  <1>6. RestartInv
    BY RestartsFacts DEF RestartInv, Begun, Solving, Mixed
  <1>7. RingInv
    <2>1. Unallocated \in RingOf(0)
      BY ResizeFacts DEF Unallocated
    <2>2. NoCoef \in [0 .. inp.mixing_ndim -> 0 .. inp.SCF_NMAX]
      BY DEF NoCoef, NoVector
    <2>. QED BY <2>1, <2>2 DEF RingInv, Begun, Solving, Mixed
  <1>8. AlignInv
    BY DEF AlignInv, Solving, Mixed
  <1>9. ExxInv
    BY DEF ExxInv, Matrices, MixingObjects
  <1>10. LastInv
    BY DEF LastInv, Iterations, NoIteration, Mixed
  <1>. QED BY <1>2, <1>4, <1>5, <1>6, <1>7, <1>8, <1>9, <1>10 DEF IInv

LEMMA ControlKept == IInv /\ Next => ControlInv'
  <1>. SUFFICES ASSUME ControlInv, Next PROVE ControlInv'
    BY DEF IInv
  <1>1. inp' = inp /\ inp \in Inputs
    BY SettingsKept DEF ControlInv
  <1>. USE <1>1, InputFacts DEF ControlInv, Calls, Solving, Mixed, lcao, loopVars
  <1>2. CASE BeforeScf
    <2>1. firstscf' \in BOOLEAN /\ conv_elec' \in BOOLEAN /\ ~conv_elec'
      BY <1>2 DEF BeforeScf
    <2>2. pc' = "iter_init" /\ iter' = 1 /\ UNCHANGED <<istep, drho, hsolver_error>>
      BY <1>2 DEF BeforeScf
    <2>. QED BY <2>1, <2>2
  <1>3. CASE IterInit
    BY <1>3 DEF IterInit
  <1>4. CASE Hamilt2density
    <2>1. PICK e \in (IF firstscf THEN inp.HSolverErrors ELSE {0}) :
              /\ hsolver_error' = e
              /\ pc' = IF e > drho' THEN "hamilt2density_again" ELSE "mixing"
      BY <1>4 DEF Hamilt2density
    <2>2. drho' \in inp.Drho /\ drho' \in Nat
      BY <1>4 DEF Hamilt2density, Solve
    <2>3. inp.basis_type = "lcao" => e = 0
      BY <2>1
    <2>4. inp.basis_type = "lcao" => pc' = "mixing"
      BY <2>1, <2>2, <2>3
    <2>. QED BY <1>4, <2>1, <2>2, <2>4 DEF Hamilt2density
  <1>5. CASE Hamilt2densityAgain
    BY <1>5 DEF Hamilt2densityAgain, Solve
  <1>6. CASE Mixing
    <2>1. conv_elec' \in BOOLEAN
      BY <1>6 DEF Mixing, DensityConverged
    <2>. QED BY <1>6, <2>1 DEF Mixing
  <1>7. CASE UpdatePot
    BY <1>7 DEF UpdatePot
  <1>8. CASE IterFinish
    <2>1. /\ pc = "iter_finish" /\ pc' = "check"
          /\ UNCHANGED <<istep, firstscf, drho, hsolver_error>>
      BY <1>8 DEF IterFinish
    <2>2. /\ conv_elec' \in BOOLEAN
          /\ (~conv_elec' /\ iter' = 0) \/ iter' = iter
      BY <1>8 DEF IterFinish, ExxNextLoop
    <2>. QED BY <2>1, <2>2
  <1>9. CASE CheckConvergence
    BY <1>9 DEF CheckConvergence
  <1>10. CASE AfterScf
    <2>1. /\ pc' \in {"before_scf", "end"} /\ istep' \in 1 .. MaxIon
          /\ UNCHANGED <<iter, firstscf, drho, hsolver_error, conv_elec>>
      BY <1>10 DEF AfterScf
    <2>. QED BY <2>1
  <1>11. CASE Finished
    BY <1>11 DEF Finished, vars
  <1>. QED BY <1>2, <1>3, <1>4, <1>5, <1>6, <1>7, <1>8, <1>9, <1>10, <1>11 DEF Next

\* What a density is
LEMMA DensityFacts ==
    ASSUME ControlInv
    PROVE  /\ Guess \in Densities /\ Guess.kind = "guess"
           /\ \A k \in {"guess", "out", "mixed"} : Density(k, iter) \in Densities
           /\ \A k, i : Density(k, i).kind = k
           /\ \A d, f : Potential(d, f).rho = d /\ Potential(d, f).xc = f
           /\ \A d \in Densities, f \in Functionals :
                  Potential(d, f) \in [rho : Densities, xc : Functionals]
  BY InputFacts DEF ControlInv, Guess, Density, Densities, Potential

LEMMA DensityKept == IInv /\ Next => DensityInv'
  <1>. SUFFICES ASSUME ControlInv, DensityInv, Next PROVE DensityInv'
    BY DEF IInv
  <1>1. inp' = inp /\ inp \in Inputs /\ Densities' = Densities
    BY SettingsKept DEF ControlInv, Densities
  <1>. USE <1>1, InputFacts, DensityFacts
  <1>2. ASSUME UNCHANGED <<rho, rho_save, pot, xc>>
        PROVE  /\ rho' \in Densities /\ rho_save' \in Densities
               /\ pot' \in [rho : Densities, xc : Functionals] /\ xc' \in Functionals
    BY <1>2 DEF DensityInv
  <1>3. CASE BeforeScf
    <2>1. /\ pc' = "iter_init" /\ rho' = Guess /\ rho_save' = rho_save /\ iter' = 1
          /\ pot' = Potential(Guess, xc') /\ xc' \in Functionals
      BY <1>3 DEF BeforeScf, ExxBeforeScf, DensityInv, Functionals, exxVars
    <2>. QED BY <2>1 DEF DensityInv, Solving
  <1>4. CASE IterInit
    <2>1. /\ pc = "iter_init" /\ pc' = "hamilt2density"
          /\ UNCHANGED <<rho, pot, xc, iter>>
          /\ rho_save' = IF pw THEN rho ELSE rho_save
      BY <1>4 DEF IterInit, loopVars, pw
    <2>. QED BY <2>1 DEF DensityInv, Solving, pw
  <1>5. CASE Hamilt2density \/ Hamilt2densityAgain
    <2>1. /\ pc' \in {"mixing", "hamilt2density_again"} /\ UNCHANGED <<iter, pot, xc>>
          /\ rho' = Density("out", iter)
          /\ rho_save' = IF lcao THEN rho ELSE rho_save
          /\ pc \in {"hamilt2density", "hamilt2density_again"}
      BY <1>5 DEF Hamilt2density, Hamilt2densityAgain, Solve, exxVars, lcao
    <2>2. pot.rho = rho_save'
      BY <2>1 DEF DensityInv, ControlInv
    <2>. QED BY <2>1, <2>2 DEF DensityInv, Solving
  <1>6. CASE Mixing
    <2>1. /\ pc' = "update_pot" /\ UNCHANGED <<pot, xc>>
          /\ \/ UNCHANGED <<rho, rho_save>>
             \/ rho' = Density("mixed", iter) /\ rho_save' = rho
      BY <1>6 DEF Mixing, MixRho, exxVars
    <2>. QED BY <2>1 DEF DensityInv, Solving
  <1>7. CASE UpdatePot
    <2>1. /\ pc' = "iter_finish" /\ UNCHANGED <<rho, rho_save, xc>>
          /\ pot' = Potential(rho, xc)
      BY <1>7 DEF UpdatePot, exxVars
    <2>. QED BY <2>1 DEF DensityInv, Solving
  <1>8. CASE IterFinish
    <2>1. /\ pc = "iter_finish" /\ pc' = "check" /\ UNCHANGED <<rho, rho_save, pot>>
          /\ \/ iter' = 0 /\ xc' = "hybrid"
             \/ iter' = iter /\ xc' = xc
      BY <1>8 DEF IterFinish, ExxNextLoop, exxVars, rhoVars
    <2>. QED BY <2>1 DEF DensityInv, Solving, Functionals, ControlInv
  <1>9. CASE CheckConvergence
    <2>1. /\ pc = "check" /\ UNCHANGED <<rho, rho_save, pot, xc>>
          /\ \/ pc' = "after_scf" /\ iter' = iter
             \/ pc' = "iter_init" /\ iter' = iter + 1
      BY <1>9 DEF CheckConvergence, exxVars, rhoVars
    <2>. QED BY <2>1 DEF DensityInv, Solving, ControlInv
  <1>10. CASE AfterScf
    <2>1. pc' \in {"before_scf", "end"} /\ UNCHANGED <<rho, rho_save, pot, xc>>
      BY <1>10 DEF AfterScf, exxVars, rhoVars
    <2>. QED BY <2>1 DEF DensityInv, Solving
  <1>11. CASE Finished
    BY <1>11 DEF Finished, vars, DensityInv, Solving, loopVars, rhoVars, exxVars, pw
  <1>. QED BY <1>3, <1>4, <1>5, <1>6, <1>7, <1>8, <1>9, <1>10, <1>11 DEF Next

\* iter_init with its three ways to begin, in the terms of the invariant
LEMMA IterInitCases ==
    ASSUME ControlInv, InputInv, IterInit
    PROVE  /\ pc = "iter_init" /\ pc' = "hamilt2density" /\ iter' = iter
           /\ U' \in 0 .. inp.U0 /\ UNCHANGED <<istep, conv_elec, rho, xc, dmr_out>>
           /\ \/ FirstIterInit /\ iter = 1 /\ U' = U
                 /\ mixing_restart_step' = inp.SCF_NMAX + 1
              \/ RestartIterInit /\ iter > 1 /\ RestartNow
                 /\ \/ mixing_restart_step' = mixing_restart_step
                    \/ /\ mixing_restart_step' = inp.SCF_NMAX + 1 /\ lcao
                       /\ Ramping /\ U' # inp.U0
              \/ PlainIterInit /\ iter > 1 /\ ~RestartNow /\ U' = U
                 /\ mixing_restart_step' = mixing_restart_step
  <1>1. pc = "iter_init" /\ pc' = "hamilt2density" /\ iter > 0 /\ iter \in Nat
    BY InputFacts DEF IterInit, ControlInv
  <1>2. iter' = iter /\ UNCHANGED <<istep, conv_elec, rho, xc, dmr_out>>
    BY DEF IterInit, loopVars
  <1>3. CASE FirstIterInit
    BY <1>1, <1>2, <1>3 DEF FirstIterInit, InputInv
  <1>4. CASE RestartIterInit
    <2>1. iter > 1 /\ RestartNow
      BY <1>1, <1>4 DEF RestartIterInit, RestartNow
    <2>2. CASE lcao
      <3>1. /\ IF inp.dft_plus_u THEN UrampingUpdate ELSE U' = U
            /\ mixing_restart_step' =
                 IF inp.dft_plus_u /\ inp.uramping > 0 /\ U' # inp.U0
                 THEN inp.SCF_NMAX + 1 ELSE mixing_restart_step
        BY <1>4, <2>2 DEF RestartIterInit, lcao
      <3>2. U' \in 0 .. inp.U0
        BY <3>1, InputFacts DEF UrampingUpdate, InputInv, ControlInv
      <3>. QED BY <1>1, <1>2, <1>4, <2>1, <2>2, <3>1, <3>2 DEF Ramping
    <2>3. CASE ~lcao
      <3>1. U' = U /\ mixing_restart_step' = mixing_restart_step
        BY <1>4, <2>3 DEF RestartIterInit, lcao
      <3>. QED BY <1>1, <1>2, <1>4, <2>1, <3>1 DEF InputInv
    <2>. QED BY <2>2, <2>3
  <1>5. CASE PlainIterInit
    BY <1>1, <1>2, <1>5 DEF PlainIterInit, InputInv, RestartNow
  <1>. QED BY <1>3, <1>4, <1>5 DEF IterInit

\* A mixing step that keeps the output does so because the loop or the mixing
\* begins anew with it; in a plane-wave calculation also because the
\* diagonalization was not precise enough.
LEMMA MixingCases ==
    ASSUME ControlInv, DensityInv, InputInv, Mixing
    PROVE  /\ pc = "mixing" /\ pc' = "update_pot" /\ iter \in 1 .. inp.SCF_NMAX
           /\ UNCHANGED <<istep, iter, U, xc, mixing_restart_count, dmr_mdata, dmr_out>>
           /\ mixing_restart_step' = RestartStep /\ conv_elec' \in BOOLEAN
           /\ conv_elec' = DensityConverged(RestartStep)
           /\ \/ /\ UNCHANGED <<rho, rho_save, rho_mdata, coef>>
                 /\ lcao => conv_elec' \/ RestartNext'
              \/ /\ MixRho /\ rho' = Density("mixed", iter) /\ ~conv_elec'
                 /\ iter < inp.SCF_NMAX => ~RestartNext'
  <1>1. /\ pc = "mixing" /\ pc' = "update_pot" /\ iter \in 1 .. inp.SCF_NMAX
        /\ UNCHANGED <<istep, iter, U, xc, mixing_restart_count, dmr_mdata, dmr_out>>
        /\ UNCHANGED inp
    BY InputFacts DEF Mixing, exxVars, ControlInv
  <1>2. /\ mixing_restart_step' = RestartStep
        /\ conv_elec' = DensityConverged(RestartStep)
        /\ IF drho < hsolver_error \/ conv_elec' \/ KeepForRestart(RestartStep)
           THEN UNCHANGED <<rho, rho_save, rho_mdata, coef>> ELSE MixRho
    BY DEF Mixing
  <1>3. conv_elec' \in BOOLEAN
    BY <1>2 DEF DensityConverged
  <1>4. mixing_restart_step \in Int
    BY InputFacts DEF InputInv, ControlInv
  <1>5. lcao => ~(drho < hsolver_error)
    BY InputFacts DEF ControlInv
  <1>6. KeepForRestart(RestartStep) => RestartNext'
    BY <1>1, <1>2, <1>4 DEF KeepForRestart, RestartNext, RestartStep, MixingRestartOn
  <1>7. RestartNext' /\ iter < inp.SCF_NMAX => KeepForRestart(RestartStep)
    <2>1. mixing_restart_step <= iter \/ mixing_restart_step = inp.SCF_NMAX + 1
      BY <1>1 DEF InputInv, Begun, Solving
    <2>2. iter \in Int /\ inp.SCF_NMAX \in Int
      BY InputFacts DEF ControlInv
    <2>3. RestartNext' => MixingRestartOn /\ RestartStep = iter + 1
      BY <1>1, <1>2 DEF RestartNext, MixingRestartOn
    <2>4. RestartStep = iter + 1 /\ iter < inp.SCF_NMAX => drho <= inp.MIXING_RESTART
      BY <1>4, <2>1, <2>2 DEF RestartStep
    <2>. QED BY <2>2, <2>3, <2>4 DEF KeepForRestart
  <1>8. MixRho => rho' = Density("mixed", iter)
    BY DEF MixRho
  <1>. QED BY <1>1, <1>2, <1>3, <1>5, <1>6, <1>7, <1>8

LEMMA InputKept == IInv /\ Next => InputInv'
  <1>. SUFFICES ASSUME ControlInv, DensityInv, InputInv, Next PROVE InputInv'
    BY DEF IInv
  <1>1. inp' = inp /\ inp \in Inputs
    BY SettingsKept DEF ControlInv
  <1>. USE <1>1, InputFacts, DensityFacts
  <1>2. iter \in Nat /\ mixing_restart_step \in Nat /\ inp.SCF_NMAX \in Nat
    BY DEF ControlInv, InputInv
  <1>3. CASE BeforeScf
    <2>1. pc' = "iter_init" /\ iter' = 1 /\ UNCHANGED <<mixing_restart_step, U>>
      BY <1>3 DEF BeforeScf, mixVars
    <2>. QED BY <2>1 DEF InputInv, Mixed, Solving, Begun, RestartNow
  <1>4. CASE IterInit
    <2>1. UNCHANGED <<lcao, MixingRestartOn>>
      BY DEF lcao, MixingRestartOn
    <2>2. /\ U' \in 0 .. inp.U0
          /\ mixing_restart_step' \in {0} \cup 2 .. inp.SCF_NMAX + 1
          /\ mixing_restart_step' <= iter' \/ mixing_restart_step' = inp.SCF_NMAX + 1
      BY <1>2, <1>4, IterInitCases DEF InputInv, Begun
    <2>3. lcao /\ iter > 1 =>
              rho'.kind = "mixed" \/ RestartNow' \/ (inp.dft_plus_u /\ ~u_converged')
      BY <1>2, <1>4, <2>1, IterInitCases
         DEF InputInv, RestartNow, Ramping, u_converged
    <2>4. pc' = "hamilt2density" /\ iter' = iter
      BY <1>4, IterInitCases
    <2>. QED BY <2>1, <2>2, <2>3, <2>4 DEF InputInv, Mixed, Solving
  <1>5. CASE Hamilt2density \/ Hamilt2densityAgain
    <2>1. /\ pc' \in {"mixing", "hamilt2density_again"}
          /\ UNCHANGED <<iter, mixing_restart_step, U>>
          /\ lcao => pc = "hamilt2density" /\ rho_save' = rho
          /\ pc \in Solving
      BY <1>5 DEF Hamilt2density, Hamilt2densityAgain, Solve, mixVars, lcao, ControlInv,
         Solving
    <2>. QED BY <2>1 DEF InputInv, Mixed, Solving, Begun, RestartNow, lcao, u_converged,
                         MixingRestartOn
  <1>6. CASE Mixing
    <2>1. /\ pc' = "update_pot" /\ iter' = iter /\ iter \in 1 .. inp.SCF_NMAX /\ U' = U
          /\ pc = "mixing" /\ mixing_restart_step' \in {mixing_restart_step, iter + 1}
      BY <1>6, MixingCases DEF RestartStep
    <2>2. RestartNext' /\ iter < inp.SCF_NMAX => rho' = Density("out", iter)
      BY <1>6, MixingCases DEF DensityInv
    <2>3. lcao => rho'.kind = "mixed" \/ conv_elec' \/ RestartNext'
      BY <1>6, MixingCases
    <2>4. /\ mixing_restart_step' \in {0} \cup 2 .. inp.SCF_NMAX + 1
          /\ mixing_restart_step' <= iter + 1 \/ mixing_restart_step' = inp.SCF_NMAX + 1
      BY <1>2, <2>1 DEF InputInv, Begun, Solving
    <2>. QED BY <2>1, <2>2, <2>3, <2>4 DEF InputInv, Mixed, Solving, Begun, lcao
  <1>7. CASE UpdatePot
    <2>1. /\ pc = "update_pot" /\ pc' = "iter_finish"
          /\ UNCHANGED <<iter, conv_elec, rho, mixing_restart_step, U>>
      BY <1>7 DEF UpdatePot, loopVars, mixVars
    <2>. QED BY <2>1 DEF InputInv, Mixed, Solving, Begun, RestartNext, lcao, MixingRestartOn
  <1>8. CASE IterFinish
    <2>1. /\ pc = "iter_finish" /\ pc' = "check" /\ UNCHANGED <<rho, mixing_restart_step, U>>
          /\ iter' = 0 \/ (iter' = iter /\ (conv_elec => conv_elec'))
      BY <1>8 DEF IterFinish, ExxNextLoop, rhoVars
    <2>. QED BY <2>1 DEF InputInv, Mixed, Solving, Begun, RestartNext, lcao, MixingRestartOn
  <1>9. CASE CheckConvergence
    <2>1. /\ pc = "check" /\ UNCHANGED <<rho, mixing_restart_step, U>>
          /\ \/ pc' = "after_scf"
             \/ pc' = "iter_init" /\ iter' = iter + 1 /\ ~conv_elec /\ iter < inp.SCF_NMAX
      BY <1>2, <1>9 DEF CheckConvergence, rhoVars, mixVars
    <2>2. CASE pc' = "after_scf"
      BY <2>1, <2>2 DEF InputInv, Mixed, Solving
    <2>3. CASE pc' = "iter_init"
      <3>1. RestartNow' => RestartNext /\ iter > 0 /\ rho' = Density("out", iter' - 1)
        BY <1>2, <2>1, <2>3 DEF InputInv, RestartNow, RestartNext, MixingRestartOn, Mixed
      <3>2. lcao' /\ iter' > 1 => rho'.kind = "mixed" \/ RestartNow'
        BY <1>2, <2>1, <2>3 DEF InputInv, RestartNow, RestartNext, MixingRestartOn, lcao
      <3>3. iter' > 1 => mixing_restart_step' <= iter'
                           \/ mixing_restart_step' = inp.SCF_NMAX + 1
        BY <1>2, <2>1, <2>3 DEF InputInv
      <3>. QED BY <2>1, <2>3, <3>1, <3>2, <3>3 DEF InputInv, Mixed, Solving, Begun
    <2>. QED BY <2>1, <2>2, <2>3
  <1>10. CASE AfterScf
    <2>1. pc' \in {"before_scf", "end"} /\ UNCHANGED <<mixing_restart_step, U>>
      BY <1>10 DEF AfterScf, mixVars
    <2>. QED BY <2>1 DEF InputInv, Mixed, Solving, Begun
  <1>11. CASE Finished
    <2>1. UNCHANGED <<InputInv>>
      BY <1>11 DEF Finished, vars, InputInv, Mixed, Solving, Begun, loopVars, rhoVars,
         mixVars, lcao, u_converged, RestartNow, RestartNext, MixingRestartOn
    <2>. QED BY <2>1
  <1>. QED BY <1>3, <1>4, <1>5, <1>6, <1>7, <1>8, <1>9, <1>10, <1>11 DEF Next

LEMMA RestartKept == IInv /\ Next => RestartInv'
  <1>. SUFFICES ASSUME ControlInv, DensityInv, InputInv, RestartInv, Next
                PROVE  RestartInv'
    BY DEF IInv
  <1>1. inp' = inp /\ inp \in Inputs /\ Restarts' = Restarts
    BY SettingsKept DEF ControlInv, Restarts
  <1>. USE <1>1, InputFacts
  <1>2. /\ iter \in Nat /\ mixing_restart_step \in Nat /\ inp.SCF_NMAX \in Nat
        /\ mixing_restart_count \in Nat /\ U \in Nat /\ inp.uramping \in Nat
        /\ iter <= inp.SCF_NMAX /\ Restarts \in Nat \ {0}
    BY RestartsFacts DEF ControlInv, InputInv, RestartInv
  <1>3. ASSUME mixing_restart_count' = mixing_restart_count
        PROVE  /\ mixing_restart_count' \in 0 .. inp.SCF_NMAX
               /\ mixing_restart_count' <= Restarts'
               /\ mixing_restart_count' > 0 => lcao' /\ MixingRestartOn'
    BY <1>3 DEF RestartInv, lcao, MixingRestartOn
  <1>4. CASE BeforeScf \/ AfterScf
    <2>1. /\ mixing_restart_count' = mixing_restart_count
          /\ \/ pc' \in {"before_scf", "end"}
             \/ pc' = "iter_init" /\ iter' = 1
      BY <1>4 DEF BeforeScf, AfterScf, mixVars
    <2>2. ~Begun'
      BY <2>1 DEF Begun, Solving, Mixed
    <2>. QED BY <1>3, <2>1, <2>2 DEF RestartInv
  <1>5. CASE IterInit
    <2>1. pc = "iter_init" /\ pc' = "hamilt2density" /\ iter' = iter
      BY <1>5, IterInitCases
    <2>2. CASE FirstIterInit
      <3>1. mixing_restart_count' = 0 /\ iter = 1
        BY <2>2 DEF FirstIterInit, RestartInv, lcao
      <3>. QED BY <1>2, <2>1, <3>1 DEF RestartInv
    <2>3. CASE RestartIterInit /\ lcao /\ RestartNow /\ iter > 1
      <3>1. mixing_restart_count' = mixing_restart_count + 1
        BY <2>3 DEF RestartIterInit, lcao
      <3>2. mixing_restart_count + 1 < iter
        BY <2>1, <2>3 DEF RestartInv, Begun
      <3>3. \/ mixing_restart_count = 0
            \/ /\ Ramping /\ U < inp.U0
               /\ mixing_restart_count * inp.uramping <= U
        BY <1>2, <2>1, <2>3 DEF RestartInv, Begun, RestartAhead, RestartNow
      <3>4. mixing_restart_count + 1 <= Restarts
        <4>1. CASE mixing_restart_count = 0
          BY <1>2, <4>1
        <4>2. CASE Ramping /\ U < inp.U0 /\ mixing_restart_count * inp.uramping <= U
          <5>1. mixing_restart_count * inp.uramping \in Int
            BY <1>2
          <5>2. mixing_restart_count * inp.uramping < inp.U0
            BY <1>2, <4>2, <5>1
          <5>. QED BY <1>2, <4>2, <5>2, RestartsFacts
        <4>. QED BY <3>3, <4>1, <4>2
      <3>5. ASSUME mixing_restart_step' > iter
            PROVE  /\ Ramping /\ U' < inp.U0
                   /\ (mixing_restart_count + 1) * inp.uramping <= U'
        <4>1. Ramping /\ U' # inp.U0
          BY <1>2, <1>5, <2>3, <3>5, IterInitCases
             DEF RestartNow, FirstIterInit, PlainIterInit, MixingRestartOn
        <4>2. UrampingUpdate
          BY <2>3, <4>1 DEF RestartIterInit, lcao, Ramping
        <4>3. U' = U + inp.uramping /\ U' < inp.U0
          BY <4>1, <4>2 DEF UrampingUpdate, Ramping
        <4>4. (mixing_restart_count + 1) * inp.uramping
                = (mixing_restart_count * inp.uramping) + inp.uramping
          BY <1>2
        <4>5. mixing_restart_count * inp.uramping \in Int
              /\ mixing_restart_count * inp.uramping <= U
          BY <1>2, <3>3
        <4>. QED BY <1>2, <4>1, <4>3, <4>4, <4>5
      <3>6. lcao' /\ MixingRestartOn' /\ Ramping' = Ramping
        BY <2>3 DEF lcao, MixingRestartOn, RestartNow, Ramping
      <3>7. /\ mixing_restart_count' \in 0 .. inp.SCF_NMAX
            /\ mixing_restart_count' <= Restarts' /\ mixing_restart_count' < iter'
        BY <1>2, <2>1, <3>1, <3>2, <3>4
      <3>8. RestartAhead' => mixing_restart_step' > iter
        BY <2>1 DEF RestartAhead
      <3>. QED BY <2>1, <3>1, <3>5, <3>6, <3>7, <3>8 DEF RestartInv
    <2>4. CASE RestartIterInit /\ ~lcao
      <3>1. mixing_restart_count' = 0
        BY <2>4 DEF RestartIterInit, RestartInv, lcao
      <3>. QED BY <1>2, <2>1, <3>1, iter > 0 DEF RestartInv, ControlInv
    <2>5. CASE PlainIterInit /\ iter > 1
      <3>1. UNCHANGED <<mixing_restart_count, mixing_restart_step, U>>
        BY <2>5 DEF PlainIterInit
      <3>2. Begun /\ Begun'
        BY <2>1, <2>5 DEF Begun, Solving
      <3>3. RestartAhead' => RestartAhead
        BY <1>2, <2>1, <3>1 DEF RestartAhead
      <3>. QED BY <1>2, <1>3, <2>1, <3>1, <3>2, <3>3 DEF RestartInv, Ramping
    <2>. QED BY <1>5, <2>2, <2>3, <2>4, <2>5, IterInitCases
  <1>6. CASE Hamilt2density \/ Hamilt2densityAgain \/ Mixing \/ UpdatePot
    <2>1. /\ pc \in Solving \cup Mixed /\ pc' \in Solving \cup Mixed
          /\ UNCHANGED <<iter, mixing_restart_count, U>>
          /\ \/ mixing_restart_step' = mixing_restart_step
             \/ mixing_restart_step > iter
      BY <1>6 DEF Hamilt2density, Hamilt2densityAgain, Solve, Mixing, UpdatePot, RestartStep,
         mixVars, loopVars, Solving, Mixed
    <2>2. Begun /\ (RestartAhead' => RestartAhead)
      BY <2>1 DEF Begun, RestartAhead, Solving, Mixed
    <2>. QED BY <1>3, <2>1, <2>2 DEF RestartInv, Ramping, Solving, Mixed
  <1>7. CASE IterFinish
    <2>1. /\ pc = "iter_finish" /\ pc' = "check"
          /\ UNCHANGED <<mixing_restart_count, U, mixing_restart_step>>
          /\ iter' = 0 \/ iter' = iter
      BY <1>7 DEF IterFinish, ExxNextLoop
    <2>2. Begun' => Begun /\ iter' = iter /\ (RestartAhead' => RestartAhead)
      BY <2>1 DEF Begun, RestartAhead, Solving, Mixed
    <2>. QED BY <1>3, <2>1, <2>2 DEF RestartInv, Ramping
  <1>8. CASE CheckConvergence
    <2>1. /\ pc = "check" /\ UNCHANGED <<mixing_restart_count, U, mixing_restart_step>>
          /\ \/ pc' = "after_scf" /\ iter' = iter
             \/ pc' = "iter_init" /\ iter' = iter + 1
      BY <1>8 DEF CheckConvergence, mixVars
    <2>2. Begun' => Begun /\ (RestartAhead' => RestartAhead)
      BY <1>2, <2>1 DEF Begun, RestartAhead, Solving, Mixed
    <2>. QED BY <1>2, <1>3, <2>1, <2>2 DEF RestartInv, Ramping
  <1>9. CASE Finished
    <2>1. UNCHANGED RestartInv
      BY <1>9 DEF Finished, vars, RestartInv, Begun, RestartAhead, Solving, Mixed, Ramping,
         loopVars, mixVars, lcao, MixingRestartOn
    <2>. QED BY <2>1
  <1>. QED BY <1>4, <1>5, <1>6, <1>7, <1>8, <1>9 DEF Next

\* A ring with room for one more vector keeps its type when it is pushed.
LEMMA RingPush ==
    ASSUME ControlInv, NEW m \in RingOf(inp.mixing_ndim + 1),
           iter > 0, m.ndim_history < iter
    PROVE  /\ Push(m, iter) \in RingOf(inp.mixing_ndim + 1)
           /\ Push(m, iter).ndim_tot = inp.mixing_ndim + 1
           /\ Push(m, iter).ndim_history = m.ndim_history + 1
           /\ \A s \in UsedSlots(Push(m, iter)) :
                  s \in 0 .. inp.mixing_ndim /\ Push(m, iter).data[s] \in 0 .. inp.SCF_NMAX
  <1>. DEFINE n == inp.mixing_ndim + 1
              p == Push(m, iter)
  <1>1. n \in Nat \ {0} /\ inp.SCF_NMAX \in Nat /\ iter \in 1 .. inp.SCF_NMAX
    BY InputFacts DEF ControlInv
  <1>2. m \in [ndim_tot : {n}, start : -1 .. n - 1, ndim_use : 0 .. n,
               ndim_history : Nat, data : [0 .. n - 1 -> 0 .. inp.SCF_NMAX]]
    BY <1>1 DEF RingOf
  <1>3. n - 1 = inp.mixing_ndim
    BY InputFacts DEF ControlInv
  <1>. HIDE DEF n
  <1>4. /\ p.ndim_tot = n /\ p.start \in -1 .. n - 1 /\ p.ndim_use \in 0 .. n
        /\ p.ndim_history = m.ndim_history + 1
        /\ p.data \in [0 .. n - 1 -> 0 .. inp.SCF_NMAX]
        /\ p = [ndim_tot |-> p.ndim_tot, start |-> p.start, ndim_use |-> p.ndim_use,
                ndim_history |-> p.ndim_history, data |-> p.data]
        /\ m.ndim_history \in Nat
    <2>1. iter \in 0 .. inp.SCF_NMAX
      BY <1>1
    <2>2. m.ndim_history \in Nat
      BY <1>2
    <2>. HIDE DEF p
    <2>3. p = Push(m, iter)
      BY DEF p
    <2>. QED BY <1>1, <1>2, <2>1, <2>2, <2>3, PushFacts
  <1>. HIDE DEF p
  <1>5. p.ndim_history \in 0 .. inp.SCF_NMAX
    BY <1>1, <1>4
  <1>6. p \in RingOf(n)
    BY <1>4, <1>5 DEF RingOf
  <1>7. ASSUME NEW s \in UsedSlots(p)
        PROVE  s \in 0 .. inp.mixing_ndim /\ p.data[s] \in 0 .. inp.SCF_NMAX
    <2>1. s \in 0 .. n - 1
      BY <1>1, <1>4 DEF UsedSlots
    <2>. QED BY <1>3, <1>4, <2>1
  <1>. QED BY <1>4, <1>6, <1>7 DEF p, n

LEMMA RingKept == IInv /\ Next => RingInv'
  <1>. SUFFICES ASSUME ControlInv, DensityInv, InputInv, RestartInv, RingInv, Next
                PROVE  RingInv'
    BY DEF IInv
  <1>1. inp' = inp /\ inp \in Inputs
    BY SettingsKept DEF ControlInv
  <1>. USE <1>1, InputFacts
  <1>2. /\ iter \in Nat /\ iter <= inp.SCF_NMAX /\ inp.SCF_NMAX \in Nat
        /\ \A n : RingOf(n)' = RingOf(n)
        /\ DmrOn => lcao
        /\ DmrOn <=> MixingRestartOn /\ inp.MIXING_DMR /\ mixing_restart_count > 0
    BY DEF ControlInv, RingOf, DmrOn, RestartInv
  <1>3. ASSUME UNCHANGED <<rho_mdata, dmr_mdata, coef, dmr_out>>
        PROVE  /\ rho_mdata' \in RingOf(0)' \cup RingOf(inp.mixing_ndim + 1)'
               /\ dmr_mdata' \in RingOf(0)' \cup RingOf(inp.mixing_ndim + 1)'
               /\ coef' \in [0 .. inp'.mixing_ndim -> 0 .. inp'.SCF_NMAX]
               /\ dmr_out' \subseteq (0 .. inp'.SCF_NMAX) \X (0 .. inp'.SCF_NMAX)
    BY <1>2, <1>3 DEF RingInv
  <1>11. ASSUME rho_mdata' \in RingOf(inp.mixing_ndim + 1),
                dmr_mdata' \in RingOf(0) \cup RingOf(inp.mixing_ndim + 1),
                coef' \in [0 .. inp.mixing_ndim -> 0 .. inp.SCF_NMAX],
                dmr_out' \subseteq (0 .. inp.SCF_NMAX) \X (0 .. inp.SCF_NMAX),
                rho_mdata'.ndim_history <= iter',
                pc' \in {"iter_init"} \cup Solving => rho_mdata'.ndim_history < iter',
                DmrOn' =>
                   /\ dmr_mdata' \in RingOf(inp.mixing_ndim + 1)
                   /\ dmr_mdata'.ndim_history <= iter'
                   /\ pc' \in {"iter_init"} \cup Solving \cup Mixed =>
                          dmr_mdata'.ndim_history < iter'
         PROVE  RingInv'
    <2>1. rho_mdata'.ndim_tot = inp.mixing_ndim + 1
      BY <1>11 DEF RingOf
    <2>2. DmrOn' => dmr_mdata'.ndim_tot = inp.mixing_ndim + 1
      BY <1>11 DEF RingOf
    <2>3. /\ rho_mdata' \in (RingOf(0) \cup RingOf(inp.mixing_ndim + 1))'
          /\ dmr_mdata' \in (RingOf(0) \cup RingOf(inp.mixing_ndim + 1))'
      BY <1>2, <1>11
    <2>. QED BY <1>11, <2>1, <2>2, <2>3 DEF RingInv
  <1>4. CASE BeforeScf \/ AfterScf
    <2>1. /\ UNCHANGED <<rho_mdata, dmr_mdata, coef, dmr_out>>
          /\ \/ pc' \in {"before_scf", "end"}
             \/ pc' = "iter_init" /\ iter' = 1
      BY <1>4 DEF BeforeScf, AfterScf, mixVars
    <2>2. ~Begun'
      BY <2>1 DEF Begun, Solving, Mixed
    <2>. QED BY <1>2, <1>3, <2>1, <2>2 DEF RingInv
  <1>5. CASE IterInit
    <2>1. pc = "iter_init" /\ pc' = "hamilt2density" /\ iter' = iter /\ dmr_out' = dmr_out
      BY <1>5, IterInitCases
    <2>2. iter > 0
      BY <2>1 DEF ControlInv
    <2>3. /\ Resize(inp.mixing_ndim + 1) \in RingOf(inp.mixing_ndim + 1)
          /\ Resize(inp.mixing_ndim + 1).ndim_tot = inp.mixing_ndim + 1
          /\ Resize(inp.mixing_ndim + 1).ndim_history = 0
          /\ NoCoef \in [0 .. inp.mixing_ndim -> 0 .. inp.SCF_NMAX]
      BY ResizeFacts DEF NoCoef, NoVector
    <2>4. CASE FirstIterInit
      <3>1. /\ rho_mdata' = Resize(inp.mixing_ndim + 1) /\ coef' = NoCoef
            /\ dmr_mdata' = dmr_mdata /\ ~DmrOn'
        BY <1>2, <2>4 DEF FirstIterInit, InitMixing, DmrOn, lcao, pw
      <3>2. /\ dmr_mdata' \in RingOf(0) \cup RingOf(inp.mixing_ndim + 1)
            /\ dmr_out' \subseteq (0 .. inp.SCF_NMAX) \X (0 .. inp.SCF_NMAX)
        BY <2>1, <3>1 DEF RingInv
      <3>. QED BY <1>2, <1>11, <2>1, <2>2, <2>3, <3>1, <3>2
    <2>5. CASE RestartIterInit
      <3>1. rho_mdata' = Resize(inp.mixing_ndim + 1) /\ coef' = NoCoef
        BY <2>5 DEF RestartIterInit, InitMixing
      <3>2. \/ dmr_mdata' = Resize(inp.mixing_ndim + 1)
            \/ dmr_mdata' = dmr_mdata /\ ~DmrOn'
        BY <2>5 DEF RestartIterInit, DmrOn, lcao, pw
      <3>3. /\ dmr_mdata' \in RingOf(0) \cup RingOf(inp.mixing_ndim + 1)
            /\ dmr_out' \subseteq (0 .. inp.SCF_NMAX) \X (0 .. inp.SCF_NMAX)
        BY <2>1, <2>3, <3>2 DEF RingInv
      <3>. QED BY <1>2, <1>11, <2>1, <2>2, <2>3, <3>1, <3>2, <3>3
    <2>6. CASE PlainIterInit
      <3>1. UNCHANGED <<rho_mdata, dmr_mdata, coef, dmr_out, DmrOn>> /\ iter > 1
        BY <1>2, <2>1, <2>2, <2>6 DEF PlainIterInit, DmrOn
      <3>. QED BY <1>2, <1>3, <2>1, <3>1 DEF RingInv, Begun, Solving, Mixed
    <2>. QED BY <1>5, <2>4, <2>5, <2>6 DEF IterInit
  <1>6. CASE Hamilt2density \/ Hamilt2densityAgain \/ UpdatePot
    <2>1. /\ UNCHANGED <<rho_mdata, dmr_mdata, coef, dmr_out, DmrOn, iter>>
          /\ \/ pc \in Solving /\ pc' \in Solving
             \/ pc \in Mixed /\ pc' \in Mixed
      BY <1>6 DEF Hamilt2density, Hamilt2densityAgain, Solve, UpdatePot, mixVars, loopVars,
         DmrOn, Solving, Mixed
    <2>. QED BY <1>2, <1>3, <2>1 DEF RingInv, Begun, Solving, Mixed
  <1>7. CASE Mixing
    <2>1. /\ pc = "mixing" /\ pc' = "update_pot" /\ iter' = iter /\ iter > 0
          /\ UNCHANGED <<dmr_mdata, dmr_out, DmrOn>>
          /\ \/ UNCHANGED <<rho_mdata, coef>>
             \/ MixRho
      BY <1>7, MixingCases DEF DmrOn
    <2>2. CASE UNCHANGED <<rho_mdata, coef>>
      BY <1>2, <1>3, <2>1, <2>2 DEF RingInv, Begun, Solving, Mixed
    <2>3. CASE MixRho
      <3>1. rho_mdata \in RingOf(inp.mixing_ndim + 1) /\ rho_mdata.ndim_history < iter
        BY <2>1 DEF RingInv, Begun, Solving, RingOf
      <3>2. /\ rho_mdata' \in RingOf(inp.mixing_ndim + 1)
            /\ rho_mdata'.ndim_tot = inp.mixing_ndim + 1
            /\ rho_mdata'.ndim_history = rho_mdata.ndim_history + 1
            /\ \A s \in UsedSlots(rho_mdata') : rho_mdata'.data[s] \in 0 .. inp.SCF_NMAX
        BY <2>1, <2>3, <3>1, RingPush DEF MixRho
      <3>3. rho_mdata.ndim_history \in Nat
        BY <3>1 DEF RingOf
      <3>4. coef' \in [0 .. inp.mixing_ndim -> 0 .. inp.SCF_NMAX]
        BY <2>3, <3>2 DEF MixRho, RingInv
      <3>5. rho_mdata'.ndim_history <= iter
        BY <1>2, <3>1, <3>2, <3>3
      <3>6. Begun /\ pc' \notin Solving
        BY <2>1 DEF Begun, Solving
      <3>. QED BY <1>2, <2>1, <3>2, <3>4, <3>5, <3>6 DEF RingInv, Begun, Solving, Mixed
    <2>. QED BY <2>1, <2>2, <2>3
  <1>8. CASE IterFinish
    <2>1. /\ pc = "iter_finish" /\ pc' = "check" /\ iter > 0
          /\ UNCHANGED <<rho_mdata, coef, mixing_restart_count, DmrOn>>
          /\ iter' = 0 \/ iter' = iter
          /\ IF DmrOn THEN MixDmr ELSE UNCHANGED <<dmr_mdata, dmr_out>>
      BY <1>2, <1>8 DEF IterFinish, ExxNextLoop, DmrOn, ControlInv
    <2>2. CASE ~DmrOn
      BY <1>2, <1>3, <2>1, <2>2 DEF RingInv, Begun, Solving, Mixed
    <2>3. CASE DmrOn
      <3>1. dmr_mdata \in RingOf(inp.mixing_ndim + 1) /\ dmr_mdata.ndim_history < iter
        BY <2>1, <2>3 DEF RingInv, Begun, Mixed, RingOf
      <3>2. /\ dmr_mdata' \in RingOf(inp.mixing_ndim + 1)
            /\ dmr_mdata'.ndim_tot = inp.mixing_ndim + 1
            /\ dmr_mdata'.ndim_history = dmr_mdata.ndim_history + 1
            /\ \A s \in UsedSlots(dmr_mdata') :
                  s \in 0 .. inp.mixing_ndim /\ dmr_mdata'.data[s] \in 0 .. inp.SCF_NMAX
        BY <2>1, <2>3, <3>1, RingPush DEF MixDmr
      <3>3. dmr_out' \subseteq (0 .. inp.SCF_NMAX) \X (0 .. inp.SCF_NMAX)
        <4>1. coef \in [0 .. inp.mixing_ndim -> 0 .. inp.SCF_NMAX]
          BY DEF RingInv
        <4>2. dmr_out' = {<<dmr_mdata'.data[s], coef[s]>> : s \in UsedSlots(dmr_mdata')}
          BY <2>1, <2>3 DEF MixDmr
        <4>. QED BY <3>2, <4>1, <4>2
      <3>4. dmr_mdata.ndim_history \in Nat /\ dmr_mdata'.ndim_history <= iter
        BY <1>2, <3>1, <3>2 DEF RingOf
      <3>5. Begun
        BY <2>1 DEF Begun, Mixed
      <3>6. iter' = 0 => ~Begun'
        BY <2>1 DEF Begun, Solving, Mixed
      <3>7. /\ rho_mdata \in RingOf(inp.mixing_ndim + 1)
            /\ rho_mdata.ndim_history <= iter
            /\ coef \in [0 .. inp.mixing_ndim -> 0 .. inp.SCF_NMAX]
        BY <3>5 DEF RingInv, RingOf
      <3>8. pc' \notin {"iter_init"} \cup Solving \cup Mixed
        BY <2>1 DEF Solving, Mixed
      <3>9. CASE iter' = iter
        BY <1>11, <2>1, <2>3, <3>2, <3>3, <3>4, <3>7, <3>8, <3>9
      <3>10. CASE iter' = 0
        <4>1. /\ rho_mdata' \in (RingOf(0) \cup RingOf(inp.mixing_ndim + 1))'
              /\ dmr_mdata' \in (RingOf(0) \cup RingOf(inp.mixing_ndim + 1))'
          BY <1>2, <2>1, <3>2, <3>7
        <4>. QED BY <2>1, <3>3, <3>6, <3>7, <3>10, <4>1 DEF RingInv
      <3>. QED BY <2>1, <3>9, <3>10
    <2>. QED BY <2>2, <2>3
  <1>9. CASE CheckConvergence
    <2>1. /\ pc = "check" /\ UNCHANGED <<rho_mdata, dmr_mdata, coef, dmr_out, DmrOn>>
          /\ \/ pc' = "after_scf" /\ iter' = iter
             \/ pc' = "iter_init" /\ iter' = iter + 1
      BY <1>9 DEF CheckConvergence, mixVars, DmrOn
    <2>2. Begun' => Begun
      BY <1>2, <2>1 DEF Begun, Solving, Mixed
    <2>3. rho_mdata.ndim_history \in Nat /\ dmr_mdata.ndim_history \in Nat
      BY DEF RingInv, RingOf
    <2>4. CASE ~Begun
      BY <1>2, <1>3, <2>1, <2>2, <2>4 DEF RingInv
    <2>5. CASE Begun
      <3>1. /\ rho_mdata \in RingOf(inp.mixing_ndim + 1)
            /\ rho_mdata.ndim_history <= iter
            /\ DmrOn => /\ dmr_mdata \in RingOf(inp.mixing_ndim + 1)
                        /\ dmr_mdata.ndim_history <= iter
        BY <2>5 DEF RingInv, RingOf
      <3>2. /\ dmr_mdata \in RingOf(0) \cup RingOf(inp.mixing_ndim + 1)
            /\ coef \in [0 .. inp.mixing_ndim -> 0 .. inp.SCF_NMAX]
            /\ dmr_out \subseteq (0 .. inp.SCF_NMAX) \X (0 .. inp.SCF_NMAX)
        BY DEF RingInv
      <3>3. \/ iter' = iter /\ pc' \notin {"iter_init"} \cup Solving \cup Mixed
            \/ iter' = iter + 1
        BY <2>1 DEF Solving, Mixed
      <3>4. /\ rho_mdata.ndim_history <= iter'
            /\ pc' \in {"iter_init"} \cup Solving => rho_mdata.ndim_history < iter'
            /\ DmrOn =>
                 /\ dmr_mdata.ndim_history <= iter'
                 /\ pc' \in {"iter_init"} \cup Solving \cup Mixed =>
                        dmr_mdata.ndim_history < iter'
        BY <1>2, <2>3, <3>1, <3>3
      <3>. QED BY <1>11, <2>1, <3>1, <3>2, <3>4
    <2>. QED BY <2>4, <2>5
  <1>10. CASE Finished
    <2>1. UNCHANGED RingInv
      BY <1>10 DEF Finished, vars, RingInv, RingOf, Begun, Solving, Mixed, DmrOn, loopVars,
         mixVars
    <2>. QED BY <2>1
  <1>. QED BY <1>4, <1>5, <1>6, <1>7, <1>8, <1>9, <1>10 DEF Next

LEMMA AlignKept == IInv /\ Next => AlignInv'
  <1>. SUFFICES ASSUME ControlInv, DensityInv, InputInv, RestartInv, RingInv, AlignInv, Next
                PROVE  AlignInv'
    BY DEF IInv
  <1>1. inp' = inp /\ inp \in Inputs
    BY SettingsKept DEF ControlInv
  <1>. USE <1>1, InputFacts
  <1>2. /\ iter \in Nat /\ iter <= inp.SCF_NMAX /\ inp.SCF_NMAX \in Nat
        /\ DmrOn => lcao /\ MixingRestartOn
        /\ MixingRestartOn' = MixingRestartOn
    BY DEF ControlInv, DmrOn, RestartInv, MixingRestartOn
  <1>3. CASE BeforeScf \/ AfterScf
    <2>1. \/ pc' \in {"before_scf", "end"}
          \/ pc' = "iter_init" /\ iter' = 1
      BY <1>3 DEF BeforeScf, AfterScf
    <2>. QED BY <2>1 DEF AlignInv, Solving, Mixed
  <1>4. CASE IterInit
    <2>1. pc = "iter_init" /\ pc' = "hamilt2density" /\ iter > 0
      BY <1>4, IterInitCases DEF ControlInv
    <2>2. DmrOn' => rho_mdata' = dmr_mdata'
      <3>1. CASE FirstIterInit
        BY <1>2, <3>1 DEF FirstIterInit, DmrOn, lcao, pw
      <3>2. CASE RestartIterInit
        BY <3>2 DEF RestartIterInit, InitMixing, DmrOn, lcao, pw
      <3>3. CASE PlainIterInit
        <4>1. iter > 1 /\ ~RestartNow /\ UNCHANGED <<rho_mdata, dmr_mdata, DmrOn>>
          BY <1>2, <2>1, <3>3 DEF PlainIterInit, RestartNow, DmrOn
        <4>. QED BY <2>1, <4>1 DEF AlignInv
      <3>. QED BY <1>4, <3>1, <3>2, <3>3 DEF IterInit
    <2>. QED BY <2>1, <2>2 DEF AlignInv, Solving, Mixed
  <1>5. CASE Hamilt2density \/ Hamilt2densityAgain
    <2>1. /\ pc \in Solving /\ pc' \in Solving
          /\ UNCHANGED <<rho_mdata, dmr_mdata, coef, DmrOn>>
      BY <1>5 DEF Hamilt2density, Hamilt2densityAgain, mixVars, DmrOn, Solving
    <2>. QED BY <2>1 DEF AlignInv, Solving, Mixed
  <1>6. CASE Mixing
    <2>1. /\ pc = "mixing" /\ pc' = "update_pot" /\ iter' = iter /\ iter > 0
          /\ UNCHANGED <<dmr_mdata, DmrOn>>
          /\ \/ UNCHANGED rho
             \/ MixRho
      BY <1>6, MixingCases DEF DmrOn
    <2>2. CASE UNCHANGED rho
      <3>1. rho'.kind # "mixed"
        BY <2>1, <2>2, DensityFacts DEF DensityInv
      <3>. QED BY <2>1, <3>1 DEF AlignInv, Solving
    <2>3. CASE MixRho
      <3>1. rho_mdata \in RingOf(inp.mixing_ndim + 1) /\ rho_mdata.ndim_history < iter
        BY <2>1 DEF RingInv, Begun, Solving, RingOf
      <3>2. \A s \in UsedSlots(rho_mdata') : s \in 0 .. inp.mixing_ndim
        BY <2>1, <2>3, <3>1, RingPush DEF MixRho
      <3>3. \A s \in UsedSlots(rho_mdata') : coef'[s] = rho_mdata'.data[s]
        <4>1. DOMAIN coef = 0 .. inp.mixing_ndim
          BY DEF RingInv
        <4>. QED BY <2>3, <3>2, <4>1 DEF MixRho
      <3>4. DmrOn' => rho_mdata' = Push(dmr_mdata', iter')
        BY <2>1, <2>3 DEF AlignInv, MixRho, Solving
      <3>. QED BY <2>1, <3>3, <3>4 DEF AlignInv, Solving
    <2>. QED BY <2>1, <2>2, <2>3
  <1>7. CASE UpdatePot
    <2>1. /\ pc \in Mixed /\ pc' \in Mixed
          /\ UNCHANGED <<rho_mdata, dmr_mdata, coef, DmrOn, rho, iter>>
      BY <1>7 DEF UpdatePot, mixVars, loopVars, DmrOn, Mixed
    <2>. QED BY <2>1 DEF AlignInv, Solving, Mixed
  <1>8. CASE IterFinish
    <2>1. /\ pc = "iter_finish" /\ pc' = "check" /\ iter > 0
          /\ UNCHANGED <<rho_mdata, coef, DmrOn, mixing_restart_step>>
          /\ iter' = 0 \/ (iter' = iter /\ (conv_elec => conv_elec'))
          /\ DmrOn => MixDmr
      BY <1>2, <1>8 DEF IterFinish, ExxNextLoop, DmrOn, ControlInv
    <2>2. ASSUME DmrOn, iter' > 0, ~conv_elec', ~RestartNext'
          PROVE  rho_mdata' = dmr_mdata'
      <3>1. rho.kind = "mixed"
        BY <1>2, <2>1, <2>2 DEF InputInv, Mixed, RestartNext
      <3>. QED BY <2>1, <2>2, <3>1 DEF AlignInv, Mixed, MixDmr
    <2>. QED BY <2>1, <2>2 DEF AlignInv, Solving, Mixed
  <1>9. CASE CheckConvergence
    <2>1. /\ pc = "check" /\ UNCHANGED <<rho_mdata, dmr_mdata, mixing_restart_step, DmrOn>>
          /\ \/ pc' = "after_scf"
             \/ pc' = "iter_init" /\ iter' = iter + 1 /\ ~conv_elec
      BY <1>9 DEF CheckConvergence, mixVars, DmrOn
    <2>2. pc' = "iter_init" => RestartNow' = RestartNext
      BY <1>2, <2>1 DEF RestartNow, RestartNext
    <2>. QED BY <1>2, <2>1, <2>2 DEF AlignInv, Solving, Mixed
  <1>10. CASE Finished
    <2>1. UNCHANGED AlignInv
      BY <1>10 DEF Finished, vars, AlignInv, Solving, Mixed, DmrOn, loopVars, rhoVars,
         mixVars, RestartNow, RestartNext, MixingRestartOn, UsedSlots, Push
    <2>. QED BY <2>1
  <1>. QED BY <1>3, <1>4, <1>5, <1>6, <1>7, <1>8, <1>9, <1>10 DEF Next

(* What the operations of Mix_Matrix do *)

LEMMA SetMixingFacts ==
    ASSUME NEW m \in Matrices, NEW o \in MixingObjects
    PROVE  /\ SetMixing(m, o) \in Matrices
           /\ SetMixing(m, o).used = m.used
           /\ SetMixing(m, o).allocated = m.allocated
           /\ m.separate_loop \/ o = "null" => SetMixing(m, o).separate_loop
  <1>. DEFINE s == m.separate_loop \/ o = "null"
  <1>1. s \in BOOLEAN
    OBVIOUS
  <1>2. SetMixing(m, o) = [[m EXCEPT !.mixing = o] EXCEPT !.separate_loop = s]
    BY DEF SetMixing, Matrices
  <1>3. m.separate_loop \/ o = "null" => s
    OBVIOUS
  <1>. HIDE DEF s
  <1>. QED BY <1>1, <1>2, <1>3 DEF Matrices

LEMMA DeletedFacts ==
    ASSUME NEW m \in Matrices
    PROVE  /\ Deleted(m) \in Matrices
           /\ Deleted(m).used = m.used
           /\ Deleted(m).allocated = m.allocated
           /\ Deleted(m).separate_loop = m.separate_loop
  BY DEF Deleted, Matrices, MixingObjects

LEMMA MixMatrixFacts ==
    ASSUME NEW m \in Matrices, NEW f \in BOOLEAN, m.separate_loop
    PROVE  /\ MixMatrix(m, f) \in Matrices
           /\ MixMatrix(m, f).separate_loop
           /\ m.allocated \/ f => MixMatrix(m, f).allocated
  <1>. DEFINE a == m.allocated \/ f
  <1>1. a \in BOOLEAN /\ (m.allocated \/ f => a)
    OBVIOUS
  <1>2. MixMatrix(m, f) =
            [[[m EXCEPT !.mixing = "null"] EXCEPT !.used = "plain"] EXCEPT !.allocated = a]
    BY DEF MixMatrix, Matrices
  <1>. HIDE DEF a
  <1>. QED BY <1>1, <1>2 DEF Matrices, MixingObjects

\* The mixing object of the first ionic step is the null one, which no later
\* call of init undoes: the density matrix is always mixed by an object of its own.
LEMMA ExxKept == IInv /\ Next => ExxInv'
  <1>. SUFFICES ASSUME ControlInv, DensityInv, ExxInv, Next PROVE ExxInv'
    BY DEF IInv
  <1>1. inp' = inp /\ inp \in Inputs
    BY SettingsKept DEF ControlInv
  <1>. USE <1>1, InputFacts
  <1>2. /\ iter \in Nat /\ istep \in Nat /\ two_level_step \in Nat
        /\ inp.hybrid_step \in Nat /\ mix_DMk \in Matrices
        /\ \A m : m \in Matrices => m \in Matrices' /\ m.allocated \in BOOLEAN
    BY DEF ControlInv, ExxInv, Matrices, MixingObjects
  <1>3. ASSUME UNCHANGED exxVars,
               inp.cal_exx =>
                 /\ pc # "before_scf" /\ iter # 0 /\ ~(pc = "iter_init" /\ iter = 1)
                 /\ pc' # "before_scf" \/ istep' > 1
                 /\ pc' # "end" => pc # "end"
                 /\ pc' \in {"check", "after_scf"} /\ conv_elec' => two_level_step > 0
        PROVE  ExxInv'
    BY <1>2, <1>3 DEF ExxInv, exxVars
  <1>4. CASE BeforeScf
    <2>1. pc = "before_scf" /\ pc' = "iter_init" /\ iter' = 1 /\ istep' = istep
      BY <1>4 DEF BeforeScf
    <2>2. CASE inp.cal_exx
      <3>1. PICK o \in MixingObjects :
                mix_DMk' = SetMixing(mix_DMk, o) /\ (istep = 1 => o = "null")
        <4>1. /\ mix_DMk' = SetMixing(mix_DMk, IF inp.separate_loop \/ istep = 1
                                                THEN "null" ELSE "live")
              /\ {"null", "live"} \subseteq MixingObjects
          BY <1>4, <2>2 DEF BeforeScf, ExxBeforeScf, MixingObjects
        <4>. QED BY <4>1
      <3>2. xc' = "semilocal" /\ two_level_step' = 0
        BY <1>4, <2>2 DEF BeforeScf, ExxBeforeScf
      <3>3. /\ mix_DMk' \in Matrices
            /\ mix_DMk'.used = mix_DMk.used /\ mix_DMk'.allocated = mix_DMk.allocated
            /\ mix_DMk.separate_loop \/ o = "null" => mix_DMk'.separate_loop
        <4>. HIDE DEF Matrices
        <4>. QED BY <1>2, <3>1, SetMixingFacts
      <3>4. istep # 1 => mix_DMk.separate_loop
        BY <1>2, <2>2 DEF ExxInv, ControlInv
      <3>. QED BY <1>2, <2>1, <2>2, <3>1, <3>2, <3>3, <3>4 DEF ExxInv
    <2>3. CASE ~inp.cal_exx
      <3>1. UNCHANGED exxVars
        BY <1>4, <2>3 DEF BeforeScf, ExxBeforeScf
      <3>. QED BY <1>3, <2>3, <3>1
    <2>. QED BY <2>2, <2>3
  <1>5. CASE IterInit
    <2>1. /\ pc = "iter_init" /\ pc' = "hamilt2density" /\ iter' = iter /\ iter > 0
          /\ UNCHANGED <<xc, two_level_step, istep>>
      BY <1>5 DEF IterInit, loopVars, ControlInv
    <2>2. PICK m \in {mix_DMk, Deleted(mix_DMk)} : mix_DMk' = ExxEachIterInit(m)
      BY <1>5 DEF IterInit, FirstIterInit, RestartIterInit, PlainIterInit
    <2>3. /\ m \in Matrices /\ m.used = mix_DMk.used /\ m.allocated = mix_DMk.allocated
          /\ m.separate_loop = mix_DMk.separate_loop
      BY <1>2, DeletedFacts
    <2>. HIDE DEF Matrices
    <2>4. CASE inp.cal_exx /\ ~inp.separate_loop /\ two_level_step > 0
      <3>1. mix_DMk' = MixMatrix(m, iter = 1)
        BY <2>2, <2>4 DEF ExxEachIterInit
      <3>2. m.separate_loop /\ (iter = 1 \/ m.allocated)
        BY <1>2, <2>1, <2>3, <2>4 DEF ExxInv
      <3>3. mix_DMk' \in Matrices' /\ mix_DMk'.separate_loop /\ mix_DMk'.allocated
        <4>1. (iter = 1) \in BOOLEAN
          OBVIOUS
        <4>. QED BY <1>2, <2>3, <3>1, <3>2, <4>1, MixMatrixFacts
      <3>. QED BY <1>2, <2>1, <2>4, <3>3 DEF ExxInv
    <2>5. CASE ~(inp.cal_exx /\ ~inp.separate_loop /\ two_level_step > 0)
      <3>1. mix_DMk' = m
        BY <2>2, <2>5 DEF ExxEachIterInit
      <3>. QED BY <1>2, <2>1, <2>3, <2>5, <3>1 DEF ExxInv
    <2>. QED BY <2>4, <2>5
  <1>6. CASE Hamilt2density \/ Hamilt2densityAgain \/ Mixing \/ UpdatePot
    <2>1. /\ UNCHANGED exxVars /\ pc \in Solving \cup Mixed /\ pc' \in Solving \cup Mixed
      BY <1>6 DEF Hamilt2density, Hamilt2densityAgain, Mixing, UpdatePot, Solving, Mixed
    <2>2. iter > 0
      BY <2>1 DEF ControlInv, Solving, Mixed
    <2>. QED BY <1>2, <1>3, <2>1, <2>2 DEF Solving, Mixed
  <1>7. CASE IterFinish
    <2>1. pc = "iter_finish" /\ pc' = "check" /\ istep' = istep /\ iter > 0
      BY <1>7 DEF IterFinish, ControlInv
    <2>2. PICK energy_small \in inp.EnergyCriterion, ediff_small \in inp.EnergyCriterion :
            LET converged == conv_elec \/ (iter # 1 /\ energy_small)
            IN  IF inp.cal_exx /\ converged /\ ~ExxFinished(ediff_small)
                THEN ExxNextLoop
                ELSE conv_elec' = converged /\ UNCHANGED <<iter, exxVars>>
      BY <1>7 DEF IterFinish
    <2>3. CASE inp.cal_exx /\ ~ExxFinished(ediff_small) /\ ExxNextLoop
      <3>1. /\ ~conv_elec' /\ iter' = 0 /\ xc' = "hybrid"
            /\ two_level_step' = two_level_step + 1
        BY <2>3 DEF ExxNextLoop
      <3>2. two_level_step' \in 0 .. inp.hybrid_step /\ two_level_step' > 0
        BY <1>2, <2>3, <3>1 DEF ExxFinished, ExxInv
      <3>3. mix_DMk.separate_loop
        BY <2>1, <2>3 DEF ExxInv
      <3>4. CASE inp.separate_loop
        <4>1. mix_DMk' = MixMatrix(mix_DMk, two_level_step = 0)
          BY <2>3, <3>4 DEF ExxNextLoop
        <4>2. two_level_step = 0 \/ mix_DMk.allocated
          BY <1>2, <2>3, <3>4 DEF ExxInv
        <4>3. (two_level_step = 0) \in BOOLEAN
          OBVIOUS
        <4>4. mix_DMk' \in Matrices' /\ mix_DMk'.separate_loop /\ mix_DMk'.allocated
          BY <1>2, <3>3, <4>1, <4>2, <4>3, MixMatrixFacts
        <4>. QED BY <2>1, <2>3, <3>1, <3>2, <4>4 DEF ExxInv
      <3>5. CASE ~inp.separate_loop
        <4>1. mix_DMk' = mix_DMk
          BY <2>3, <3>5 DEF ExxNextLoop
        <4>. QED BY <1>2, <2>1, <2>3, <3>1, <3>2, <3>3, <3>5, <4>1 DEF ExxInv
      <3>. QED BY <3>4, <3>5
    <2>4. CASE UNCHANGED <<iter, exxVars>> /\ (inp.cal_exx /\ conv_elec' => ExxFinished(ediff_small))
      <3>1. inp.cal_exx /\ conv_elec' => two_level_step > 0
        BY <1>2, <2>4 DEF ExxFinished
      <3>. QED BY <1>2, <1>3, <2>1, <2>4, <3>1
    <2>. QED BY <2>2, <2>3, <2>4
  <1>8. CASE CheckConvergence
    <2>1. /\ pc = "check" /\ UNCHANGED <<conv_elec, istep, xc, two_level_step, mix_DMk>>
          /\ \/ pc' = "after_scf" /\ iter' = iter /\ (iter = 0 => ~conv_elec)
             \/ pc' = "iter_init" /\ iter' = iter + 1
      BY <1>8 DEF CheckConvergence, exxVars, ControlInv
    <2>2. pc' = "after_scf" => iter > 0
      BY <1>2, <1>8 DEF CheckConvergence, ControlInv
    <2>. QED BY <1>2, <2>1, <2>2 DEF ExxInv
  <1>9. CASE AfterScf
    <2>1. /\ pc = "after_scf" /\ UNCHANGED exxVars
          /\ \/ pc' = "before_scf" /\ istep' = istep + 1
             \/ pc' = "end"
      BY <1>9 DEF AfterScf
    <2>2. iter > 0 /\ istep > 0
      BY <2>1 DEF ControlInv
    <2>. QED BY <1>2, <1>3, <2>1, <2>2
  <1>10. CASE Finished
    <2>1. UNCHANGED ExxInv
      BY <1>10 DEF Finished, vars, ExxInv, Matrices, MixingObjects, loopVars, exxVars
    <2>. QED BY <2>1
  <1>. QED BY <1>4, <1>5, <1>6, <1>7, <1>8, <1>9, <1>10 DEF Next

LEMMA LastKept == IInv /\ Next => LastInv'
  <1>. SUFFICES ASSUME ControlInv, ExxInv, LastInv, Next PROVE LastInv'
    BY DEF IInv
  <1>1. inp' = inp /\ inp \in Inputs
    BY SettingsKept DEF ControlInv
  <1>. USE <1>1, InputFacts
  <1>2. UNCHANGED Iterations
    BY DEF Iterations
  <1>3. CASE BeforeScf \/ IterInit \/ Hamilt2density \/ Hamilt2densityAgain \/ AfterScf
    <2>1. /\ wfc_file' = wfc_file
          /\ pc' \notin Mixed \cup {"check", "after_scf"}
      BY <1>3 DEF BeforeScf, IterInit, Hamilt2density, Hamilt2densityAgain, AfterScf, Mixed
    <2>. QED BY <1>2, <2>1 DEF LastInv, Mixed
  <1>4. CASE Mixing
    <2>1. /\ wfc_file' = wfc_file /\ U' = U /\ pc' = "update_pot"
          /\ conv_elec' => (inp.dft_plus_u => u_converged)
      BY <1>4 DEF Mixing, DensityConverged
    <2>2. u_converged' = u_converged
      BY <2>1 DEF u_converged
    <2>. QED BY <1>2, <2>1, <2>2 DEF LastInv, Mixed
  <1>5. CASE UpdatePot
    <2>1. /\ pc = "update_pot" /\ pc' = "iter_finish" /\ UNCHANGED <<U, conv_elec>>
          /\ wfc_file' = IF inp.out_wfc_lcao /\ LastIteration THEN ThisIteration ELSE wfc_file
          /\ UNCHANGED <<LastIteration, ThisIteration>>
      BY <1>5 DEF UpdatePot, loopVars, exxVars, LastIteration, ThisIteration
    <2>2. ThisIteration \in Iterations
      BY DEF ThisIteration, Iterations, ControlInv, ExxInv
    <2>. QED BY <1>2, <2>1, <2>2 DEF LastInv, u_converged, Mixed
  <1>6. CASE IterFinish
    <2>1. pc = "iter_finish" /\ pc' = "check" /\ UNCHANGED <<istep, wfc_file, U>>
      BY <1>6 DEF IterFinish
    <2>2. inp.EnergyCriterion = {FALSE} =>
             \/ ~conv_elec' /\ iter' = 0
             \/ conv_elec' = conv_elec /\ UNCHANGED <<iter, two_level_step>>
      BY <1>6 DEF IterFinish, ExxNextLoop, exxVars, ControlInv
    <2>3. inp.EnergyCriterion = {FALSE} =>
             /\ LastIteration' => LastIteration /\ UNCHANGED ThisIteration
             /\ conv_elec' => conv_elec
      BY <2>1, <2>2 DEF LastIteration, ThisIteration
    <2>. QED BY <1>2, <2>1, <2>3 DEF LastInv, u_converged, Mixed
  <1>7. CASE CheckConvergence
    <2>1. /\ pc = "check" /\ UNCHANGED <<istep, wfc_file, U, conv_elec, two_level_step>>
          /\ \/ pc' = "after_scf" /\ UNCHANGED iter
             \/ pc' = "iter_init"
      BY <1>7 DEF CheckConvergence, exxVars
    <2>2. pc' = "after_scf" => UNCHANGED <<LastIteration, ThisIteration>> /\ LastIteration
      <3>1. iter \in Int /\ inp.SCF_NMAX \in Int /\ iter <= inp.SCF_NMAX
        BY DEF ControlInv
      <3>. QED BY <1>7, <2>1, <3>1 DEF CheckConvergence, LastIteration, ThisIteration
    <2>. QED BY <1>2, <2>1, <2>2 DEF LastInv, u_converged, Mixed
  <1>8. CASE Finished
    <2>1. UNCHANGED LastInv
      BY <1>2, <1>8 DEF Finished, vars, LastInv, LastIteration, ThisIteration, u_converged,
         Mixed, loopVars, exxVars
    <2>. QED BY <2>1
  <1>. QED BY <1>3, <1>4, <1>5, <1>6, <1>7, <1>8 DEF Next

LEMMA StutterKept == IInv /\ UNCHANGED vars => IInv'
  <1>. SUFFICES ASSUME IInv, UNCHANGED vars PROVE IInv'
    OBVIOUS
  <1>. USE DEF vars, loopVars, rhoVars, mixVars, exxVars
  <1>1. UNCHANGED <<Begun, RestartNext, RestartNow, lcao, pw, u_converged, Restarts, DmrOn>>
    BY DEF Begun, RestartNext, RestartNow, lcao, pw, u_converged, Restarts, DmrOn,
       MixingRestartOn
  <1>2. UNCHANGED <<ControlInv, DensityInv, InputInv>>
    BY <1>1 DEF ControlInv, DensityInv, InputInv, Densities
  <1>3. UNCHANGED <<RestartInv, RingInv, AlignInv>>
    BY <1>1 DEF RestartInv, RestartAhead, Ramping, RingInv, RingOf, AlignInv, UsedSlots, Push,
       MixingRestartOn
  <1>4. UNCHANGED <<ExxInv, LastInv>>
    BY <1>1 DEF ExxInv, Matrices, LastInv, Iterations, LastIteration, ThisIteration
  <1>. QED BY <1>2, <1>3, <1>4 DEF IInv

\* The inductive invariant: at every call of runner, what the densities, the
\* restarts, the rings and the loops of the exact exchange are.
THEOREM InductiveInvariant == Spec => []IInv
  <1>1. IInv /\ [Next]_vars => IInv'
    BY ControlKept, DensityKept, InputKept, RestartKept, RingKept, AlignKept, ExxKept,
       LastKept, StutterKept DEF IInv
  <1>. QED BY InitKept, <1>1, PTL DEF Spec

-----------------------------------------------------------------------------
(* What the loop must do *)

\* Every variable has its type; U never exceeds its target.
THEOREM TypeCorrect == Spec => []TypeOK
  <1>1. ASSUME IInv PROVE TypeOK
    <2>. USE <1>1, InputFacts DEF IInv
    <2>1. inp \in Inputs
      BY DEF ControlInv
    <2>2. RingOf(0) \cup RingOf(inp.mixing_ndim + 1) \subseteq Rings
      <3>1. inp.mixing_ndim \in Nat /\ (inp.mixing_ndim + 1) - 1 = inp.mixing_ndim
        BY <2>1
      <3>2. ASSUME NEW n \in {0, inp.mixing_ndim + 1}, NEW m \in RingOf(n) PROVE m \in Rings
        <4>1. /\ m = [ndim_tot |-> m.ndim_tot, start |-> m.start, ndim_use |-> m.ndim_use,
                      ndim_history |-> m.ndim_history, data |-> m.data]
              /\ m.ndim_tot = n /\ m.start \in -1 .. n - 1 /\ m.ndim_use \in 0 .. n
              /\ m.ndim_history \in 0 .. inp.SCF_NMAX
              /\ m.data \in [0 .. n - 1 -> 0 .. inp.SCF_NMAX]
          BY DEF RingOf
        <4>2. m.start \in -1 .. inp.mixing_ndim /\ m.ndim_use \in 0 .. inp.mixing_ndim + 1
          BY <3>1, <4>1
        <4>3. m.data \in UNION {[0 .. k - 1 -> 0 .. inp.SCF_NMAX] :
                                   k \in {0, inp.mixing_ndim + 1}}
          BY <4>1
        <4>. QED BY <4>1, <4>2, <4>3 DEF Rings
      <3>. QED BY <3>2
    <2>3. /\ pc \in Calls /\ istep \in 1 .. MaxIon /\ iter \in 0 .. inp.SCF_NMAX
          /\ {firstscf, conv_elec} \subseteq BOOLEAN
          /\ drho \in inp.Drho \cup {0} /\ hsolver_error \in inp.HSolverErrors \cup {0}
      BY DEF ControlInv
    <2>4. /\ {rho, rho_save} \subseteq Densities
          /\ pot \in [rho : Densities, xc : Functionals] /\ xc \in Functionals
      BY DEF DensityInv
    <2>5. /\ wfc_file \in Iterations /\ U \in 0 .. inp.U0
          /\ mixing_restart_step \in 0 .. inp.SCF_NMAX + 1
          /\ mixing_restart_count \in 0 .. inp.SCF_NMAX
      BY <2>1 DEF LastInv, InputInv, RestartInv
    <2>6. /\ {rho_mdata, dmr_mdata} \subseteq Rings
          /\ coef \in [0 .. inp.mixing_ndim -> 0 .. inp.SCF_NMAX]
          /\ dmr_out \subseteq (0 .. inp.SCF_NMAX) \X (0 .. inp.SCF_NMAX)
      BY <2>2 DEF RingInv
    <2>7. /\ two_level_step \in 0 .. inp.hybrid_step
          /\ mix_DMk \in [mixing : MixingObjects, separate_loop : BOOLEAN,
                          allocated : BOOLEAN, used : MixingObjects \cup {"none", "plain"}]
      BY DEF ExxInv, Matrices
    <2>. QED BY <2>3, <2>4, <2>5, <2>6, <2>7 DEF TypeOK, Calls, Solving, Mixed
  <1>. QED BY InductiveInvariant, <1>1, PTL

\* A loop restarts the mixing at most as often as U has ramps, although each
\* restart may arm the next one.
THEOREM RestartsBounded == Spec => []RestartBound
  <1>1. IInv => RestartBound
    BY DEF IInv, RestartInv, RestartBound
  <1>. QED BY InductiveInvariant, <1>1, PTL

\* The residual that get_drho measures and mix_rho mixes is that of the density
\* in the potential, also when the diagonalization was repeated.
THEOREM ResidualMeasuresPotential == Spec => []ResidualOfPotential
  <1>1. IInv => ResidualOfPotential
    BY DEF IInv, DensityInv, Solving, ResidualOfPotential
  <1>. QED BY InductiveInvariant, <1>1, PTL

\* The density matrix of the exact exchange is never mixed by an object that
\* init_mixing deleted, nor into storage that was not allocated.
THEOREM ExxMixingIsValid == Spec => []ExxMixingValid
  <1>1. IInv => ExxMixingValid
    BY DEF IInv, ExxInv, Matrices, ExxMixingValid
  <1>. QED BY InductiveInvariant, <1>1, PTL

\* A loop that reports convergence of a hybrid functional ran with it, and left
\* the potential of the last density and of the functional.
THEOREM HybridConverges == Spec => []ConvergedWithHybrid
  <1>1. ASSUME IInv, pc = "after_scf", conv_elec, inp.cal_exx
        PROVE  two_level_step > 0 /\ pot = Potential(rho, "hybrid")
    <2>1. two_level_step > 0 /\ xc = "hybrid"
      BY <1>1 DEF IInv, ExxInv
    <2>2. iter > 0 /\ iter \in Nat
      BY <1>1, InputFacts DEF IInv, ControlInv
    <2>3. pot.rho = rho /\ pot.xc = xc /\ pot \in [rho : Densities, xc : Functionals]
      BY <1>1, <2>2 DEF IInv, DensityInv
    <2>. QED BY <2>1, <2>3 DEF Potential
  <1>2. IInv => ConvergedWithHybrid
    BY <1>1 DEF ConvergedWithHybrid
  <1>. QED BY InductiveInvariant, <1>2, PTL

\* The iteration that restarts the mixing begins with the output of the one
\* before, unmixed, and with an empty ring.
THEOREM RestartsFromOutput == Spec => RestartFromOutput
  <1>1. ASSUME IInv, Next, pc = "iter_init", pc' # pc, iter = mixing_restart_step,
               MixingRestartOn
        PROVE  rho = Density("out", iter - 1) /\ rho_mdata'.ndim_history = 0
    <2>1. IterInit
      BY <1>1 DEF Next, BeforeScf, Hamilt2density, Hamilt2densityAgain, Mixing, UpdatePot,
         IterFinish, CheckConvergence, AfterScf, Finished, vars
    <2>2. RestartNow /\ iter > 1
      BY <1>1, <2>1, InputFacts DEF IInv, InputInv, ControlInv, RestartNow
    <2>3. rho = Density("out", iter - 1)
      BY <1>1, <2>2 DEF IInv, InputInv
    <2>4. RestartIterInit
      BY <1>1, <2>1, <2>2, IterInitCases DEF IInv
    <2>5. rho_mdata' = Resize(inp.mixing_ndim + 1)
      BY <2>4 DEF RestartIterInit, InitMixing
    <2>. QED BY <2>3, <2>5 DEF Resize
  <1>2. IInv /\ [Next]_vars =>
            [ (/\ pc = "iter_init" /\ pc' # pc
               /\ iter = mixing_restart_step /\ MixingRestartOn)
              => rho = Density("out", iter - 1) /\ rho_mdata'.ndim_history = 0 ]_vars
    BY <1>1
  <1>. QED BY InductiveInvariant, <1>2, PTL DEF Spec, RestartFromOutput

\* A small drho ends the loop only when the input of the iteration was mixed:
\* never the restart, whose input is the last output.
THEOREM ConvergesOnMixedInput == Spec => ConvergedOnMixedInput
  <1>1. ASSUME IInv, Next, pc = "mixing", conv_elec', iter > 1, inp.basis_type = "lcao"
        PROVE  rho_save.kind = "mixed"
    <2>1. Mixing
      BY <1>1 DEF Next, BeforeScf, IterInit, Hamilt2density, Hamilt2densityAgain, UpdatePot,
         IterFinish, CheckConvergence, AfterScf, Finished
    <2>2. conv_elec' = DensityConverged(RestartStep)
      BY <1>1, <2>1, MixingCases DEF IInv
    <2>3. /\ ~(MixingRestartOn /\ iter = RestartStep)
          /\ inp.dft_plus_u => u_converged
      BY <1>1, <2>2 DEF DensityConverged
    <2>4. iter \in Nat /\ mixing_restart_step \in Nat
      BY <1>1, InputFacts DEF IInv, ControlInv, InputInv
    <2>5. ~RestartNow
      BY <2>3, <2>4 DEF RestartNow, RestartStep
    <2>. QED BY <1>1, <2>3, <2>5 DEF IInv, InputInv, lcao
  <1>2. IInv /\ [Next]_vars =>
            [ (pc = "mixing" /\ conv_elec' /\ iter > 1 /\ inp.basis_type = "lcao")
              => rho_save.kind = "mixed" ]_vars
    BY <1>1
  <1>. QED BY InductiveInvariant, <1>2, PTL DEF Spec, ConvergedOnMixedInput

\* In an iteration that mixed the density, mix_dmr gives each density matrix the
\* coefficient of the density of the same iteration: the ring of the density
\* matrix restarts with that of the density and gets as many vectors.
THEOREM DmrIsMixedAlike == Spec => DmrMixedAlike
  <1>1. ASSUME IInv, Next, pc = "iter_finish", dmr_mdata' # dmr_mdata, rho.kind = "mixed",
               NEW pair \in dmr_out'
        PROVE  pair[1] = pair[2]
    <2>1. IterFinish
      BY <1>1 DEF Next, BeforeScf, IterInit, Hamilt2density, Hamilt2densityAgain, Mixing,
         UpdatePot, CheckConvergence, AfterScf, Finished, vars, mixVars
    <2>2. DmrOn /\ MixDmr
      BY <1>1, <2>1 DEF IterFinish, DmrOn
    <2>3. /\ rho_mdata = Push(dmr_mdata, iter)
          /\ \A s \in UsedSlots(rho_mdata) : coef[s] = rho_mdata.data[s]
      BY <1>1, <2>2 DEF IInv, AlignInv, Mixed
    <2>4. dmr_mdata' = rho_mdata
      BY <2>2, <2>3 DEF MixDmr
    <2>5. PICK s \in UsedSlots(rho_mdata) : pair = <<rho_mdata.data[s], coef[s]>>
      BY <1>1, <2>2, <2>4 DEF MixDmr
    <2>. QED BY <2>3, <2>5
  <1>2. IInv /\ [Next]_vars =>
            [ (pc = "iter_finish" /\ dmr_mdata' # dmr_mdata /\ rho.kind = "mixed")
              => \A pair \in dmr_out' : pair[1] = pair[2] ]_vars
    BY <1>1
  <1>. QED BY InductiveInvariant, <1>2, PTL DEF Spec, DmrMixedAlike

\* Without the energy criterion, which ends a loop after its last update_pot,
\* the wavefunctions on disk are those of the last iteration.
THEOREM WfcIsOfLastIteration ==
    ASSUME \A i \in Inputs : i.out_wfc_lcao => i.EnergyCriterion = {FALSE}
    PROVE  Spec => []WfcOfLastIteration
  <1>1. ASSUME IInv, pc = "after_scf", inp.out_wfc_lcao PROVE wfc_file = ThisIteration
    <2>1. inp.EnergyCriterion = {FALSE}
      BY <1>1 DEF IInv, ControlInv
    <2>. QED BY <1>1, <2>1 DEF IInv, LastInv
  <1>2. IInv => WfcOfLastIteration
    BY <1>1 DEF WfcOfLastIteration
  <1>. QED BY InductiveInvariant, <1>2, PTL

\* Without the energy criterion a loop that reports convergence of DFT+U reached
\* the target U: only that criterion ends a loop without asking u_converged.
THEOREM ConvergesAtTargetU ==
    ASSUME \A i \in Inputs : i.dft_plus_u => i.EnergyCriterion = {FALSE}
    PROVE  Spec => []ConvergedAtTargetU
  <1>1. ASSUME IInv, pc = "after_scf", conv_elec, inp.dft_plus_u PROVE u_converged
    <2>1. inp.EnergyCriterion = {FALSE}
      BY <1>1 DEF IInv, ControlInv
    <2>. QED BY <1>1, <2>1 DEF IInv, LastInv
  <1>2. IInv => ConvergedAtTargetU
    BY <1>1 DEF ConvergedAtTargetU
  <1>. QED BY InductiveInvariant, <1>2, PTL
=============================================================================
