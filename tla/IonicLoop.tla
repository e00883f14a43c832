------------------------------ MODULE IonicLoop ------------------------------
(***************************************************************************)
(* The steps of the ions and of the cell around the SCF loop: the drivers  *)
(* Relax_Driver with Relax (relax_new) or Relax_old, and Run_MD, move the  *)
(* structure and say so by two flags of UnitCell; before_scf and after_scf *)
(* of the solver guess the density and keep those of the last structures.  *)
(* Where a driver moves to, and when it finds the structure converged, is  *)
(* left open.                                                              *)
(***************************************************************************)
EXTENDS ChargeExtra

CONSTANTS
    Inputs,   \* the settings of the runs
    Moves,    \* displacements of a step, in direct coordinates
    MaxSteps  \* relax_nmax, and one more than md_nstep

Drivers == {"relax", "relax_old", "md"}

Settings ==
    [driver     : Drivers,
     cell_moves : BOOLEAN,     \* cell-relax; npt and msst
     chg_extrap : {"none", "atomic", "first-order", "second-order"}]

ASSUME InputsAssumption == Inputs \subseteq Settings
ASSUME MovesAssumption == Moves \subseteq Int \X Int
ASSUME MaxStepsAssumption == MaxSteps \in Nat \ {0}

VARIABLES
    inp,
    pc,
    istep,                    \* SCF loops begun
    ions, cell,               \* the structure
    dis,                      \* Atom::dis, the last displacement
    ionic_position_updated,
    cell_parameter_updated,
    strucFac,                 \* the positions the structure factors are of
    rho,                      \* what the SCF loop starts from
    CE,
    done                      \* history: the structures with a density

unitCell == <<ions, cell, dis, ionic_position_updated, cell_parameter_updated>>
vars == <<inp, pc, istep, unitCell, strucFac, rho, CE, done>>

pot_order == PotOrder(inp.chg_extrap)

Previous == Guess(1, <<0, 0, 0>>, Still, -1)

Init ==
    /\ inp \in Inputs
    /\ pc = "before_scf"
    /\ istep = 1
    /\ ions = Still /\ cell = 0
    /\ dis = Still
    /\ ionic_position_updated = FALSE
    /\ cell_parameter_updated = FALSE
    /\ strucFac = ions
    /\ rho = Previous
    /\ CE = Init_CE
    /\ done = <<>>

-----------------------------------------------------------------------------
(* The solver *)

\* Mutant: the atoms are added before the structure factors are renewed.
ExtrapolateAtomsFirst ==
    LET ce == UpdateAllDis(CE, pot_order, dis)
        rho_extr == RhoExtr(ce, pot_order)
        c == Coefficients(ce, rho_extr)
    IN  /\ CE' = ce
        /\ strucFac' = ions
        /\ rho' = IF rho_extr = 0 THEN Previous
                  ELSE Guess(c.den, c.weights, strucFac, cell)

\* update_all_dis and extrapolate_charge
Extrapolate ==
    LET ce == UpdateAllDis(CE, pot_order, dis)
        rho_extr == RhoExtr(ce, pot_order)
        c == Coefficients(ce, rho_extr)
    IN  /\ CE' = ce
        /\ strucFac' = ions
        /\ rho' = IF rho_extr = 0 THEN Previous
                  ELSE Guess(c.den, c.weights, strucFac', cell)

\* init_after_vc, which comes first, keeps the structure factors: they do not
\* change with the cell.
BeforeScf ==
    /\ pc = "before_scf"
    /\ pc' = "scf"
    /\ IF ionic_position_updated THEN Extrapolate
       ELSE /\ rho' = Previous
            /\ UNCHANGED <<CE, strucFac>>
    /\ UNCHANGED <<inp, istep, unitCell, done>>

\* The SCF loop, converged or not, and after_scf.
AfterScf ==
    /\ pc = "scf"
    /\ pc' = inp.driver
    /\ CE' = UpdateDeltaRho(CE, pot_order,
                             [ions |-> ions, atoms |-> strucFac, cell |-> cell])
    /\ done' = <<[ions |-> ions, cell |-> cell]>> \o done
    /\ UNCHANGED <<inp, istep, unitCell, strucFac, rho>>

-----------------------------------------------------------------------------
(* The drivers *)

Solver == <<strucFac, rho, CE, done>>

\* Mutant: one step more than relax_nmax.
ContinueOnceMore ==
    istep <= MaxSteps /\ pc' = "before_scf" /\ istep' = istep + 1

Continue == istep < MaxSteps /\ pc' = "before_scf" /\ istep' = istep + 1

\* update_pos_tau, update_pos_taud, for atoms that move in all directions or in
\* none.  Of an atom frozen in some, update_pos_tau leaves components of the
\* last dis in place and turns them to direct coordinates once more.
UpdatePosition(move) == ions' = Plus(ions, move) /\ dis' = move

\* Relax::move_cell_ions, after which the loop may have reached relax_nmax.
RelaxStep ==
    /\ pc = "relax" /\ Continue
    /\ \E move \in Moves : UpdatePosition(move)
    /\ cell' = IF inp.cell_moves THEN cell + 1 ELSE cell
    /\ ionic_position_updated' = TRUE
    /\ cell_parameter_updated' = (cell_parameter_updated \/ inp.cell_moves)
    /\ UNCHANGED <<inp, Solver>>

\* Relax_old::relax_step: the ions first, the cell when they are converged
\* or cannot move.
RelaxOldIons ==
    /\ pc = "relax_old" /\ Continue
    /\ \E move \in Moves : UpdatePosition(move)
    /\ ionic_position_updated' = TRUE
    /\ cell_parameter_updated' = FALSE
    /\ UNCHANGED <<inp, cell, Solver>>

RelaxOldCell ==
    /\ pc = "relax_old" /\ inp.cell_moves /\ Continue
    /\ cell' = cell + 1
    /\ ionic_position_updated' = FALSE
    /\ cell_parameter_updated' = TRUE
    /\ UNCHANGED <<inp, ions, dis, Solver>>

\* setup sets the flags after the first SCF loop; first_half moves.
MdStep ==
    /\ pc = "md" /\ Continue
    /\ \E move \in Moves : UpdatePosition(move)
    /\ cell' = IF inp.cell_moves THEN cell + 1 ELSE cell
    /\ ionic_position_updated' = TRUE
    /\ cell_parameter_updated' = inp.cell_moves
    /\ UNCHANGED <<inp, Solver>>

\* Converged, an EXIT file, or the last step.
Stop ==
    /\ pc \in Drivers
    /\ pc' = "stopped"
    /\ ionic_position_updated' = (ionic_position_updated /\ pc # "relax_old")
    /\ cell_parameter_updated' = (cell_parameter_updated /\ pc # "relax_old")
    /\ UNCHANGED <<inp, istep, ions, cell, dis, Solver>>

Next == \/ BeforeScf
        \/ AfterScf
        \/ RelaxStep
        \/ RelaxOldIons
        \/ RelaxOldCell
        \/ MdStep
        \/ Stop

Spec == Init /\ [][Next]_vars

-----------------------------------------------------------------------------
(* Properties *)

TypeOK ==
    /\ inp \in Inputs
    /\ pc \in {"before_scf", "scf", "stopped"} \cup Drivers
    /\ istep \in 1 .. MaxSteps
    /\ ions \in Int \X Int /\ cell \in 0 .. MaxSteps - 1 /\ dis \in Int \X Int
    /\ ionic_position_updated \in BOOLEAN /\ cell_parameter_updated \in BOOLEAN
    /\ strucFac \in Int \X Int
    /\ rho.den \in Int \ {0}
    /\ CE.istep \in 0 .. istep - 1 /\ Len(CE.dis) = 3 /\ Len(CE.delta_rho) = 3
    /\ Len(done) \in 0 .. istep

Guessed == pc = "scf" /\ rho # Previous

\* A guess combines what is left of the densities of the last structures
\* when the density of their own atoms is taken away, and puts back the
\* atoms and the volume of the structure whose SCF loop begins.
GuessOfThisStructure ==
    Guessed =>
        /\ rho.atoms = ions /\ rho.cell = cell
        /\ \A k \in 1 .. 3 :
                rho.weights[k] # 0 =>
                    /\ k <= Len(done)
                    /\ CE.delta_rho[k] = [ions |-> done[k].ions, cell |-> done[k].cell,
                                          atoms |-> done[k].ions]

\* The positions extrapolated with the weights of the guess, times den.
Extrapolated ==
    Plus(Times(rho.weights[1], done[1].ions),
         Plus(Times(rho.weights[2], done[2].ions),
              Times(rho.weights[3], done[3].ions)))

Error == Plus(Extrapolated, Times(0 - rho.den, ions))

Displacement(k) ==
    Plus(IF k = 0 THEN ions ELSE done[k].ions, Times(-1, done[k + 1].ions))

\* charge_extra.cpp, extrapolate_charge: alpha and beta are calculated so that
\* the positions extrapolated with them are closest to those of the new
\* structure.  A step that moved nothing is left out.
ExtrapolatedPositionsClosest ==
    Guessed /\ RhoExtr(CE, pot_order) = 3 /\ Displacement(1) # Still =>
        /\ rho.weights[1] + rho.weights[2] + rho.weights[3] = rho.den
        /\ Dot(Error, Displacement(1)) = 0
        /\ Dot(Error, Displacement(2)) = 0

\* When the ions move by the same displacement in every step, the first- and
\* the second-order guess follow them: nothing is lost of a density that
\* changes in proportion to the positions.
UniformMotionFollowed ==
    Guessed /\ RhoExtr(CE, pot_order) >= 2 =>
        LET order == RhoExtr(CE, pot_order)
            used == IF order = 2
                    THEN Plus(Times(rho.weights[1], done[1].ions),
                              Times(rho.weights[2], done[2].ions))
                    ELSE Extrapolated
        IN  (\A k \in 1 .. order - 1 : Displacement(k) = Displacement(0)) =>
                used = Times(rho.den, ions)
=============================================================================
