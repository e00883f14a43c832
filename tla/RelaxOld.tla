------------------------------ MODULE RelaxOld ------------------------------
(***************************************************************************)
(* Relax_Driver::relax_driver with Relax_old: the nested relaxation of the *)
(* ions, by Ions_Move_BFGS, Ions_Move_CG, Ions_Move_SD or the first two    *)
(* one after the other, and of the cell by Lattice_Change_CG.              *)
(*                                                                         *)
(* A structure is a number and the number of its cell; a position, a       *)
(* gradient or an energy that an optimizer keeps is the structure it       *)
(* belongs to.  Energies are small integers; forces and stresses are only  *)
(* below their thresholds or not, and the tests of a line search are left  *)
(* open.                                                                   *)
(***************************************************************************)
EXTENDS Integers, Sequences

CONSTANTS
    Inputs,      \* the settings of the runs
    Energies,    \* what a structure may have
    relax_nmax

Methods == {"bfgs", "cg", "sd", "cg_bfgs"}

Settings ==
    [calculation        : {"relax", "cell-relax"},
     relax_method       : Methods,
     if_atoms_can_move  : BOOLEAN,
     if_cell_can_change : BOOLEAN]

ASSUME InputsAssumption == Inputs \subseteq Settings
ASSUME EnergiesAssumption == Energies \subseteq Nat
ASSUME NmaxAssumption == relax_nmax \in Nat \ {0}

VARIABLES
    inp,
    pc,
    istep, force_step, stress_step,
    RELAX_METHOD,
    tau,          \* the structure of UnitCell
    structures,   \* the cell of every structure there was
    energy,       \* the energy of every structure with one
    STRU_ION_D,   \* the structure in this file
    basic,        \* Ions_Move_Basic
    bfgs, cg, sd,
    lattice_cg,
    relaxed,         \* history: the structures whose ions were converged
    cell_converged   \* history: the structure whose cell was

counters  == <<istep, force_step, stress_step>>
optimizers == <<RELAX_METHOD, basic, bfgs, cg, sd, lattice_cg>>
vars == <<inp, pc, counters, tau, structures, energy, STRU_ION_D, optimizers,
          relaxed, cell_converged>>

Nothing == 0   \* memory that is zero, or no structure

Cell(s) == structures[s]

\* Ions_Move_Basic::istep
ForceStep == IF inp.calculation = "cell-relax" THEN force_step ELSE istep
FirstStep == ForceStep = 1

-----------------------------------------------------------------------------
(* Ions_Move_CG::start and Lattice_Change_CG::start, when not converged *)

NewCg ==
    [sd |-> FALSE, trial |-> FALSE, ncggrad |-> 0, nbrent |-> 0,
     grad0 |-> Nothing,
     direction |-> <<Nothing, Nothing>>]  \* the gradients it is made of

\* Mutant: only the flag of the first direction is reset.
ResetCgKeepingLine(c, first) == IF first THEN [c EXCEPT !.sd = TRUE] ELSE c

\* The static variables are set at the first step.
ResetCg(c, first) ==
    IF first THEN [c EXCEPT !.sd = TRUE, !.trial = TRUE, !.ncggrad = 0, !.nbrent = 0]
    ELSE c

\* A direction from the gradient of s, conjugated with the one before
\* unless it is the first or Brent's method failed.
NewDirection(c, s, failed) ==
    [c EXCEPT !.sd = FALSE, !.trial = TRUE, !.ncggrad = @ + 1, !.grad0 = s,
              !.direction = <<s, IF c.ncggrad = 0 \/ failed THEN Nothing
                                 ELSE c.grad0>>]

TrialStep(c, s) ==
    {NewDirection(c, s, FALSE),
     [c EXCEPT !.trial = FALSE]}

\* Mutant: one Brent step more than allowed.
BrentStepOnceMore(c, s) ==
    LET n == c.nbrent + 1
    IN  {NewDirection([c EXCEPT !.nbrent = 0], s, FALSE)}
        \cup IF n > 4 THEN {}
             ELSE {NewDirection([c EXCEPT !.nbrent = n], s, TRUE),
                   [c EXCEPT !.nbrent = n]}

\* nbrent is not reset when the method leads to a negative step.
BrentStep(c, s) ==
    LET n == c.nbrent + 1
    IN  {NewDirection([c EXCEPT !.nbrent = 0], s, FALSE)}
        \cup IF n > 3 THEN {}
             ELSE {NewDirection([c EXCEPT !.nbrent = n], s, TRUE),
                   [c EXCEPT !.nbrent = n]}

CgStart(c, first, s) ==
    LET b == ResetCg(c, first)
    IN  CASE b.sd            -> {NewDirection(b, s, FALSE)}
          [] ~b.sd /\ b.trial  -> TrialStep(b, s)
          [] ~b.sd /\ ~b.trial -> BrentStep(b, s)

-----------------------------------------------------------------------------
(* Ions_Move_Basic *)

\* setup_etot with judgement 0, as every method calls it
SetupEtot(b, s, first) ==
    [b EXCEPT !.etot = s, !.etot_p = IF first THEN s ELSE b.etot]

\* move_atoms, change_lattice: the structure that comes next
NextStructure == Len(structures) + 1

Moved(cell) ==
    /\ tau' = NextStructure
    /\ structures' = Append(structures, cell)

-----------------------------------------------------------------------------
(* The methods for the ions: what they do with the structure tau when it is *)
(* not converged.                                                           *)

E(s) == energy[s]

\* Ions_Move_BFGS::start up to the test of convergence
BfgsHead ==
    [bfgs EXCEPT !.first_step = FALSE,
                 !.pos = IF bfgs.first_step THEN tau ELSE @]

\* restart_bfgs without a saved step
Restarted ==
    IF bfgs.save_flag THEN BfgsHead
    ELSE [BfgsHead EXCEPT !.pos_p = Nothing, !.grad_p = Nothing,
                          !.tr_min_hit = FALSE]

\* Mutant: the gradient of the rejected structure is saved.
SavedNewGradient(b, pos, grad, hit) ==
    [b EXCEPT !.save_flag = TRUE, !.pos_p = pos, !.grad_p = tau,
              !.pos = NextStructure, !.tr_min_hit = hit]

\* save_bfgs of the point pos with its gradient, and the move from there
Saved(b, pos, grad, hit) ==
    [b EXCEPT !.save_flag = TRUE, !.pos_p = pos, !.grad_p = grad,
              !.pos = NextStructure, !.tr_min_hit = hit]

\* Mutant: the energy of the rejected structure stays.
BfgsRejectsKeepingEnergy(b) ==
    /\ E(b.etot) > E(b.etot_p)
    /\ basic' = b
    /\ IF bfgs.save_flag
       THEN \E below_rmin \in BOOLEAN :
              IF below_rmin /\ bfgs.tr_min_hit
              THEN pc' = "quit" /\ UNCHANGED <<bfgs, tau, structures>>
              ELSE /\ pc' = "runner" /\ Moved(Cell(tau))
                   /\ bfgs' = Saved(Restarted, bfgs.pos_p, bfgs.grad_p, below_rmin)
       ELSE \* a step of length zero
            /\ pc' = "quit"
            /\ bfgs' = [Restarted EXCEPT !.pos = Nothing]
            /\ UNCHANGED <<tau, structures>>

\* etot > etot_p: back to the last successful step with a smaller radius,
\* or, when that is below relax_bfgs_rmin, against its gradient
BfgsRejects(b) ==
    /\ E(b.etot) > E(b.etot_p)
    /\ basic' = [b EXCEPT !.etot = b.etot_p]
    /\ IF bfgs.save_flag
       THEN \E below_rmin \in BOOLEAN :
              IF below_rmin /\ bfgs.tr_min_hit
              THEN pc' = "quit" /\ UNCHANGED <<bfgs, tau, structures>>
              ELSE /\ pc' = "runner" /\ Moved(Cell(tau))
                   /\ bfgs' = Saved(Restarted, bfgs.pos_p, bfgs.grad_p, below_rmin)
       ELSE \* a step of length zero
            /\ pc' = "quit"
            /\ bfgs' = [Restarted EXCEPT !.pos = Nothing]
            /\ UNCHANGED <<tau, structures>>

\* new_step, whose trust radius may be below relax_bfgs_rmin after the first
BfgsAccepts(b) ==
    /\ E(b.etot) <= E(b.etot_p)
    /\ basic' = b
    /\ \E below_rmin \in IF bfgs.save_flag THEN BOOLEAN ELSE {FALSE} :
         IF below_rmin /\ bfgs.tr_min_hit
         THEN pc' = "quit" /\ UNCHANGED <<bfgs, tau, structures>>
         ELSE /\ pc' = "runner" /\ Moved(Cell(tau))
              /\ bfgs' = Saved(Restarted, Restarted.pos, tau, below_rmin)

MoveBfgs ==
    /\ RELAX_METHOD = "bfgs"
    /\ LET b == SetupEtot(basic, tau, FirstStep)
       IN  BfgsRejects(b) \/ BfgsAccepts(b)
    /\ UNCHANGED <<RELAX_METHOD, cg, sd>>

\* A new direction calls setup_etot again; with it and small forces comes the
\* switch to BFGS.
MoveCg ==
    /\ RELAX_METHOD \in {"cg", "cg_bfgs"}
    /\ cg' \in CgStart(cg, FirstStep, tau)
    /\ basic' = IF cg'.trial THEN [etot |-> tau, etot_p |-> tau]
                ELSE SetupEtot(basic, tau, FirstStep)
    /\ \/ RELAX_METHOD' = RELAX_METHOD
       \/ RELAX_METHOD = "cg_bfgs" /\ cg'.trial /\ RELAX_METHOD' = "bfgs"
    /\ pc' = "runner" /\ Moved(Cell(tau))
    /\ UNCHANGED <<bfgs, sd>>

\* cal_tradius_sd: the radius as the number of times it was changed
Radius(b, s) ==
    IF FirstStep THEN [s EXCEPT !.radius = 0]
    ELSE IF E(b.etot) < E(b.etot_p)
    THEN [s EXCEPT !.accepted_number = @ + 1,
                   !.radius = IF s.accepted_number + 1 > 3
                                 /\ (s.accepted_number + 1) % 3 = 1
                              THEN @ + 1 ELSE @]
    ELSE [s EXCEPT !.accepted_number = 0, !.radius = @ + 1]

\* Mutant: energy_saved of an earlier cell is kept when it is lower.
SdSavedOfAnyCell ==
    IF sd.saved = Nothing \/ E(tau) <= E(sd.saved)
    THEN [sd EXCEPT !.saved = tau, !.pos = tau] ELSE sd

\* Ions_Move_SD::start up to the test of convergence
SdSaved ==
    IF FirstStep \/ E(tau) <= E(sd.saved)
    THEN [sd EXCEPT !.saved = tau, !.pos = tau] ELSE sd

\* move_atoms adds the move to pos_saved in place: after a rejected step SD
\* goes on from the rejected structure, along the gradient it has saved.
MoveSd ==
    /\ RELAX_METHOD = "sd"
    /\ basic' = SetupEtot(basic, tau, FirstStep)
    /\ sd' = [Radius(basic', SdSaved) EXCEPT !.pos = NextStructure]
    /\ pc' = "runner" /\ Moved(Cell(tau))
    /\ UNCHANGED <<RELAX_METHOD, bfgs, cg>>

-----------------------------------------------------------------------------
(* Relax_old::relax_step and the loop around it *)

Init ==
    /\ inp \in Inputs
    /\ pc = "runner"
    /\ istep = 1 /\ force_step = 1 /\ stress_step = 1
    /\ RELAX_METHOD = inp.relax_method
    /\ tau = 1 /\ structures = <<0>> /\ energy = <<>>
    /\ STRU_ION_D = Nothing
    /\ basic = [etot |-> Nothing, etot_p |-> Nothing]
    /\ bfgs = [first_step |-> TRUE, save_flag |-> FALSE, tr_min_hit |-> FALSE,
               pos |-> Nothing, pos_p |-> Nothing, grad_p |-> Nothing]
    /\ cg = NewCg
    /\ sd = [saved |-> Nothing,  \* energy_saved and grad_saved
             pos |-> Nothing,    \* pos_saved
             radius |-> 0, accepted_number |-> 0]
    /\ lattice_cg = NewCg
    /\ relaxed = {} /\ cell_converged = Nothing

\* runner, cal_energy, cal_force and cal_stress
Runner ==
    /\ pc = "runner"
    /\ pc' = "relax_step"
    /\ \E e \in Energies : energy' = Append(energy, e)
    /\ UNCHANGED <<inp, counters, tau, structures, STRU_ION_D, optimizers,
                   relaxed, cell_converged>>

AtStep == pc = "relax_step" /\ istep < relax_nmax

\* The ions are not converged and move, or BFGS gives up.
RelaxIons ==
    /\ AtStep /\ inp.if_atoms_can_move
    /\ MoveBfgs \/ MoveCg \/ MoveSd
    /\ force_step' = ForceStep + 1 /\ istep' = istep + 1
    /\ STRU_ION_D' = IF pc' = "quit" THEN STRU_ION_D ELSE tau'
    /\ UNCHANGED <<inp, stress_step, energy, lattice_cg, relaxed,
                   cell_converged>>

\* What a method does when it finds the ions converged
ConvergedHead ==
    /\ inp.if_atoms_can_move
    /\ basic' = SetupEtot(basic, tau, FirstStep)
    /\ bfgs' = IF RELAX_METHOD = "bfgs" THEN BfgsHead ELSE bfgs
    /\ cg' = IF RELAX_METHOD \in {"cg", "cg_bfgs"} THEN ResetCg(cg, FirstStep)
             ELSE cg
    /\ sd' = IF RELAX_METHOD = "sd" THEN SdSaved ELSE sd
    /\ relaxed' = relaxed \cup {tau}
    /\ UNCHANGED RELAX_METHOD

\* For the mutant: nothing is looked at.
ConvergedAgo ==
    /\ relaxed # {}
    /\ UNCHANGED <<RELAX_METHOD, basic, bfgs, cg, sd, relaxed>>

NoIons ==
    /\ ~inp.if_atoms_can_move
    /\ UNCHANGED <<RELAX_METHOD, basic, bfgs, cg, sd, relaxed>>

\* Mutant: ions that were converged once stay so.
ReadyForCellAgain == ConvergedHead \/ NoIons \/ ConvergedAgo

\* do_relax returned true, or if_do_relax false.
ReadyForCell == ConvergedHead \/ NoIons

CellCanChange == inp.calculation = "cell-relax" /\ inp.if_cell_can_change

\* The stress is not converged and the cell changes.
RelaxCell ==
    /\ AtStep /\ CellCanChange /\ ReadyForCell
    /\ lattice_cg' \in CgStart(lattice_cg, stress_step = 1, tau)
    /\ pc' = "runner" /\ Moved(Cell(tau) + 1)
    /\ force_step' = 1 /\ stress_step' = stress_step + 1
    /\ istep' = istep + 1
    /\ STRU_ION_D' = tau'
    /\ UNCHANGED <<inp, energy, cell_converged>>

\* Nothing is left to move.
Converged ==
    /\ AtStep /\ ReadyForCell
    /\ IF CellCanChange
       THEN /\ cell_converged' = tau
            /\ lattice_cg' = ResetCg(lattice_cg, stress_step = 1)
       ELSE UNCHANGED <<cell_converged, lattice_cg>>
    /\ pc' = "converged"
    /\ STRU_ION_D' = tau
    /\ UNCHANGED <<inp, counters, tau, structures, energy>>

\* istep = relax_nmax
LastStep ==
    /\ pc = "relax_step" /\ istep = relax_nmax
    /\ pc' = "last"
    /\ STRU_ION_D' = tau
    /\ UNCHANGED <<inp, counters, tau, structures, energy, optimizers,
                   relaxed, cell_converged>>

\* read_exit_file at the end of a pass
Exit ==
    /\ pc = "runner" /\ istep > 1
    /\ pc' = "exit"
    /\ UNCHANGED <<inp, counters, tau, structures, energy, STRU_ION_D, optimizers,
                   relaxed, cell_converged>>

Next == \/ Runner
        \/ RelaxIons
        \/ RelaxCell
        \/ Converged
        \/ LastStep
        \/ Exit

Spec == Init /\ [][Next]_vars

-----------------------------------------------------------------------------
(* Properties *)

CgState ==
    [sd : BOOLEAN, trial : BOOLEAN, ncggrad : Nat, nbrent : 0 .. 3, grad0 : Nat,
     direction : Nat \X Nat]

TypeOK ==
    /\ inp \in Inputs
    /\ pc \in {"runner", "relax_step", "quit", "converged", "last", "exit"}
    /\ istep \in 1 .. relax_nmax
    /\ force_step \in 1 .. istep /\ stress_step \in 1 .. istep
    /\ RELAX_METHOD \in Methods
    /\ tau = Len(structures) /\ Len(energy) \in {tau - 1, tau}
    /\ STRU_ION_D \in 0 .. tau
    /\ basic \in [etot : 0 .. tau, etot_p : 0 .. tau]
    /\ bfgs \in [first_step : BOOLEAN, save_flag : BOOLEAN, tr_min_hit : BOOLEAN,
                 pos : 0 .. tau, pos_p : 0 .. tau, grad_p : 0 .. tau]
    /\ cg \in CgState /\ lattice_cg \in CgState
    /\ sd \in [saved : 0 .. tau, pos : 0 .. tau, radius : Nat, accepted_number : Nat]
    /\ relaxed \subseteq 1 .. tau /\ cell_converged \in 0 .. tau

BfgsAt(point) ==
    RELAX_METHOD = "bfgs" /\ ~bfgs.first_step /\ pc = point

\* bfgs_basic.h, pos: the coordinates of the system.  After the first step
\* BFGS does not read them but keeps account of them.
PosOfStructure == BfgsAt("relax_step") => bfgs.pos = tau

\* In a fixed cell, the position, the gradient and the energy BFGS compares a
\* new structure with are those of one structure, also after steps back, and
\* the position it goes on from is that of the new one.
BfgsPoint ==
    inp.calculation = "relax" /\ BfgsAt("relax_step") =>
        /\ bfgs.pos = tau
        /\ bfgs.save_flag => bfgs.pos_p = bfgs.grad_p /\ bfgs.grad_p = basic.etot

\* A structure that BFGS goes on from never has a higher energy than the one
\* before it in the same cell, however many steps were taken back.
BfgsDescends ==
    [][BfgsAt("relax_step") /\ bfgs.save_flag /\ ~FirstStep
            /\ bfgs'.grad_p # bfgs.grad_p
        => E(bfgs'.grad_p) <= E(bfgs.grad_p)]_vars

\* A conjugate direction of the ions is made of gradients in the present cell,
\* though the memory of Ions_Move_CG outlives the change of the cell.
ConjugateWithinCell ==
    pc = "runner" /\ ~FirstStep /\ inp.relax_method = "cg" =>
        /\ Cell(cg.direction[1]) = Cell(tau)
        /\ cg.direction[2] # Nothing => Cell(cg.direction[2]) = Cell(tau)

\* The gradient SD moves along is that of the lowest structure so far in the
\* present cell, though energy_saved outlives the change of the cell, and
\* pos_saved is the position of the structure, though SD reads it only in the
\* first step and when the energy did not rise.
SdLowest ==
    inp.relax_method = "sd" /\ pc = "runner" /\ ~FirstStep =>
        /\ Cell(sd.saved) = Cell(tau) /\ sd.pos = tau
        /\ \A s \in 1 .. Len(energy) :
               Cell(s) = Cell(tau) => E(sd.saved) <= E(s)

\* opt.md: variable-cell relaxation follows a nested procedure.  Stresses are
\* only used of structures whose ions were found converged in the same pass,
\* and a relaxation that ends as converged is so for the structure it writes.
Nested ==
    /\ inp.if_atoms_can_move =>
           \A k \in 1 .. 2 : lattice_cg.direction[k] \in relaxed \cup {Nothing}
    /\ pc = "converged" =>
           /\ STRU_ION_D = tau /\ Len(energy) = tau
           /\ inp.if_atoms_can_move => tau \in relaxed
           /\ CellCanChange => cell_converged = tau
=============================================================================
