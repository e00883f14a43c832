--------------------------- MODULE RelaxOld_proof ---------------------------
(***************************************************************************)
(* Proofs about RelaxOld, for any energies and any relax_nmax.             *)
(***************************************************************************)
EXTENDS RelaxOld, TLAPS

\* What the optimizers keep of the structures up to t
BasicStates(t) == [etot : 0 .. t, etot_p : 0 .. t]

BfgsStates(t) ==
    [first_step : BOOLEAN, save_flag : BOOLEAN, tr_min_hit : BOOLEAN,
     pos : 0 .. t, pos_p : 0 .. t, grad_p : 0 .. t]

SdStates(t) ==
    [saved : 0 .. t, pos : 0 .. t, radius : Nat, accepted_number : Nat]

ControlInv ==
    /\ inp \in Inputs
    /\ pc \in {"runner", "relax_step", "quit", "converged", "last", "exit"}
    /\ istep \in Nat /\ 1 <= istep /\ istep <= relax_nmax
    /\ force_step \in Nat /\ 1 <= force_step /\ force_step <= istep
    /\ stress_step \in Nat /\ 1 <= stress_step /\ stress_step <= istep
    /\ RELAX_METHOD \in Methods

StructuresInv ==
    /\ structures \in Seq(Nat) /\ tau = Len(structures) /\ 1 <= tau
    /\ energy \in Seq(Nat)
    /\ Len(energy) = IF pc \in {"runner", "exit"} THEN tau - 1 ELSE tau
    /\ basic \in BasicStates(tau) /\ bfgs \in BfgsStates(tau) /\ sd \in SdStates(tau)
    /\ relaxed \subseteq 1 .. tau /\ cell_converged \in 0 .. tau
    /\ STRU_ION_D \in 0 .. tau

\* What BFGS keeps, in a fixed cell (pos and pos_p) and in any
BfgsInv ==
    /\ bfgs.first_step => ~bfgs.save_flag
    /\ RELAX_METHOD # "bfgs" => bfgs.first_step
    /\ pc \in {"runner", "relax_step"} /\ ~bfgs.first_step =>
           /\ inp.calculation = "relax" =>
                  /\ ~FirstStep /\ bfgs.pos = tau
                  /\ bfgs.save_flag => bfgs.pos_p = bfgs.grad_p
           /\ bfgs.save_flag /\ ~FirstStep => bfgs.grad_p = basic.etot

\* The gradients a direction is and will be made of are of structures in G.
MadeOf(c, G) ==
    /\ c.grad0 \in G /\ c.direction[1] \in G
    /\ c.direction[2] \in G \cup {Nothing}

InCell == {s \in 1 .. tau : Cell(s) = Cell(tau)}

CgInv ==
    /\ cg \in CgState /\ lattice_cg \in CgState
    /\ inp.relax_method = "cg" <=> RELAX_METHOD = "cg"
    /\ pc \in {"runner", "relax_step"} /\ ~FirstStep /\ RELAX_METHOD = "cg" =>
           MadeOf(cg, InCell)
    /\ inp.if_atoms_can_move => MadeOf(lattice_cg, relaxed \cup {Nothing})

\* Every cell is entered once, and its first structure begins a relaxation.
CellsInv ==
    /\ \A s \in 1 .. tau : Cell(s) <= Cell(tau)
    /\ pc \in {"runner", "relax_step"} /\ FirstStep =>
           \A s \in 1 .. tau : Cell(s) = Cell(tau) => s = tau

\* Among the structures of the present cell up to t, s is a lowest one.
LowestInCell(s, t) ==
    /\ s \in 1 .. t /\ Cell(s) = Cell(tau)
    /\ \A r \in 1 .. t : Cell(r) = Cell(tau) => E(s) <= E(r)

\* What SD keeps after its first step in a cell
SdInv ==
    /\ inp.relax_method = "sd" <=> RELAX_METHOD = "sd"
    /\ pc \in {"runner", "relax_step"} /\ ~FirstStep /\ RELAX_METHOD = "sd" =>
           sd.pos = tau /\ LowestInCell(sd.saved, tau - 1)

IInv ==
    ControlInv /\ StructuresInv /\ BfgsInv /\ CgInv /\ CellsInv /\ SdInv /\ Nested

-----------------------------------------------------------------------------
(* The line searches *)

LEMMA ResetKept ==
    ASSUME NEW c \in CgState, NEW first \in BOOLEAN
    PROVE  /\ ResetCg(c, first) \in CgState
           /\ ResetCg(c, first).grad0 = c.grad0
           /\ ResetCg(c, first).direction = c.direction
           /\ first => ResetCg(c, first).sd /\ ResetCg(c, first).ncggrad = 0
<1>1. CASE first
  <2>1. ResetCg(c, first)
          = [c EXCEPT !.sd = TRUE, !.trial = TRUE, !.ncggrad = 0, !.nbrent = 0]
    BY <1>1 DEF ResetCg
  <2>2. ResetCg(c, first) \in CgState
    <3>1. ResetCg(c, first)
            = [sd |-> TRUE, trial |-> TRUE, ncggrad |-> 0, nbrent |-> 0,
               grad0 |-> c.grad0, direction |-> c.direction]
      BY <2>1 DEF CgState
    <3>2. c.grad0 \in Nat /\ c.direction \in Nat \X Nat /\ 0 \in 0 .. 3 /\ 0 \in Nat
      BY DEF CgState
    <3>3. QED
      BY <3>1, <3>2 DEF CgState
  <2>3. /\ ResetCg(c, first).grad0 = c.grad0
        /\ ResetCg(c, first).direction = c.direction
    BY <2>1 DEF CgState
  <2>4. ResetCg(c, first).sd = TRUE /\ ResetCg(c, first).ncggrad = 0
    BY <2>1 DEF CgState
  <2>5. QED
    BY <2>2, <2>3, <2>4
<1>2. CASE ~first
  BY <1>2 DEF ResetCg
<1>3. QED
  BY <1>1, <1>2

LEMMA NewDirectionKept ==
    ASSUME NEW c \in CgState, NEW s \in Nat, NEW failed \in BOOLEAN
    PROVE  /\ NewDirection(c, s, failed) \in CgState
           /\ NewDirection(c, s, failed).grad0 = s
           /\ NewDirection(c, s, failed).direction[1] = s
           /\ NewDirection(c, s, failed).direction[2] \in {Nothing, c.grad0}
           /\ c.ncggrad = 0 => NewDirection(c, s, failed).direction[2] = Nothing
<1> DEFINE d == <<s, IF c.ncggrad = 0 \/ failed THEN Nothing ELSE c.grad0>>
<1>1. /\ d \in Nat \X Nat /\ d[1] = s /\ d[2] \in {Nothing, c.grad0}
      /\ c.ncggrad = 0 => d[2] = Nothing
  BY DEF CgState, Nothing
<1>2. NewDirection(c, s, failed) =
        [c EXCEPT !.sd = FALSE, !.trial = TRUE, !.ncggrad = c.ncggrad + 1, !.grad0 = s,
                  !.direction = d]
  BY DEF NewDirection
<1> HIDE DEF d
<1>3. NewDirection(c, s, failed) \in CgState
  <2>1. NewDirection(c, s, failed)
          = [sd |-> FALSE, trial |-> TRUE, ncggrad |-> c.ncggrad + 1,
             nbrent |-> c.nbrent, grad0 |-> s, direction |-> d]
    BY <1>2 DEF CgState
  <2>2. c.ncggrad + 1 \in Nat /\ c.nbrent \in 0 .. 3
    BY DEF CgState
  <2>3. QED
    BY <1>1, <2>1, <2>2 DEF CgState
<1>4. NewDirection(c, s, failed).grad0 = s /\ NewDirection(c, s, failed).direction = d
  BY <1>2 DEF CgState
<1>5. QED
  BY <1>1, <1>3, <1>4

\* Every way a step ends keeps the gradients of the direction in the set G
\* that the new gradient is in.
LEMMA CgStartKept ==
    ASSUME NEW c \in CgState, NEW first \in BOOLEAN, NEW s \in Nat,
           NEW G, s \in G, MadeOf(c, G) \/ first,
           NEW d \in CgStart(c, first, s)
    PROVE  d \in CgState /\ MadeOf(d, G)
<1> DEFINE b == ResetCg(c, first)
<1>1. /\ b \in CgState /\ b.grad0 = c.grad0 /\ b.direction = c.direction
      /\ first => b.sd /\ b.ncggrad = 0
  BY ResetKept
<1> HIDE DEF b
<1>2. ASSUME NEW e \in CgState, e.grad0 = c.grad0, NEW failed \in BOOLEAN,
             MadeOf(c, G) \/ e.ncggrad = 0,
             d = NewDirection(e, s, failed)
      PROVE  d \in CgState /\ MadeOf(d, G)
  <2>1. /\ d \in CgState /\ d.grad0 = s /\ d.direction[1] = s
        /\ d.direction[2] \in {Nothing, c.grad0}
        /\ e.ncggrad = 0 => d.direction[2] = Nothing
    <3>1. /\ NewDirection(e, s, failed) \in CgState
          /\ NewDirection(e, s, failed).grad0 = s
          /\ NewDirection(e, s, failed).direction[1] = s
          /\ NewDirection(e, s, failed).direction[2] \in {Nothing, e.grad0}
          /\ e.ncggrad = 0 => NewDirection(e, s, failed).direction[2] = Nothing
      BY NewDirectionKept
    <3>2. QED
      BY <1>2, <3>1
  <2>2. d.direction[2] \in G \cup {Nothing}
    BY <2>1, <1>2 DEF MadeOf
  <2>3. QED
    BY <2>1, <2>2 DEF MadeOf
<1>3. CASE b.sd
  <2>1. d = NewDirection(b, s, FALSE)
    BY <1>3 DEF CgStart, b
  <2>2. QED
    BY <2>1, <1>1, <1>2
<1>4. CASE ~b.sd /\ b.trial
  <2>1. d \in TrialStep(b, s) /\ MadeOf(c, G)
    BY <1>1, <1>4 DEF CgStart, b
  <2>2. CASE d = NewDirection(b, s, FALSE)
    BY <2>1, <2>2, <1>1, <1>2
  <2>3. CASE d = [b EXCEPT !.trial = FALSE]
    BY <2>1, <2>3, <1>1 DEF CgState, MadeOf
  <2>4. QED
    BY <2>1, <2>2, <2>3 DEF TrialStep
<1>5. CASE ~b.sd /\ ~b.trial
  <2> DEFINE n == b.nbrent + 1
  <2>1. d \in BrentStep(b, s) /\ MadeOf(c, G)
    BY <1>1, <1>5 DEF CgStart, b
  <2>2. n \in Nat /\ (~(n > 3) => n \in 0 .. 3)
    BY <1>1 DEF CgState
  <2>3. /\ [b EXCEPT !.nbrent = 0] \in CgState
        /\ [b EXCEPT !.nbrent = 0].grad0 = c.grad0
    BY <1>1 DEF CgState
  <2>4. CASE d = NewDirection([b EXCEPT !.nbrent = 0], s, FALSE)
    BY <2>1, <2>3, <2>4, <1>2
  <2>5. CASE ~(n > 3) /\ d = NewDirection([b EXCEPT !.nbrent = n], s, TRUE)
    <3>1. [b EXCEPT !.nbrent = n] \in CgState /\ [b EXCEPT !.nbrent = n].grad0 = c.grad0
      BY <1>1, <2>2, <2>5 DEF CgState
    <3>2. QED
      BY <2>1, <2>5, <3>1, <1>2
  <2>6. CASE ~(n > 3) /\ d = [b EXCEPT !.nbrent = n]
    BY <2>1, <2>2, <2>6, <1>1 DEF CgState, MadeOf
  <2>7. QED
    BY <2>1, <2>4, <2>5, <2>6 DEF BrentStep
<1>6. QED
  BY <1>1, <1>3, <1>4, <1>5 DEF CgState

-----------------------------------------------------------------------------
(* Structures *)

LEMMA MovedKept ==
    ASSUME StructuresInv, NEW cell \in Nat, Moved(cell)
    PROVE  /\ tau \in Nat /\ tau' = tau + 1
           /\ structures' \in Seq(Nat) /\ Len(structures') = tau'
           /\ \A i \in 1 .. tau : structures'[i] = structures[i]
           /\ structures'[tau'] = cell
           /\ NextStructure = tau'
BY DEF StructuresInv, Moved, NextStructure

LEMMA CellNat == ASSUME StructuresInv PROVE Cell(tau) \in Nat
BY DEF StructuresInv, Cell

LEMMA StatesGrow ==
    ASSUME NEW t \in Nat
    PROVE  /\ BasicStates(t) \subseteq BasicStates(t + 1)
           /\ BfgsStates(t) \subseteq BfgsStates(t + 1)
           /\ SdStates(t) \subseteq SdStates(t + 1)
<1>1. 0 .. t \subseteq 0 .. t + 1
  OBVIOUS
<1>2. QED
  BY <1>1 DEF BasicStates, BfgsStates, SdStates

\* The energies compared are those of structures that have one.
LEMMA SetupEtotKept ==
    ASSUME StructuresInv, NEW first \in BOOLEAN
    PROVE  /\ SetupEtot(basic, tau, first) \in BasicStates(tau)
           /\ SetupEtot(basic, tau, first).etot = tau
           /\ SetupEtot(basic, tau, first).etot_p = IF first THEN tau ELSE basic.etot
<1>1. basic \in BasicStates(tau) /\ tau \in Nat
  BY DEF StructuresInv
<1> DEFINE p == IF first THEN tau ELSE basic.etot
<1>2. p \in 0 .. tau
  BY <1>1 DEF BasicStates
<1>3. SetupEtot(basic, tau, first) = [basic EXCEPT !.etot = tau, !.etot_p = p]
  BY DEF SetupEtot
<1> HIDE DEF p
<1>4. SetupEtot(basic, tau, first) = [etot |-> tau, etot_p |-> p]
  BY <1>1, <1>3 DEF BasicStates
<1>5. QED
  BY <1>1, <1>2, <1>4 DEF BasicStates, p

LEMMA InitKept == Init => IInv
<1> SUFFICES ASSUME Init PROVE IInv
  OBVIOUS
<1>1. ControlInv
  BY NmaxAssumption, InputsAssumption DEF Init, ControlInv, Settings
<1>2. StructuresInv
  BY DEF Init, StructuresInv, BasicStates, BfgsStates, SdStates, Nothing
<1>3. BfgsInv
  BY DEF Init, BfgsInv
<1>4. FirstStep
  BY DEF Init, FirstStep, ForceStep
<1>5. NewCg \in CgState /\ MadeOf(NewCg, {Nothing})
  BY DEF NewCg, CgState, MadeOf, Nothing
<1>6. CgInv
  BY <1>4, <1>5 DEF Init, CgInv, MadeOf
<1>7. Nested
  BY <1>5 DEF Init, Nested, MadeOf, NewCg
<1>8. CellsInv /\ SdInv
  BY <1>4 DEF Init, CellsInv, SdInv, Cell
<1>9. QED
  BY <1>1, <1>2, <1>3, <1>6, <1>7, <1>8 DEF IInv

LEMMA RunnerKept == IInv /\ Runner => IInv'
<1> SUFFICES ASSUME IInv, Runner PROVE IInv'
  OBVIOUS
<1>1. /\ pc = "runner" /\ pc' = "relax_step"
      /\ UNCHANGED <<inp, istep, force_step, stress_step, tau, structures, STRU_ION_D,
                     RELAX_METHOD, basic, bfgs, cg, sd, lattice_cg, relaxed,
                     cell_converged>>
      /\ FirstStep' = FirstStep
  BY DEF Runner, counters, optimizers, FirstStep, ForceStep
<1>2. ControlInv'
  BY <1>1 DEF IInv, ControlInv
<1>3. /\ energy' \in Seq(Nat) /\ Len(energy') = tau
      /\ \A s \in 1 .. tau - 1 : energy'[s] = energy[s]
  <2>1. PICK e \in Energies : energy' = Append(energy, e)
    BY DEF Runner
  <2>2. e \in Nat /\ energy \in Seq(Nat) /\ tau \in Nat /\ Len(energy) = tau - 1
    BY <1>1, EnergiesAssumption DEF IInv, StructuresInv
  <2>3. QED
    BY <2>1, <2>2
<1>4. StructuresInv'
  BY <1>1, <1>3 DEF IInv, StructuresInv
<1>5. BfgsInv'
  BY <1>1 DEF IInv, BfgsInv
<1>6. InCell' = InCell
  BY <1>1 DEF InCell, Cell
<1>7. CgInv'
  BY <1>1, <1>6 DEF IInv, CgInv
<1>8. Nested'
  BY <1>1 DEF IInv, Nested, CellCanChange
<1>9. CellsInv'
  BY <1>1 DEF IInv, CellsInv, Cell
<1>10. ASSUME LowestInCell(sd.saved, tau - 1)
       PROVE  LowestInCell(sd.saved, tau - 1)'
  BY <1>1, <1>3, <1>10 DEF LowestInCell, Cell, E
<1>11. SdInv'
  BY <1>1, <1>10 DEF IInv, SdInv
<1>12. QED
  BY <1>2, <1>4, <1>5, <1>7, <1>8, <1>9, <1>11 DEF IInv

-----------------------------------------------------------------------------
(* BFGS *)

LEMMA RestartedKept ==
    ASSUME StructuresInv
    PROVE  /\ BfgsHead \in BfgsStates(tau) /\ ~BfgsHead.first_step
           /\ BfgsHead.save_flag = bfgs.save_flag
           /\ BfgsHead.pos = IF bfgs.first_step THEN tau ELSE bfgs.pos
           /\ BfgsHead.pos_p = bfgs.pos_p /\ BfgsHead.grad_p = bfgs.grad_p
           /\ Restarted \in BfgsStates(tau) /\ ~Restarted.first_step
           /\ Restarted.save_flag = bfgs.save_flag
           /\ Restarted.pos = BfgsHead.pos
<1>1. bfgs \in BfgsStates(tau) /\ tau \in Nat
  BY DEF StructuresInv
<1> DEFINE q == IF bfgs.first_step THEN tau ELSE bfgs.pos
<1>2. q \in 0 .. tau
  BY <1>1 DEF BfgsStates
<1>3. BfgsHead = [bfgs EXCEPT !.first_step = FALSE, !.pos = q]
  BY DEF BfgsHead
<1> HIDE DEF q
<1>4. BfgsHead = [first_step |-> FALSE, save_flag |-> bfgs.save_flag,
                  tr_min_hit |-> bfgs.tr_min_hit, pos |-> q,
                  pos_p |-> bfgs.pos_p, grad_p |-> bfgs.grad_p]
  BY <1>1, <1>3 DEF BfgsStates
<1>5. BfgsHead \in BfgsStates(tau)
  BY <1>1, <1>2, <1>4 DEF BfgsStates
<1>6. CASE bfgs.save_flag
  <2>1. Restarted = BfgsHead
    BY <1>6 DEF Restarted
  <2>2. QED
    BY <1>4, <1>5, <2>1 DEF q
<1>7. CASE ~bfgs.save_flag
  <2>1. Restarted = [BfgsHead EXCEPT !.pos_p = Nothing, !.grad_p = Nothing,
                                     !.tr_min_hit = FALSE]
    BY <1>7 DEF Restarted
  <2>2. Restarted = [first_step |-> FALSE, save_flag |-> bfgs.save_flag,
                     tr_min_hit |-> FALSE, pos |-> q, pos_p |-> Nothing,
                     grad_p |-> Nothing]
    BY <1>4, <2>1
  <2>3. Restarted \in BfgsStates(tau)
    BY <1>1, <1>2, <2>2 DEF BfgsStates, Nothing
  <2>4. QED
    BY <1>4, <1>5, <2>2, <2>3 DEF q
<1>8. QED
  BY <1>1, <1>6, <1>7 DEF BfgsStates

LEMMA SavedKept ==
    ASSUME StructuresInv, NEW b \in BfgsStates(tau), ~b.first_step,
           NEW pos \in 0 .. tau, NEW grad \in 0 .. tau, NEW hit \in BOOLEAN,
           NextStructure = tau + 1
    PROVE  /\ Saved(b, pos, grad, hit) \in BfgsStates(tau + 1)
           /\ ~Saved(b, pos, grad, hit).first_step
           /\ Saved(b, pos, grad, hit).save_flag
           /\ Saved(b, pos, grad, hit).pos = tau + 1
           /\ Saved(b, pos, grad, hit).pos_p = pos
           /\ Saved(b, pos, grad, hit).grad_p = grad
<1>1. Saved(b, pos, grad, hit)
        = [first_step |-> FALSE, save_flag |-> TRUE, tr_min_hit |-> hit,
           pos |-> tau + 1, pos_p |-> pos, grad_p |-> grad]
  <2>1. Saved(b, pos, grad, hit)
          = [b EXCEPT !.save_flag = TRUE, !.pos_p = pos, !.grad_p = grad,
                      !.pos = tau + 1, !.tr_min_hit = hit]
    BY DEF Saved
  <2>2. b.first_step = FALSE
    BY DEF BfgsStates
  <2>3. QED
    BY <2>1, <2>2 DEF BfgsStates
<1>2. tau \in Nat /\ tau + 1 \in 0 .. tau + 1 /\ pos \in 0 .. tau + 1
      /\ grad \in 0 .. tau + 1
  BY DEF StructuresInv
<1>3. QED
  BY <1>1, <1>2 DEF BfgsStates

\* The two ways a step of BFGS ends: it gives up, or it moves on from the
\* point whose position, gradient and energy it keeps.
BfgsEnds ==
    \/ pc' = "quit" /\ UNCHANGED <<tau, structures>>
       /\ bfgs' \in BfgsStates(tau) /\ (bfgs'.first_step => ~bfgs'.save_flag)
    \/ /\ pc' = "runner" /\ Moved(Cell(tau))
       /\ bfgs' \in BfgsStates(tau + 1)
       /\ ~bfgs'.first_step /\ bfgs'.save_flag
       /\ bfgs'.pos = tau + 1
       /\ bfgs'.grad_p = basic'.etot
       /\ inp.calculation = "relax" => bfgs'.pos_p = bfgs'.grad_p

LEMMA BfgsKept ==
    ASSUME IInv, AtStep, MoveBfgs
    PROVE  basic' \in BasicStates(tau) /\ BfgsEnds
<1> DEFINE b == SetupEtot(basic, tau, FirstStep)
<1>1. /\ b \in BasicStates(tau) /\ b.etot = tau
      /\ b.etot_p = IF FirstStep THEN tau ELSE basic.etot
  BY SetupEtotKept DEF IInv, FirstStep
<1>2. BfgsRejects(b) \/ BfgsAccepts(b)
  BY DEF MoveBfgs
<1>3. /\ StructuresInv /\ tau \in Nat /\ 1 <= tau /\ NextStructure = tau + 1
      /\ bfgs \in BfgsStates(tau)
      /\ bfgs.first_step => ~bfgs.save_flag
      /\ tau \in 1 .. Len(energy) /\ energy \in Seq(Nat)
      /\ pc = "relax_step"
  BY DEF IInv, StructuresInv, BfgsInv, NextStructure, AtStep
<1> HIDE DEF b
<1>4. /\ Restarted \in BfgsStates(tau) /\ ~Restarted.first_step
      /\ Restarted.pos = IF bfgs.first_step THEN tau ELSE bfgs.pos
  BY <1>3, RestartedKept
<1>5. CASE BfgsRejects(b)
  <2>1. basic' = [b EXCEPT !.etot = b.etot_p] /\ E(b.etot) > E(b.etot_p)
    BY <1>5 DEF BfgsRejects
  <2>2. basic' \in BasicStates(tau) /\ basic'.etot = b.etot_p
    BY <1>1, <2>1 DEF BasicStates
  <2>3. ~FirstStep
    <3>1. SUFFICES ASSUME FirstStep PROVE FALSE
      OBVIOUS
    <3>2. E(tau) > E(tau) /\ E(tau) \in Nat
      BY <1>1, <1>3, <2>1, <3>1 DEF E
    <3>3. QED
      BY <3>2
  <2>4. CASE bfgs.save_flag
    <3>1. /\ ~bfgs.first_step /\ bfgs.grad_p = b.etot_p
          /\ bfgs.pos_p \in 0 .. tau /\ bfgs.grad_p \in 0 .. tau
          /\ inp.calculation = "relax" => bfgs.pos_p = bfgs.grad_p
      BY <1>1, <1>3, <2>3, <2>4 DEF IInv, BfgsInv, BfgsStates
    <3>2. PICK below_rmin \in BOOLEAN :
            IF below_rmin /\ bfgs.tr_min_hit
            THEN pc' = "quit" /\ UNCHANGED <<bfgs, tau, structures>>
            ELSE /\ pc' = "runner" /\ Moved(Cell(tau))
                 /\ bfgs' = Saved(Restarted, bfgs.pos_p, bfgs.grad_p, below_rmin)
      BY <1>5, <2>4 DEF BfgsRejects
    <3>3. CASE below_rmin /\ bfgs.tr_min_hit
      BY <1>3, <2>2, <3>1, <3>2, <3>3 DEF BfgsEnds
    <3>4. CASE ~(below_rmin /\ bfgs.tr_min_hit)
      <4>1. /\ pc' = "runner" /\ Moved(Cell(tau))
            /\ bfgs' = Saved(Restarted, bfgs.pos_p, bfgs.grad_p, below_rmin)
        BY <3>2, <3>4
      <4>2. /\ bfgs' \in BfgsStates(tau + 1) /\ ~bfgs'.first_step /\ bfgs'.save_flag
            /\ bfgs'.pos = tau + 1 /\ bfgs'.pos_p = bfgs.pos_p
            /\ bfgs'.grad_p = bfgs.grad_p
        BY <1>3, <1>4, <3>1, <4>1, SavedKept
      <4>3. QED
        BY <2>2, <3>1, <4>1, <4>2 DEF BfgsEnds
    <3>5. QED
      BY <3>3, <3>4
  <2>5. CASE ~bfgs.save_flag
    <3>1. /\ pc' = "quit" /\ UNCHANGED <<tau, structures>>
          /\ bfgs' = [Restarted EXCEPT !.pos = Nothing]
      BY <1>5, <2>5 DEF BfgsRejects
    <3>2. bfgs' \in BfgsStates(tau) /\ ~bfgs'.first_step
      <4>1. Nothing \in 0 .. tau
        BY <1>3 DEF Nothing
      <4> DEFINE a == Restarted
      <4>2. a \in BfgsStates(tau) /\ ~a.first_step /\ bfgs' = [a EXCEPT !.pos = Nothing]
        BY <1>4, <3>1
      <4> HIDE DEF a
      <4>3. QED
        BY <4>1, <4>2 DEF BfgsStates
    <3>3. QED
      BY <2>2, <3>1, <3>2 DEF BfgsEnds
  <2>6. QED
    BY <2>4, <2>5
<1>6. CASE BfgsAccepts(b)
  <2>1. basic' = b
    BY <1>6 DEF BfgsAccepts
  <2>2. PICK below_rmin \in BOOLEAN :
          IF below_rmin /\ bfgs.tr_min_hit
          THEN pc' = "quit" /\ UNCHANGED <<bfgs, tau, structures>>
          ELSE /\ pc' = "runner" /\ Moved(Cell(tau))
               /\ bfgs' = Saved(Restarted, Restarted.pos, tau, below_rmin)
    BY <1>6 DEF BfgsAccepts
  <2>3. CASE below_rmin /\ bfgs.tr_min_hit
    BY <1>1, <1>3, <2>1, <2>2, <2>3 DEF BfgsEnds
  <2>4. CASE ~(below_rmin /\ bfgs.tr_min_hit)
    <3>1. /\ pc' = "runner" /\ Moved(Cell(tau))
          /\ bfgs' = Saved(Restarted, Restarted.pos, tau, below_rmin)
      BY <2>2, <2>4
    <3>2. Restarted.pos \in 0 .. tau /\ tau \in 0 .. tau
      BY <1>3, <1>4 DEF BfgsStates
    <3>3. inp.calculation = "relax" => Restarted.pos = tau
      BY <1>3, <1>4 DEF IInv, BfgsInv
    <3>4. /\ bfgs' \in BfgsStates(tau + 1) /\ ~bfgs'.first_step /\ bfgs'.save_flag
          /\ bfgs'.pos = tau + 1 /\ bfgs'.pos_p = Restarted.pos
          /\ bfgs'.grad_p = tau
      BY <1>3, <1>4, <3>1, <3>2, SavedKept
    <3>5. QED
      BY <1>1, <2>1, <3>1, <3>3, <3>4 DEF BfgsEnds
  <2>5. QED
    BY <2>3, <2>4
<1>7. QED
  BY <1>1, <1>2, <1>5, <1>6 DEF BfgsAccepts


-----------------------------------------------------------------------------
(* The ions *)

\* What SD keeps when it has looked at the structure
LEMMA SdSavedKept ==
    ASSUME IInv, pc = "relax_step"
    PROVE  /\ SdSaved \in SdStates(tau)
           /\ RELAX_METHOD = "sd" => LowestInCell(SdSaved.saved, tau)
<1>1. /\ sd \in SdStates(tau) /\ tau \in Nat /\ 1 <= tau
      /\ energy \in Seq(Nat) /\ Len(energy) = tau
  BY DEF IInv, StructuresInv
<1>2. SdSaved \in SdStates(tau)
  <2>1. CASE SdSaved = sd
    BY <1>1, <2>1
  <2>2. CASE SdSaved = [sd EXCEPT !.saved = tau, !.pos = tau]
    <3>1. SdSaved = [saved |-> tau, pos |-> tau, radius |-> sd.radius,
                     accepted_number |-> sd.accepted_number]
      BY <1>1, <2>2 DEF SdStates
    <3>2. sd.radius \in Nat /\ sd.accepted_number \in Nat /\ tau \in 0 .. tau
      BY <1>1 DEF SdStates
    <3>3. QED
      BY <3>1, <3>2 DEF SdStates
  <2>3. QED
    BY <2>1, <2>2 DEF SdSaved
<1>3. \A s \in 1 .. tau : E(s) \in Nat
  BY <1>1 DEF E
<1>4. CASE FirstStep
  <2>1. SdSaved.saved = tau
    BY <1>1, <1>4 DEF SdSaved, SdStates
  <2>2. \A s \in 1 .. tau : Cell(s) = Cell(tau) => s = tau
    BY <1>4 DEF IInv, CellsInv
  <2>3. QED
    BY <1>1, <1>2, <1>3, <2>1, <2>2 DEF LowestInCell
<1>5. ASSUME ~FirstStep, RELAX_METHOD = "sd"
      PROVE  LowestInCell(SdSaved.saved, tau)
  <2>1. LowestInCell(sd.saved, tau - 1)
    BY <1>5 DEF IInv, SdInv
  <2>2. SdSaved.saved = IF E(tau) <= E(sd.saved) THEN tau ELSE sd.saved
    BY <1>1, <1>5 DEF SdSaved, SdStates
  <2>3. CASE E(tau) <= E(sd.saved)
    <3>1. \A r \in 1 .. tau - 1 : Cell(r) = Cell(tau) => E(tau) <= E(r)
      <4>1. sd.saved \in 1 .. tau /\ tau \in 1 .. tau
            /\ \A r \in 1 .. tau - 1 : r \in 1 .. tau
        BY <1>1, <2>1 DEF LowestInCell
      <4>2. \A r \in 1 .. tau - 1 : Cell(r) = Cell(tau) => E(sd.saved) <= E(r)
        BY <2>1 DEF LowestInCell
      <4>3. QED
        BY <1>3, <2>3, <4>1, <4>2
    <3>2. SdSaved.saved = tau
      BY <2>2, <2>3
    <3>3. \A r \in 1 .. tau : r \in 1 .. tau - 1 \/ r = tau
      BY <1>1
    <3>4. QED
      BY <1>1, <1>3, <3>1, <3>2, <3>3 DEF LowestInCell
  <2>4. CASE ~(E(tau) <= E(sd.saved))
    <3>1. SdSaved.saved = sd.saved
      BY <2>2, <2>4
    <3>2. /\ sd.saved \in 1 .. tau
          /\ \A r \in 1 .. tau : r \in 1 .. tau - 1 \/ r = tau
      BY <1>1, <2>1 DEF LowestInCell
    <3>3. E(sd.saved) <= E(tau)
      BY <1>1, <1>3, <2>4, <3>2
    <3>4. QED
      BY <2>1, <3>1, <3>2, <3>3 DEF LowestInCell
  <2>5. QED
    BY <2>3, <2>4
<1>6. QED
  BY <1>2, <1>4, <1>5

\* cal_tradius_sd leaves what SD saved as it is.
LEMMA RadiusKept ==
    ASSUME NEW t \in Nat, NEW s \in SdStates(t), NEW b
    PROVE  /\ Radius(b, s) \in SdStates(t)
           /\ Radius(b, s).saved = s.saved
<1> DEFINE n == s.accepted_number + 1
           r == IF n > 3 /\ n % 3 = 1 THEN s.radius + 1 ELSE s.radius
<1>1. n \in Nat /\ r \in Nat
  BY DEF SdStates
<1>2. \/ Radius(b, s) = [s EXCEPT !.radius = 0]
      \/ Radius(b, s) = [s EXCEPT !.accepted_number = n, !.radius = r]
      \/ Radius(b, s) = [s EXCEPT !.accepted_number = 0, !.radius = s.radius + 1]
  BY DEF Radius
<1> HIDE DEF n, r
<1> DEFINE new(k, m) == [saved |-> s.saved, pos |-> s.pos, radius |-> k,
                         accepted_number |-> m]
<1>3. \E k \in Nat, m \in Nat : Radius(b, s) = new(k, m)
  <2> SUFFICES \/ Radius(b, s) = new(0, s.accepted_number)
               \/ Radius(b, s) = new(r, n)
               \/ Radius(b, s) = new(s.radius + 1, 0)
    <3>1. s.accepted_number \in Nat /\ s.radius + 1 \in Nat /\ 0 \in Nat
      BY DEF SdStates
    <3> HIDE DEF new
    <3>2. QED
      BY <1>1, <3>1
  <2>1. CASE Radius(b, s) = [s EXCEPT !.radius = 0]
    BY <2>1 DEF SdStates
  <2>2. CASE Radius(b, s) = [s EXCEPT !.accepted_number = n, !.radius = r]
    BY <1>1, <2>2 DEF SdStates
  <2>3. CASE Radius(b, s) = [s EXCEPT !.accepted_number = 0, !.radius = s.radius + 1]
    BY <2>3 DEF SdStates
  <2>4. QED
    BY <1>2, <2>1, <2>2, <2>3
<1>4. s.saved \in 0 .. t /\ s.pos \in 0 .. t
  BY DEF SdStates
<1>5. QED
  BY <1>3, <1>4 DEF SdStates

\* The structures of the ions' moves stay in the cell.
LEMMA InCellGrows ==
    ASSUME StructuresInv, Moved(Cell(tau)) \/ UNCHANGED <<tau, structures>>
    PROVE  InCell \subseteq InCell' /\ tau \in InCell /\ InCell \subseteq Nat
<1>1. tau \in Nat /\ 1 <= tau
  BY DEF StructuresInv
<1>2. CASE UNCHANGED <<tau, structures>>
  BY <1>1, <1>2 DEF InCell, Cell
<1>3. CASE Moved(Cell(tau))
  <2>1. /\ tau' = tau + 1
        /\ \A i \in 1 .. tau : structures'[i] = structures[i]
        /\ structures'[tau'] = structures[tau]
    BY <1>3, CellNat, MovedKept DEF Cell
  <2>2. QED
    BY <1>1, <2>1 DEF InCell, Cell
<1>4. QED
  BY <1>2, <1>3

\* What a method leaves when the ions move
IonsEnd ==
    /\ pc' \in {"quit", "runner"}
    /\ IF pc' = "runner" THEN Moved(Cell(tau)) ELSE UNCHANGED <<tau, structures>>
    /\ basic' \in BasicStates(tau') /\ bfgs' \in BfgsStates(tau')
    /\ sd' \in SdStates(tau')
    /\ BfgsInv' /\ SdInv'
    /\ RELAX_METHOD' \in Methods
    /\ inp.relax_method = "cg" <=> RELAX_METHOD' = "cg"
    /\ cg' \in CgState
    /\ RELAX_METHOD' = "cg" => MadeOf(cg', InCell')

\* The part of RelaxIons that is common to the methods
IonsTail ==
    /\ pc = "relax_step" /\ istep < relax_nmax /\ inp.if_atoms_can_move
    /\ force_step' = ForceStep + 1 /\ istep' = istep + 1
    /\ UNCHANGED <<inp, stress_step, energy, lattice_cg, relaxed, cell_converged>>
    /\ STRU_ION_D' = IF pc' = "quit" THEN STRU_ION_D ELSE tau'

LEMMA IonsTailFacts ==
    ASSUME IInv, IonsTail
    PROVE  /\ ForceStep \in Nat /\ 1 <= ForceStep /\ ForceStep <= istep
           /\ ~FirstStep'
           /\ StructuresInv /\ tau \in Nat /\ 1 <= tau /\ Len(energy) = tau
<1>1. ForceStep \in Nat /\ 1 <= ForceStep /\ ForceStep <= istep
  BY DEF IInv, ControlInv, ForceStep
<1>2. ForceStep' = ForceStep + 1
  BY DEF IonsTail, ForceStep
<1>3. QED
  BY <1>1, <1>2 DEF FirstStep, IonsTail, IInv, StructuresInv

LEMMA MoveBfgsEnds == ASSUME IInv, IonsTail, MoveBfgs PROVE IonsEnd
<1>1. /\ RELAX_METHOD = "bfgs" /\ RELAX_METHOD' = RELAX_METHOD
      /\ cg' = cg /\ sd' = sd
  BY DEF MoveBfgs
<1>2. basic' \in BasicStates(tau) /\ BfgsEnds
  BY BfgsKept DEF IonsTail, AtStep
<1>3. /\ StructuresInv /\ tau \in Nat /\ sd \in SdStates(tau)
      /\ Cell(tau) \in Nat /\ inp' = inp /\ ~FirstStep'
  BY IonsTailFacts, CellNat DEF StructuresInv, IonsTail
<1>4. CASE pc' = "quit" /\ UNCHANGED <<tau, structures>>
           /\ bfgs' \in BfgsStates(tau) /\ (bfgs'.first_step => ~bfgs'.save_flag)
  <2>1. BfgsInv'
    BY <1>1, <1>4 DEF BfgsInv
  <2>2. SdInv'
    BY <1>1, <1>3 DEF IInv, SdInv
  <2>3. QED
    BY <1>1, <1>2, <1>3, <1>4, <2>1, <2>2 DEF IonsEnd, Methods, IInv, CgInv
<1>5. CASE /\ pc' = "runner" /\ Moved(Cell(tau))
           /\ bfgs' \in BfgsStates(tau + 1)
           /\ ~bfgs'.first_step /\ bfgs'.save_flag
           /\ bfgs'.pos = tau + 1
           /\ bfgs'.grad_p = basic'.etot
           /\ inp.calculation = "relax" => bfgs'.pos_p = bfgs'.grad_p
  <2>1. tau' = tau + 1
    BY <1>3, <1>5, MovedKept
  <2>2. BfgsInv'
    BY <1>1, <1>3, <1>5, <2>1 DEF BfgsInv
  <2>3. /\ basic' \in BasicStates(tau') /\ bfgs' \in BfgsStates(tau')
        /\ sd' \in SdStates(tau')
    BY <1>1, <1>2, <1>3, <1>5, <2>1, StatesGrow
  <2>4. SdInv'
    BY <1>1, <1>3 DEF IInv, SdInv
  <2>5. QED
    BY <1>1, <1>5, <2>2, <2>3, <2>4 DEF IonsEnd, Methods, IInv, CgInv
<1>6. QED
  BY <1>2, <1>4, <1>5 DEF BfgsEnds

LEMMA MoveCgEnds == ASSUME IInv, IonsTail, MoveCg PROVE IonsEnd
<1>1. /\ RELAX_METHOD \in {"cg", "cg_bfgs"}
      /\ cg' \in CgStart(cg, FirstStep, tau)
      /\ RELAX_METHOD' = RELAX_METHOD
         \/ (RELAX_METHOD = "cg_bfgs" /\ RELAX_METHOD' = "bfgs")
      /\ pc' = "runner" /\ Moved(Cell(tau))
      /\ bfgs' = bfgs /\ sd' = sd
      /\ basic' = [etot |-> tau, etot_p |-> tau]
         \/ basic' = SetupEtot(basic, tau, FirstStep)
  BY DEF MoveCg
<1>2. /\ StructuresInv /\ tau \in Nat /\ sd \in SdStates(tau)
      /\ bfgs \in BfgsStates(tau) /\ cg \in CgState
      /\ Cell(tau) \in Nat /\ inp' = inp /\ FirstStep \in BOOLEAN
      /\ pc = "relax_step"
  BY IonsTailFacts, CellNat DEF StructuresInv, IonsTail, IInv, CgInv, FirstStep
<1>3. tau' = tau + 1
  BY <1>1, <1>2, MovedKept
<1>4. basic' \in BasicStates(tau)
  BY <1>1, <1>2, SetupEtotKept DEF BasicStates
<1>5. /\ basic' \in BasicStates(tau') /\ bfgs' \in BfgsStates(tau')
      /\ sd' \in SdStates(tau')
  BY <1>1, <1>2, <1>3, <1>4, StatesGrow
<1>6. bfgs.first_step /\ ~bfgs.save_flag
  BY <1>1 DEF IInv, BfgsInv
<1>7. BfgsInv'
  BY <1>1, <1>6 DEF BfgsInv
<1>8. cg' \in CgState
  <2>1. MadeOf(cg, Nat)
    BY <1>2 DEF CgState, MadeOf
  <2>2. QED
    BY <1>1, <1>2, <2>1, CgStartKept
<1>9. ASSUME RELAX_METHOD' = "cg" PROVE MadeOf(cg', InCell')
  <2>1. RELAX_METHOD = "cg"
    BY <1>1, <1>9
  <2>2. MadeOf(cg, InCell) \/ FirstStep
    BY <1>2, <2>1 DEF IInv, CgInv
  <2>3. InCell \subseteq InCell' /\ tau \in InCell
    BY <1>1, <1>2, InCellGrows
  <2>4. MadeOf(cg', InCell)
    BY <1>1, <1>2, <2>2, <2>3, CgStartKept
  <2>5. QED
    BY <2>3, <2>4 DEF MadeOf
<1>10. SdInv'
  BY <1>1, <1>2 DEF IInv, SdInv
<1>11. QED
  BY <1>1, <1>5, <1>7, <1>8, <1>9, <1>10 DEF IonsEnd, Methods, IInv, CgInv

LEMMA MoveSdEnds == ASSUME IInv, IonsTail, MoveSd PROVE IonsEnd
<1>1. /\ RELAX_METHOD = "sd" /\ RELAX_METHOD' = RELAX_METHOD
      /\ bfgs' = bfgs /\ cg' = cg /\ pc' = "runner"
      /\ basic' = SetupEtot(basic, tau, FirstStep)
      /\ sd' = [Radius(basic', SdSaved) EXCEPT !.pos = NextStructure]
      /\ Moved(Cell(tau))
  BY DEF MoveSd
<1>2. /\ StructuresInv /\ tau \in Nat /\ 1 <= tau /\ bfgs \in BfgsStates(tau)
      /\ Cell(tau) \in Nat /\ inp' = inp /\ energy' = energy
      /\ FirstStep \in BOOLEAN /\ pc = "relax_step"
  BY IonsTailFacts, CellNat DEF StructuresInv, IonsTail, FirstStep
<1>3. /\ tau' = tau + 1 /\ NextStructure = tau + 1
      /\ \A s \in 1 .. tau : structures'[s] = structures[s]
      /\ structures'[tau'] = Cell(tau)
  BY <1>1, <1>2, MovedKept
<1> DEFINE r == Radius(basic', SdSaved)
<1>4. r \in SdStates(tau) /\ LowestInCell(r.saved, tau)
  BY <1>1, <1>2, SdSavedKept, RadiusKept
<1> HIDE DEF r
<1>5. sd' \in SdStates(tau') /\ sd'.pos = tau' /\ sd'.saved = r.saved
  <2>1. sd' = [r EXCEPT !.pos = tau + 1]
    BY <1>1, <1>3 DEF r
  <2>2. sd' = [saved |-> r.saved, pos |-> tau + 1, radius |-> r.radius,
               accepted_number |-> r.accepted_number]
    BY <1>4, <2>1 DEF SdStates
  <2>3. r.saved \in 0 .. tau + 1 /\ tau + 1 \in 0 .. tau + 1
    BY <1>2, <1>4 DEF SdStates
  <2>4. QED
    BY <1>3, <1>4, <2>2, <2>3 DEF SdStates
<1>6. SdInv'
  <2>1. LowestInCell(sd.saved, tau - 1)'
    BY <1>2, <1>3, <1>4, <1>5 DEF LowestInCell, Cell, E
  <2>2. QED
    BY <1>1, <1>2, <1>5, <2>1 DEF IInv, SdInv
<1>7. basic' \in BasicStates(tau') /\ bfgs' \in BfgsStates(tau')
  <2>1. basic' \in BasicStates(tau)
    BY <1>1, <1>2, SetupEtotKept
  <2>2. QED
    BY <1>1, <1>2, <1>3, <2>1, StatesGrow
<1>8. BfgsInv'
  BY <1>1 DEF IInv, BfgsInv
<1>9. QED
  BY <1>1, <1>5, <1>6, <1>7, <1>8 DEF IonsEnd, Methods, IInv, CgInv

LEMMA RelaxIonsKept == IInv /\ RelaxIons => IInv'
<1> SUFFICES ASSUME IInv, RelaxIons PROVE IInv'
  OBVIOUS
<1>1. IonsTail
  BY DEF RelaxIons, AtStep, IonsTail
<1>2. IonsEnd
  BY <1>1, MoveBfgsEnds, MoveCgEnds, MoveSdEnds DEF RelaxIons
<1>3. /\ ForceStep \in Nat /\ 1 <= ForceStep /\ ForceStep <= istep /\ ~FirstStep'
      /\ StructuresInv /\ tau \in Nat /\ 1 <= tau /\ Len(energy) = tau
  BY <1>1, IonsTailFacts
<1>4. ControlInv'
  BY <1>1, <1>2, <1>3, NmaxAssumption DEF IonsTail, IonsEnd, IInv, ControlInv
<1>5. /\ structures' \in Seq(Nat) /\ tau' = Len(structures')
      /\ tau' = IF pc' = "runner" THEN tau + 1 ELSE tau
      /\ \A s \in 1 .. tau : structures'[s] = structures[s]
      /\ structures'[tau'] = structures[tau]
  <2>1. CASE pc' = "runner"
    BY <1>2, <1>3, <2>1, MovedKept, CellNat DEF IonsEnd, Cell
  <2>2. CASE pc' # "runner"
    BY <1>2, <1>3, <2>2 DEF IonsEnd, StructuresInv
  <2>3. QED
    BY <2>1, <2>2
<1>6. StructuresInv'
  <2>1. Len(energy') = IF pc' \in {"runner", "exit"} THEN tau' - 1 ELSE tau'
    BY <1>1, <1>2, <1>3, <1>5 DEF IonsTail, IonsEnd
  <2>2. /\ energy' \in Seq(Nat) /\ relaxed' \subseteq 1 .. tau'
        /\ cell_converged' \in 0 .. tau' /\ STRU_ION_D' \in 0 .. tau' /\ 1 <= tau'
    <3>1. energy' \in Seq(Nat) /\ 1 <= tau'
      BY <1>1, <1>3, <1>5 DEF IonsTail, StructuresInv
    <3>2. relaxed' \subseteq 1 .. tau'
      BY <1>1, <1>3, <1>5 DEF IonsTail, StructuresInv
    <3>3. cell_converged' \in 0 .. tau' /\ STRU_ION_D' \in 0 .. tau'
      <4>1. /\ cell_converged' = cell_converged /\ cell_converged \in 0 .. tau
            /\ STRU_ION_D' \in {STRU_ION_D, tau'} /\ STRU_ION_D \in 0 .. tau
        BY <1>1, <1>3 DEF IonsTail, StructuresInv
      <4>2. tau' \in {tau, tau + 1}
        BY <1>5
      <4>3. QED
        BY <1>3, <4>1, <4>2
    <3>4. QED
      BY <3>1, <3>2, <3>3
  <2>3. QED
    BY <1>2, <1>5, <2>1, <2>2 DEF IonsEnd, StructuresInv
<1>7. CgInv'
  BY <1>1, <1>2 DEF IonsTail, IonsEnd, IInv, CgInv
<1>8. Nested'
  BY <1>1, <1>2 DEF IonsTail, IonsEnd, IInv, Nested
<1>9. CellsInv'
  <2>1. \A s \in 1 .. tau : Cell(s) <= Cell(tau)
    BY DEF IInv, CellsInv
  <2>2. Cell(tau) \in Nat
    BY <1>3, CellNat
  <2>3. QED
    BY <1>3, <1>5, <2>1, <2>2 DEF CellsInv, Cell
<1>10. QED
  BY <1>2, <1>4, <1>6, <1>7, <1>8, <1>9 DEF IonsEnd, IInv


-----------------------------------------------------------------------------
(* The cell and the ends of the loop *)

LEMMA ReadyForCellKept ==
    ASSUME IInv, pc = "relax_step", ReadyForCell
    PROVE  /\ RELAX_METHOD' = RELAX_METHOD
           /\ basic' \in BasicStates(tau) /\ bfgs' \in BfgsStates(tau)
           /\ sd' \in SdStates(tau) /\ cg' \in CgState
           /\ bfgs'.first_step => ~bfgs'.save_flag
           /\ RELAX_METHOD # "bfgs" => bfgs'.first_step
           /\ relaxed \subseteq relaxed' /\ relaxed' \subseteq 1 .. tau
           /\ inp.if_atoms_can_move => tau \in relaxed'
<1>1. /\ StructuresInv /\ tau \in Nat /\ 1 <= tau /\ FirstStep \in BOOLEAN
      /\ basic \in BasicStates(tau) /\ bfgs \in BfgsStates(tau)
      /\ sd \in SdStates(tau) /\ cg \in CgState /\ relaxed \subseteq 1 .. tau
      /\ bfgs.first_step => ~bfgs.save_flag
      /\ RELAX_METHOD # "bfgs" => bfgs.first_step
  BY DEF IInv, StructuresInv, CgInv, BfgsInv, FirstStep
<1>2. CASE ConvergedHead
  <2>1. /\ basic' = SetupEtot(basic, tau, FirstStep)
        /\ bfgs' = IF RELAX_METHOD = "bfgs" THEN BfgsHead ELSE bfgs
        /\ cg' = IF RELAX_METHOD \in {"cg", "cg_bfgs"} THEN ResetCg(cg, FirstStep)
                 ELSE cg
        /\ sd' = IF RELAX_METHOD = "sd" THEN SdSaved ELSE sd
        /\ relaxed' = relaxed \cup {tau}
        /\ RELAX_METHOD' = RELAX_METHOD
    BY <1>2 DEF ConvergedHead
  <2>2. basic' \in BasicStates(tau)
    BY <1>1, <2>1, SetupEtotKept
  <2>3. /\ bfgs' \in BfgsStates(tau)
        /\ bfgs'.first_step => ~bfgs'.save_flag
        /\ RELAX_METHOD # "bfgs" => bfgs'.first_step
    BY <1>1, <2>1, RestartedKept
  <2>4. cg' \in CgState
    BY <1>1, <2>1, ResetKept
  <2>5. sd' \in SdStates(tau)
    BY <1>1, <2>1, SdSavedKept
  <2>6. QED
    BY <1>1, <2>1, <2>2, <2>3, <2>4, <2>5
<1>3. CASE NoIons
  BY <1>1, <1>3 DEF NoIons
<1>4. QED
  BY <1>2, <1>3 DEF ReadyForCell

LEMMA RelaxCellKept == IInv /\ RelaxCell => IInv'
<1> SUFFICES ASSUME IInv, RelaxCell PROVE IInv'
  OBVIOUS
<1>1. /\ pc = "relax_step" /\ istep < relax_nmax
      /\ inp.calculation = "cell-relax" /\ ReadyForCell
      /\ lattice_cg' \in CgStart(lattice_cg, stress_step = 1, tau)
      /\ pc' = "runner" /\ Moved(Cell(tau) + 1)
      /\ force_step' = 1 /\ stress_step' = stress_step + 1 /\ istep' = istep + 1
      /\ STRU_ION_D' = tau'
      /\ UNCHANGED <<inp, energy, cell_converged>>
  BY DEF RelaxCell, AtStep, CellCanChange
<1>2. /\ StructuresInv /\ tau \in Nat /\ 1 <= tau /\ Len(energy) = tau
      /\ Cell(tau) + 1 \in Nat /\ lattice_cg \in CgState
      /\ cell_converged \in 0 .. tau /\ energy \in Seq(Nat)
      /\ inp.if_atoms_can_move => MadeOf(lattice_cg, relaxed \cup {Nothing})
  <2>1. StructuresInv
    BY DEF IInv
  <2>2. Cell(tau) \in Nat
    BY <2>1, CellNat
  <2>3. QED
    BY <1>1, <2>1, <2>2 DEF IInv, StructuresInv, CgInv
<1>3. /\ RELAX_METHOD' = RELAX_METHOD
      /\ basic' \in BasicStates(tau) /\ bfgs' \in BfgsStates(tau)
      /\ sd' \in SdStates(tau) /\ cg' \in CgState
      /\ bfgs'.first_step => ~bfgs'.save_flag
      /\ RELAX_METHOD # "bfgs" => bfgs'.first_step
      /\ relaxed \subseteq relaxed' /\ relaxed' \subseteq 1 .. tau
      /\ inp.if_atoms_can_move => tau \in relaxed'
  BY <1>1, ReadyForCellKept
<1>4. FirstStep'
  BY <1>1 DEF FirstStep, ForceStep
<1>5. ControlInv'
  BY <1>1, <1>3, NmaxAssumption DEF IInv, ControlInv
<1>6. tau' = tau + 1 /\ structures' \in Seq(Nat) /\ Len(structures') = tau'
  BY <1>1, <1>2, MovedKept
<1>7. StructuresInv'
  <2>1. /\ basic' \in BasicStates(tau') /\ bfgs' \in BfgsStates(tau')
        /\ sd' \in SdStates(tau')
    BY <1>2, <1>3, <1>6, StatesGrow
  <2>2. /\ relaxed' \subseteq 1 .. tau' /\ cell_converged' \in 0 .. tau'
        /\ STRU_ION_D' \in 0 .. tau' /\ 1 <= tau'
    BY <1>1, <1>2, <1>3, <1>6
  <2>3. energy' \in Seq(Nat) /\ Len(energy') = tau' - 1
    BY <1>1, <1>2, <1>6
  <2>4. QED
    BY <1>1, <1>6, <2>1, <2>2, <2>3 DEF StructuresInv
<1>8. BfgsInv'
  BY <1>1, <1>3, <1>4 DEF BfgsInv
<1>9. lattice_cg' \in CgState
  <2>1. MadeOf(lattice_cg, Nat)
    BY <1>2 DEF CgState, MadeOf
  <2>2. QED
    BY <1>1, <1>2, <2>1, CgStartKept
<1>10. ASSUME inp.if_atoms_can_move
       PROVE  MadeOf(lattice_cg', relaxed' \cup {Nothing})
  <2>1. MadeOf(lattice_cg, relaxed' \cup {Nothing})
    BY <1>2, <1>3, <1>10 DEF MadeOf
  <2>2. QED
    BY <1>1, <1>2, <1>3, <1>10, <2>1, CgStartKept
<1>11. CgInv'
  BY <1>1, <1>3, <1>4, <1>9, <1>10 DEF IInv, CgInv
<1>12. Nested'
  BY <1>1, <1>10 DEF Nested, MadeOf
<1>13. CellsInv'
  <2>1. /\ \A s \in 1 .. tau : structures'[s] = structures[s]
        /\ structures'[tau'] = Cell(tau) + 1
    BY <1>1, <1>2, MovedKept
  <2>2. \A s \in 1 .. tau : structures[s] \in Nat /\ structures[s] <= Cell(tau)
    BY <1>2 DEF IInv, CellsInv, Cell, StructuresInv
  <2>3. \A s \in 1 .. tau : structures'[s] < structures'[tau']
    <3>1. Cell(tau) \in Nat
      BY <1>2, CellNat
    <3>2. QED
      BY <2>1, <2>2, <3>1
  <2>4. structures'[tau'] \in Nat
    BY <1>2, <2>1
  <2>5. \A s \in 1 .. tau' : s \in 1 .. tau \/ s = tau'
    BY <1>2, <1>6
  <2>6. \A s \in 1 .. tau : structures'[s] \in Nat
    BY <2>1, <2>2
  <2>7. QED
    BY <2>3, <2>4, <2>5, <2>6 DEF CellsInv, Cell
<1>14. SdInv'
  BY <1>1, <1>3, <1>4 DEF IInv, SdInv
<1>15. QED
  BY <1>5, <1>7, <1>8, <1>11, <1>12, <1>13, <1>14 DEF IInv

LEMMA ConvergedKept == IInv /\ Converged => IInv'
<1> SUFFICES ASSUME IInv, Converged PROVE IInv'
  OBVIOUS
<1>1. /\ pc = "relax_step" /\ ReadyForCell
      /\ IF CellCanChange
         THEN /\ cell_converged' = tau
              /\ lattice_cg' = ResetCg(lattice_cg, stress_step = 1)
         ELSE UNCHANGED <<cell_converged, lattice_cg>>
      /\ pc' = "converged" /\ STRU_ION_D' = tau
      /\ UNCHANGED <<inp, istep, force_step, stress_step, tau, structures, energy>>
  BY DEF Converged, AtStep, counters
<1>2. /\ StructuresInv /\ tau \in Nat /\ 1 <= tau /\ Len(energy) = tau
      /\ lattice_cg \in CgState /\ cell_converged \in 0 .. tau
      /\ inp.if_atoms_can_move => MadeOf(lattice_cg, relaxed \cup {Nothing})
  BY <1>1 DEF IInv, StructuresInv, CgInv
<1>3. /\ RELAX_METHOD' = RELAX_METHOD
      /\ basic' \in BasicStates(tau) /\ bfgs' \in BfgsStates(tau)
      /\ sd' \in SdStates(tau) /\ cg' \in CgState
      /\ bfgs'.first_step => ~bfgs'.save_flag
      /\ RELAX_METHOD # "bfgs" => bfgs'.first_step
      /\ relaxed \subseteq relaxed' /\ relaxed' \subseteq 1 .. tau
      /\ inp.if_atoms_can_move => tau \in relaxed'
  BY <1>1, ReadyForCellKept
<1>4. ControlInv'
  BY <1>1, <1>3 DEF IInv, ControlInv
<1>5. StructuresInv'
  BY <1>1, <1>2, <1>3 DEF StructuresInv
<1>6. BfgsInv'
  BY <1>1, <1>3 DEF BfgsInv
<1>7. /\ lattice_cg' \in CgState
      /\ lattice_cg'.grad0 = lattice_cg.grad0
      /\ lattice_cg'.direction = lattice_cg.direction
  <2>1. CASE CellCanChange
    BY <1>1, <1>2, <2>1, ResetKept
  <2>2. CASE ~CellCanChange
    BY <1>1, <1>2, <2>2
  <2>3. QED
    BY <2>1, <2>2
<1>8. inp.if_atoms_can_move => MadeOf(lattice_cg', relaxed' \cup {Nothing})
  BY <1>2, <1>3, <1>7 DEF MadeOf
<1>9. CgInv'
  BY <1>1, <1>3, <1>7, <1>8 DEF IInv, CgInv
<1>10. CellCanChange' = CellCanChange
  BY <1>1 DEF CellCanChange
<1>11. Nested'
  BY <1>1, <1>2, <1>3, <1>8, <1>10 DEF Nested, MadeOf
<1>12. CellsInv' /\ SdInv'
  BY <1>1, <1>3 DEF IInv, CellsInv, SdInv, Cell
<1>13. QED
  BY <1>4, <1>5, <1>6, <1>9, <1>11, <1>12 DEF IInv

\* LastStep and Exit leave the optimizers and the structures as they are.
LEMMA EndKept == IInv /\ (LastStep \/ Exit) => IInv'
<1> SUFFICES ASSUME IInv, LastStep \/ Exit PROVE IInv'
  OBVIOUS
<1>1. /\ \/ pc = "relax_step" /\ pc' = "last" /\ STRU_ION_D' = tau
         \/ pc = "runner" /\ pc' = "exit" /\ STRU_ION_D' = STRU_ION_D
      /\ UNCHANGED <<inp, istep, force_step, stress_step, tau, structures, energy,
                     RELAX_METHOD, basic, bfgs, cg, sd, lattice_cg, relaxed,
                     cell_converged>>
  BY DEF LastStep, Exit, counters, optimizers
<1>2. ControlInv'
  BY <1>1 DEF IInv, ControlInv
<1>3. StructuresInv'
  BY <1>1 DEF IInv, StructuresInv
<1>4. BfgsInv'
  BY <1>1 DEF IInv, BfgsInv
<1>5. CgInv'
  BY <1>1 DEF IInv, CgInv
<1>6. Nested'
  BY <1>1 DEF IInv, Nested
<1>7. CellsInv' /\ SdInv'
  BY <1>1 DEF IInv, CellsInv, SdInv, Cell
<1>8. QED
  BY <1>2, <1>3, <1>4, <1>5, <1>6, <1>7 DEF IInv

LEMMA StutterKept == IInv /\ UNCHANGED vars => IInv'
<1> SUFFICES ASSUME IInv, UNCHANGED vars PROVE IInv'
  OBVIOUS
<1>1. /\ UNCHANGED <<inp, istep, force_step, stress_step, tau, structures, energy,
                     RELAX_METHOD, basic, bfgs, cg, sd, lattice_cg, relaxed,
                     cell_converged, pc, STRU_ION_D>>
  BY DEF vars, counters, optimizers
<1>2. FirstStep' = FirstStep /\ InCell' = InCell /\ CellCanChange' = CellCanChange
  BY <1>1 DEF FirstStep, ForceStep, InCell, Cell, CellCanChange
<1>3. ControlInv' /\ StructuresInv'
  BY <1>1 DEF IInv, ControlInv, StructuresInv
<1>4. BfgsInv' /\ CgInv'
  BY <1>1, <1>2 DEF IInv, BfgsInv, CgInv
<1>5. Nested'
  BY <1>1, <1>2 DEF IInv, Nested
<1>6. CellsInv' /\ SdInv'
  BY <1>1, <1>2 DEF IInv, CellsInv, SdInv, LowestInCell, Cell, E
<1>7. QED
  BY <1>3, <1>4, <1>5, <1>6 DEF IInv

-----------------------------------------------------------------------------
(* The theorems *)

\* The inductive invariant of the nested relaxation
THEOREM InductiveInvariant == Spec => []IInv
<1>1. IInv /\ [Next]_vars => IInv'
  BY RunnerKept, RelaxIonsKept, RelaxCellKept, ConvergedKept, EndKept, StutterKept
     DEF Next
<1>2. QED
  BY InitKept, <1>1, PTL DEF Spec

\* Type correctness of RelaxOld: what an optimizer keeps is of a structure
\* there was, and only the last structure may be without an energy.
THEOREM TypeCorrect == Spec => []TypeOK
<1>1. IInv => TypeOK
  <2> SUFFICES ASSUME IInv PROVE TypeOK
    OBVIOUS
  <2>1. /\ inp \in Inputs
        /\ pc \in {"runner", "relax_step", "quit", "converged", "last", "exit"}
        /\ istep \in 1 .. relax_nmax
        /\ force_step \in 1 .. istep /\ stress_step \in 1 .. istep
        /\ RELAX_METHOD \in Methods
    BY NmaxAssumption DEF IInv, ControlInv
  <2>2. /\ tau = Len(structures) /\ Len(energy) \in {tau - 1, tau}
        /\ STRU_ION_D \in 0 .. tau
        /\ basic \in BasicStates(tau) /\ bfgs \in BfgsStates(tau)
        /\ sd \in SdStates(tau)
        /\ relaxed \subseteq 1 .. tau /\ cell_converged \in 0 .. tau
    BY DEF IInv, StructuresInv
  <2>3. cg \in CgState /\ lattice_cg \in CgState
    BY DEF IInv, CgInv
  <2>4. QED
    BY <2>1, <2>2, <2>3 DEF TypeOK, BasicStates, BfgsStates, SdStates
<1>2. QED
  BY <1>1, InductiveInvariant, PTL

\* In a fixed cell BFGS compares a new structure with the position, the
\* gradient and the energy of one structure, and knows where it is.
THEOREM BfgsPointKept == Spec => []BfgsPoint
<1>1. IInv => BfgsPoint
  <2> SUFFICES ASSUME IInv, inp.calculation = "relax", BfgsAt("relax_step")
               PROVE  bfgs.pos = tau
                      /\ (bfgs.save_flag => /\ bfgs.pos_p = bfgs.grad_p
                                            /\ bfgs.grad_p = basic.etot)
    BY DEF BfgsPoint
  <2>1. /\ ~FirstStep /\ bfgs.pos = tau
        /\ bfgs.save_flag => bfgs.pos_p = bfgs.grad_p
    BY DEF IInv, BfgsInv, BfgsAt
  <2>2. bfgs.save_flag /\ ~FirstStep => bfgs.grad_p = basic.etot
    BY DEF IInv, BfgsInv, BfgsAt
  <2>3. QED
    BY <2>1, <2>2
<1>2. QED
  BY <1>1, InductiveInvariant, PTL

\* The conjugate directions of the ions are made within one cell.
THEOREM ConjugateKept == Spec => []ConjugateWithinCell
<1>1. IInv => ConjugateWithinCell
  BY DEF IInv, CgInv, MadeOf, InCell, ConjugateWithinCell
<1>2. QED
  BY <1>1, InductiveInvariant, PTL

\* SD moves along the gradient of a lowest structure of the present cell, and
\* from where the structure is.
THEOREM SdLowestKept == Spec => []SdLowest
<1>1. IInv => SdLowest
  <2> SUFFICES ASSUME IInv, inp.relax_method = "sd", pc = "runner", ~FirstStep
               PROVE  /\ Cell(sd.saved) = Cell(tau) /\ sd.pos = tau
                      /\ \A s \in 1 .. Len(energy) :
                             Cell(s) = Cell(tau) => E(sd.saved) <= E(s)
    BY DEF SdLowest
  <2>1. sd.pos = tau /\ LowestInCell(sd.saved, tau - 1)
    BY DEF IInv, SdInv
  <2>2. Len(energy) = tau - 1
    BY DEF IInv, StructuresInv
  <2>3. QED
    BY <2>1, <2>2 DEF LowestInCell
<1>2. QED
  BY <1>1, InductiveInvariant, PTL

\* The cell follows stresses of structures with converged ions, and a
\* relaxation that ends as converged is so for the structure it writes.
THEOREM NestedKept == Spec => []Nested
<1>1. IInv => Nested
  BY DEF IInv
<1>2. QED
  BY <1>1, InductiveInvariant, PTL

\* A structure BFGS goes on from is not above the one before it in energy.
THEOREM BfgsDescent == Spec => BfgsDescends
<1> DEFINE A == BfgsAt("relax_step") /\ bfgs.save_flag /\ ~FirstStep
                  /\ bfgs'.grad_p # bfgs.grad_p
                => E(bfgs'.grad_p) <= E(bfgs.grad_p)
<1>1. ASSUME IInv, Next PROVE A
  <2> SUFFICES ASSUME BfgsAt("relax_step"), bfgs.save_flag, ~FirstStep,
                      bfgs'.grad_p # bfgs.grad_p
               PROVE  E(bfgs'.grad_p) <= E(bfgs.grad_p)
    OBVIOUS
  <2> DEFINE b == SetupEtot(basic, tau, FirstStep)
  <2>1. /\ pc = "relax_step" /\ RELAX_METHOD = "bfgs" /\ ~bfgs.first_step
        /\ bfgs.grad_p = basic.etot /\ StructuresInv
        /\ bfgs \in BfgsStates(tau) /\ FirstStep \in BOOLEAN /\ tau \in Nat
        /\ NextStructure = tau + 1
    <3>1. StructuresInv /\ BfgsInv
      BY <1>1 DEF IInv
    <3>2. pc = "relax_step" /\ RELAX_METHOD = "bfgs" /\ ~bfgs.first_step
      BY DEF BfgsAt
    <3>3. bfgs.grad_p = basic.etot
      BY <3>1, <3>2 DEF BfgsInv
    <3>4. bfgs \in BfgsStates(tau) /\ tau \in Nat /\ NextStructure = tau + 1
      BY <3>1 DEF StructuresInv, NextStructure
    <3>5. FirstStep \in BOOLEAN
      BY DEF FirstStep
    <3>6. QED
      BY <3>1, <3>2, <3>3, <3>4, <3>5
  <2>2. b.etot = tau /\ b.etot_p = bfgs.grad_p
    BY <2>1, SetupEtotKept
  <2>3. /\ Restarted \in BfgsStates(tau) /\ ~Restarted.first_step
        /\ BfgsHead.grad_p = bfgs.grad_p /\ Restarted.pos = bfgs.pos
    BY <2>1, RestartedKept
  <2>4. /\ bfgs.pos \in 0 .. tau /\ bfgs.pos_p \in 0 .. tau
        /\ bfgs.grad_p \in 0 .. tau /\ tau \in 0 .. tau
    BY <2>1 DEF BfgsStates
  <2> HIDE DEF b
  <2>5. MoveBfgs
    <3>1. CASE RelaxIons
      BY <2>1, <3>1 DEF RelaxIons, MoveCg, MoveSd
    <3>2. CASE RelaxCell \/ Converged
      <4>1. bfgs' \in {bfgs, BfgsHead}
        BY <3>2 DEF RelaxCell, Converged, ReadyForCell, ConvergedHead, NoIons
      <4>2. QED
        BY <2>3, <4>1
    <3>3. CASE Runner \/ LastStep \/ Exit
      BY <3>3 DEF Runner, LastStep, Exit, optimizers
    <3>4. QED
      BY <1>1, <3>1, <3>2, <3>3 DEF Next
  <2>6. CASE BfgsRejects(b)
    <3>1. PICK below_rmin \in BOOLEAN :
            IF below_rmin /\ bfgs.tr_min_hit
            THEN pc' = "quit" /\ UNCHANGED <<bfgs, tau, structures>>
            ELSE /\ pc' = "runner" /\ Moved(Cell(tau))
                 /\ bfgs' = Saved(Restarted, bfgs.pos_p, bfgs.grad_p, below_rmin)
      BY <2>6 DEF BfgsRejects
    <3>2. bfgs' = Saved(Restarted, bfgs.pos_p, bfgs.grad_p, below_rmin)
      BY <3>1
    <3>3. QED
      BY <2>1, <2>3, <2>4, <3>2, SavedKept
  <2>7. CASE BfgsAccepts(b)
    <3>1. PICK below_rmin \in BOOLEAN :
            IF below_rmin /\ bfgs.tr_min_hit
            THEN pc' = "quit" /\ UNCHANGED <<bfgs, tau, structures>>
            ELSE /\ pc' = "runner" /\ Moved(Cell(tau))
                 /\ bfgs' = Saved(Restarted, Restarted.pos, tau, below_rmin)
      BY <2>7 DEF BfgsAccepts
    <3>2. bfgs' = Saved(Restarted, Restarted.pos, tau, below_rmin)
      BY <3>1
    <3>3. bfgs'.grad_p = tau
      BY <2>1, <2>3, <2>4, <3>2, SavedKept
    <3>4. E(b.etot) <= E(b.etot_p)
      BY <2>7 DEF BfgsAccepts
    <3>5. QED
      BY <2>2, <3>3, <3>4
  <2>8. QED
    BY <2>5, <2>6, <2>7 DEF MoveBfgs, b
<1>2. ASSUME UNCHANGED vars PROVE A
  BY <1>2 DEF vars, optimizers
<1>3. IInv /\ [Next]_vars => [A]_vars
  BY <1>1, <1>2
<1>4. Spec => [][A]_vars
  BY <1>3, InductiveInvariant, PTL DEF Spec
<1>5. QED
  BY <1>4 DEF BfgsDescends

=============================================================================
