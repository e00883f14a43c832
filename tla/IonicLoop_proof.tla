--------------------------- MODULE IonicLoop_proof ---------------------------
(***************************************************************************)
(* Proofs about IonicLoop, for any displacements and any number of steps   *)
(* of any of the drivers.                                                  *)
(***************************************************************************)
EXTENDS IonicLoop, TLAPS

Vector == Int \X Int
Density == [ions : Vector, atoms : Vector, cell : Int]
Structure == [ions : Vector, cell : Int]

Weights == Int \X Int \X Int
Guesses == [den : Int \ {0}, weights : Weights, atoms : Vector, cell : Int]

StructureInv ==
    /\ inp \in Inputs
    /\ pc \in {"before_scf", "scf", "stopped"} \cup Drivers
    /\ istep \in Nat /\ 1 <= istep /\ istep <= MaxSteps
    /\ ions \in Vector /\ dis \in Vector /\ strucFac \in Vector
    /\ cell \in Nat /\ cell <= istep - 1
    /\ ionic_position_updated \in BOOLEAN /\ cell_parameter_updated \in BOOLEAN
    /\ rho \in Guesses

\* Charge_Extra is behind by the steps that moved no ions.
HistoryInv ==
    /\ CE \in [istep : Nat, dis : Vector \X Vector \X Vector,
               delta_rho : Density \X Density \X Density]
    /\ CE.istep <= istep - 1
    /\ pc = "before_scf" /\ ionic_position_updated => CE.istep <= istep - 2
    /\ done \in Seq(Structure)
    /\ Len(done) = IF pc \in {"before_scf", "scf"} THEN istep - 1 ELSE istep
    /\ pot_order # 0 =>
           \A k \in 1 .. 3 :
              k <= Len(done) =>
                 CE.delta_rho[k] = [ions |-> done[k].ions, atoms |-> done[k].ions,
                                    cell |-> done[k].cell]

\* The structure factors are of the ions unless the solver is still to be told.
FactorsInv ==
    pc # "before_scf" \/ ~ionic_position_updated => strucFac = ions

IInv == StructureInv /\ HistoryInv /\ FactorsInv /\ GuessOfThisStructure

-----------------------------------------------------------------------------
(* Charge_Extra *)

LEMMA DotInt == ASSUME NEW u \in Vector, NEW v \in Vector PROVE Dot(u, v) \in Int
BY DEF Vector, Dot

\* The denominator of the second-order weights is never zero, also when the
\* displacements are dependent or vanish.
LEMMA SecondOrderWeights ==
    ASSUME NEW d \in Vector \X Vector \X Vector
    PROVE  SecondOrder(d).den \in Int \ {0} /\ SecondOrder(d).weights \in Weights
<1> DEFINE a11 == Dot(d[2], d[2])
           a12 == Dot(d[2], d[3])
           a22 == Dot(d[3], d[3])
           b1 == Dot(d[1], d[2])
           b2 == Dot(d[1], d[3])
           det == a11 * a22 - a12 * a12
           regular == det # 0
           den == CASE regular -> det [] ~regular /\ a11 # 0 -> a11 [] OTHER -> 1
           alpha == CASE regular -> b1 * a22 - b2 * a12
                      [] ~regular /\ a11 # 0 -> b1
                      [] OTHER -> 0
           beta == IF regular THEN a11 * b2 - a12 * b1 ELSE 0
<1>1. a11 \in Int /\ a12 \in Int /\ a22 \in Int /\ b1 \in Int /\ b2 \in Int
  BY DotInt
<1>2. SecondOrder(d) =
        [den |-> den, weights |-> <<den + alpha, beta - alpha, 0 - beta>>]
  BY DEF SecondOrder
<1> HIDE DEF a11, a12, a22, b1, b2
<1>3. /\ det \in Int /\ b1 * a22 - b2 * a12 \in Int /\ a11 * b2 - a12 * b1 \in Int
  BY <1>1
<1>4. den \in Int \ {0} /\ alpha \in Int /\ beta \in Int
  <2> HIDE DEF det
  <2>1. CASE regular
    BY <2>1, <1>1, <1>3
  <2>2. CASE ~regular /\ a11 # 0
    BY <2>2, <1>1, <1>3
  <2>3. CASE ~regular /\ a11 = 0
    BY <2>3, <1>1, <1>3
  <2>4. QED
    BY <2>1, <2>2, <2>3
<1> HIDE DEF den, alpha, beta
<1>5. QED
  BY <1>2, <1>4 DEF Weights

\* The weights are of as many densities as the order says.
LEMMA WeightsOfOrder ==
    ASSUME NEW ce, ce.dis \in Vector \X Vector \X Vector, NEW e \in 1 .. 3
    PROVE  /\ Coefficients(ce, e).den \in Int \ {0}
           /\ Coefficients(ce, e).weights \in Weights
           /\ \A k \in 1 .. 3 : Coefficients(ce, e).weights[k] # 0 => k <= e
<1>1. CASE e = 1
  <2>1. Coefficients(ce, e) = [den |-> 1, weights |-> <<1, 0, 0>>]
    BY <1>1 DEF Coefficients
  <2>2. QED
    BY <2>1, <1>1 DEF Weights
<1>2. CASE e = 2
  <2>1. Coefficients(ce, e) = [den |-> 1, weights |-> <<2, -1, 0>>]
    BY <1>2 DEF Coefficients
  <2>2. QED
    BY <2>1, <1>2 DEF Weights
<1>3. CASE e = 3
  <2>1. Coefficients(ce, e) = SecondOrder(ce.dis)
    BY <1>3 DEF Coefficients
  <2>2. QED
    BY <2>1, <1>3, SecondOrderWeights
<1>4. QED
  BY <1>1, <1>2, <1>3

LEMMA OrderRange == ASSUME inp \in Inputs PROVE pot_order \in 0 .. 3
BY InputsAssumption DEF pot_order, PotOrder, Settings

-----------------------------------------------------------------------------
(* The invariant is kept *)

LEMMA PreviousGuess == Previous \in Guesses
BY DEF Previous, Guess, Guesses, Weights, Vector, Still

LEMMA InitKept == Init => IInv
<1> SUFFICES ASSUME Init PROVE IInv
  OBVIOUS
<1>1. StructureInv
  <2>1. istep = 1 /\ 1 <= MaxSteps
    BY MaxStepsAssumption DEF Init
  <2>2. Still \in Vector
    BY DEF Still, Vector
  <2>3. /\ ions = Still /\ dis = Still /\ strucFac = Still /\ cell = 0
        /\ rho = Previous /\ inp \in Inputs /\ pc = "before_scf"
        /\ ionic_position_updated = FALSE /\ cell_parameter_updated = FALSE
    BY DEF Init
  <2>4. istep \in Nat /\ 1 <= istep /\ istep <= MaxSteps
    BY <2>1
  <2>5. cell \in Nat /\ cell <= istep - 1
    BY <2>1, <2>3
  <2>6. /\ pc \in {"before_scf", "scf", "stopped"} \cup Drivers
        /\ ionic_position_updated \in BOOLEAN /\ cell_parameter_updated \in BOOLEAN
    BY <2>3
  <2>7. ions \in Vector /\ dis \in Vector /\ strucFac \in Vector /\ rho \in Guesses
    BY <2>2, <2>3, PreviousGuess
  <2>8. inp \in Inputs
    BY <2>3
  <2> QED
    BY <2>4, <2>5, <2>6, <2>7, <2>8 DEF StructureInv
<1>2. HistoryInv
  BY DEF Init, HistoryInv, Init_CE, NoDensity, Still, Vector, Density
<1>3. FactorsInv /\ GuessOfThisStructure
  BY DEF Init, FactorsInv, GuessOfThisStructure, Guessed
<1>4. QED
  BY <1>1, <1>2, <1>3 DEF IInv

LEMMA BeforeScfKept == IInv /\ BeforeScf => IInv'
<1> SUFFICES ASSUME IInv, BeforeScf PROVE IInv'
  OBVIOUS
<1>1. /\ pc = "before_scf" /\ pc' = "scf"
      /\ UNCHANGED <<inp, istep, ions, cell, dis, ionic_position_updated,
                     cell_parameter_updated, done>>
      /\ pot_order' = pot_order
  BY DEF BeforeScf, unitCell, pot_order
<1>2. CASE ~ionic_position_updated
  <2>1. rho' = Previous /\ CE' = CE /\ strucFac' = strucFac /\ Previous' = Previous
    BY <1>2 DEF BeforeScf, Previous
  <2>2. StructureInv' /\ FactorsInv'
    BY <1>1, <1>2, <2>1, PreviousGuess DEF IInv, StructureInv, FactorsInv
  <2>3. HistoryInv'
    BY <1>1, <2>1 DEF IInv, HistoryInv
  <2>4. GuessOfThisStructure'
    BY <2>1 DEF GuessOfThisStructure, Guessed
  <2>5. QED
    BY <2>2, <2>3, <2>4 DEF IInv
<1>3. CASE ionic_position_updated
  <2> DEFINE ce == UpdateAllDis(CE, pot_order, dis)
             e == RhoExtr(ce, pot_order)
             c == Coefficients(ce, e)
  <2>1. /\ CE' = ce /\ strucFac' = ions
        /\ rho' = IF e = 0 THEN Previous ELSE Guess(c.den, c.weights, ions, cell)
    BY <1>3 DEF BeforeScf, Extrapolate
  <2>2. /\ ce \in [istep : Nat, dis : Vector \X Vector \X Vector,
                   delta_rho : Density \X Density \X Density]
        /\ ce.istep = CE.istep + 1 /\ ce.delta_rho = CE.delta_rho
    <3>1. dis \in Vector
      BY DEF IInv, StructureInv
    <3>2. CE \in [istep : Nat, dis : Vector \X Vector \X Vector,
                  delta_rho : Density \X Density \X Density]
      BY DEF IInv, HistoryInv
    <3>3. (IF pot_order = 3 THEN <<dis, CE.dis[1], CE.dis[2]>> ELSE CE.dis)
            \in Vector \X Vector \X Vector
      BY <3>1, <3>2
    <3>4. ce = [CE EXCEPT !.istep = CE.istep + 1,
                          !.dis = IF pot_order = 3 THEN <<dis, CE.dis[1], CE.dis[2]>>
                                  ELSE CE.dis]
      BY DEF UpdateAllDis
    <3>5. CE.istep + 1 \in Nat
      BY <3>2
    <3>6. QED
      BY <3>2, <3>3, <3>4, <3>5
  <2>3. /\ CE.istep \in Nat /\ istep \in Nat /\ CE.istep <= istep - 2
        /\ Len(done) = istep - 1
    BY <1>1, <1>3 DEF IInv, StructureInv, HistoryInv
  <2>4. e \in 0 .. 3 /\ e <= Len(done) /\ (e # 0 => pot_order # 0)
    BY <2>2, <2>3, OrderRange DEF IInv, StructureInv, RhoExtr
  <2>5. e # 0 => /\ c.den \in Int \ {0} /\ c.weights \in Weights
                 /\ \A k \in 1 .. 3 : c.weights[k] # 0 => k <= e
    <3>1. ce.dis \in Vector \X Vector \X Vector
      BY <2>2
    <3>2. e # 0 => e \in 1 .. 3
      BY <2>4
    <3> HIDE DEF ce, e
    <3>3. QED
      BY <3>1, <3>2, WeightsOfOrder
  <2> HIDE DEF ce, e, c
  <2>6. rho' \in Guesses
    BY <2>1, <2>5, PreviousGuess DEF Guess, Guesses, IInv, StructureInv
  <2>7. StructureInv' /\ FactorsInv'
    BY <1>1, <2>1, <2>6 DEF IInv, StructureInv, FactorsInv
  <2>8. HistoryInv'
    BY <1>1, <2>1, <2>2, <2>3 DEF IInv, HistoryInv
  <2>9. GuessOfThisStructure'
    <3> SUFFICES ASSUME Guessed'
                 PROVE  /\ rho'.atoms = ions' /\ rho'.cell = cell'
                        /\ \A k \in 1 .. 3 :
                             rho'.weights[k] # 0 =>
                               /\ k <= Len(done')
                               /\ CE'.delta_rho[k] =
                                    [ions |-> done'[k].ions, cell |-> done'[k].cell,
                                     atoms |-> done'[k].ions]
      BY DEF GuessOfThisStructure
    <3>1. e # 0 /\ rho' = Guess(c.den, c.weights, ions, cell)
      BY <2>1 DEF Guessed, Previous
    <3>2. rho'.atoms = ions /\ rho'.cell = cell /\ rho'.weights = c.weights
      BY <3>1 DEF Guess
    <3>3. \A k \in 1 .. 3 : c.weights[k] # 0 => k <= Len(done)
      BY <3>1, <2>3, <2>4, <2>5
    <3>4. \A k \in 1 .. 3 :
             k <= Len(done) =>
               CE.delta_rho[k] = [ions |-> done[k].ions, atoms |-> done[k].ions,
                                  cell |-> done[k].cell]
      BY <3>1, <2>4 DEF IInv, HistoryInv
    <3>5. QED
      BY <3>2, <3>3, <3>4, <1>1, <2>1, <2>2
  <2>10. QED
    BY <2>7, <2>8, <2>9 DEF IInv
<1>4. QED
  BY <1>2, <1>3 DEF IInv, StructureInv

LEMMA AfterScfKept == IInv /\ AfterScf => IInv'
<1> SUFFICES ASSUME IInv, AfterScf PROVE IInv'
  OBVIOUS
<1> DEFINE s == [ions |-> ions, cell |-> cell]
           density == [ions |-> ions, atoms |-> strucFac, cell |-> cell]
<1>1. /\ pc = "scf" /\ pc' = inp.driver /\ done' = <<s>> \o done
      /\ CE' = UpdateDeltaRho(CE, pot_order, density)
      /\ UNCHANGED <<inp, istep, ions, cell, dis, ionic_position_updated,
                     cell_parameter_updated, strucFac, rho>>
      /\ pot_order' = pot_order
  BY DEF AfterScf, unitCell, pot_order
<1>2. pc' \in Drivers /\ pc' \notin {"before_scf", "scf"}
  BY <1>1, InputsAssumption DEF IInv, StructureInv, Settings, Drivers
<1>3. strucFac = ions
  BY <1>1 DEF IInv, FactorsInv
<1>4. StructureInv' /\ FactorsInv'
  BY <1>1, <1>2, <1>3 DEF IInv, StructureInv, FactorsInv
<1>5. /\ done \in Seq(Structure) /\ s \in Structure /\ density \in Density
      /\ Len(done) = istep - 1 /\ istep \in Nat
  BY <1>1 DEF IInv, StructureInv, HistoryInv, Structure, Density
<1>6. /\ done' \in Seq(Structure) /\ Len(done') = istep
      /\ done'[1] = s /\ \A k \in 1 .. Len(done) : done'[k + 1] = done[k]
  <2> HIDE DEF s
  <2>1. <<s>> \in Seq(Structure) /\ Len(<<s>>) = 1
    BY <1>5
  <2>2. <<s>> \o done \in Seq(Structure) /\ Len(<<s>> \o done) = 1 + Len(done)
    BY <1>5, <2>1
  <2>3. (<<s>> \o done)[1] = s
    BY <1>5
  <2>4. \A k \in 1 .. Len(done) : (<<s>> \o done)[k + 1] = done[k]
    BY <1>5
  <2>5. QED
    BY <1>1, <1>5, <2>2, <2>3, <2>4
<1>7. /\ CE' \in [istep : Nat, dis : Vector \X Vector \X Vector,
                  delta_rho : Density \X Density \X Density]
      /\ CE'.istep = CE.istep
      /\ pot_order # 0 => CE'.delta_rho = <<density, CE.delta_rho[1], CE.delta_rho[2]>>
  BY <1>1, <1>5 DEF IInv, HistoryInv, UpdateDeltaRho
<1>8. HistoryInv'
  <2>1. pot_order # 0 =>
           \A k \in 1 .. 3 :
              k <= Len(done') =>
                 CE'.delta_rho[k] = [ions |-> done'[k].ions, atoms |-> done'[k].ions,
                                     cell |-> done'[k].cell]
    <3> SUFFICES ASSUME pot_order # 0, NEW k \in 1 .. 3, k <= Len(done')
                 PROVE  CE'.delta_rho[k] = [ions |-> done'[k].ions, atoms |-> done'[k].ions,
                                            cell |-> done'[k].cell]
      OBVIOUS
    <3>1. CASE k = 1
      BY <3>1, <1>3, <1>6, <1>7
    <3>2. CASE k # 1
      <4>1. k - 1 \in 1 .. 3 /\ k - 1 <= Len(done) /\ k - 1 \in 1 .. Len(done)
        BY <3>2, <1>5, <1>6
      <4>2. CE'.delta_rho[k] = CE.delta_rho[k - 1]
        BY <3>2, <1>7
      <4>3. done'[k] = done[k - 1]
        BY <4>1, <1>6
      <4>4. CE.delta_rho[k - 1] = [ions |-> done[k - 1].ions, atoms |-> done[k - 1].ions,
                                   cell |-> done[k - 1].cell]
        BY <4>1 DEF IInv, HistoryInv
      <4>5. QED
        BY <4>2, <4>3, <4>4
    <3>3. QED
      BY <3>1, <3>2
  <2>2. CE'.istep <= istep' - 1
    BY <1>1, <1>7 DEF IInv, HistoryInv
  <2>3. QED
    BY <2>1, <2>2, <1>1, <1>2, <1>6, <1>7 DEF HistoryInv
<1>9. GuessOfThisStructure'
  BY <1>2 DEF GuessOfThisStructure, Guessed
<1>10. QED
  BY <1>4, <1>8, <1>9 DEF IInv

\* A step of any driver: what they have in common is all that is needed.
LEMMA DriverKept ==
    ASSUME IInv, pc \in Drivers, Continue,
           UNCHANGED <<inp, Solver>>,
           ions' \in Vector, dis' \in Vector, cell' \in {cell, cell + 1},
           ionic_position_updated' \in BOOLEAN, cell_parameter_updated' \in BOOLEAN,
           ions' = ions \/ ionic_position_updated'
    PROVE  IInv'
<1>1. /\ pc \notin {"before_scf", "scf"} /\ pc' = "before_scf" /\ istep' = istep + 1
      /\ istep < MaxSteps
      /\ UNCHANGED <<strucFac, rho, CE, done>> /\ pot_order' = pot_order
  BY DEF Continue, Solver, Drivers, pot_order
<1>2. istep \in Nat /\ cell \in Nat /\ cell <= istep - 1 /\ MaxSteps \in Nat
  BY MaxStepsAssumption DEF IInv, StructureInv
<1>3. StructureInv'
  <2>1. istep' \in Nat /\ 1 <= istep' /\ istep' <= MaxSteps
    BY <1>1, <1>2
  <2>2. cell' \in Nat /\ cell' <= istep' - 1
    BY <1>1, <1>2
  <2>3. QED
    BY <2>1, <2>2, <1>1 DEF IInv, StructureInv
<1>4. HistoryInv'
  BY <1>1, <1>2 DEF IInv, HistoryInv
<1>5. strucFac = ions
  BY <1>1 DEF IInv, FactorsInv
<1>6. FactorsInv' /\ GuessOfThisStructure'
  BY <1>1, <1>5 DEF FactorsInv, GuessOfThisStructure, Guessed
<1>7. QED
  BY <1>3, <1>4, <1>6 DEF IInv

LEMMA PositionKept ==
    ASSUME IInv, NEW move \in Moves, UpdatePosition(move)
    PROVE  ions' \in Vector /\ dis' \in Vector
BY MovesAssumption DEF IInv, StructureInv, UpdatePosition, Plus, Vector

LEMMA DriversKept ==
    ASSUME IInv, RelaxStep \/ RelaxOldIons \/ RelaxOldCell \/ MdStep
    PROVE  IInv'
<1>1. inp.cell_moves \in BOOLEAN /\ cell_parameter_updated \in BOOLEAN
  BY InputsAssumption DEF IInv, StructureInv, Settings
<1>2. CASE RelaxStep
  <2>1. ions' \in Vector /\ dis' \in Vector
    BY <1>2, PositionKept DEF RelaxStep
  <2>2. QED
    BY <1>1, <1>2, <2>1, DriverKept DEF RelaxStep, Drivers
<1>3. CASE RelaxOldIons
  <2>1. ions' \in Vector /\ dis' \in Vector
    BY <1>3, PositionKept DEF RelaxOldIons
  <2>2. QED
    BY <1>3, <2>1, DriverKept DEF RelaxOldIons, Drivers
<1>4. CASE RelaxOldCell
  <2>1. ions' = ions /\ ions' \in Vector /\ dis' \in Vector
    BY <1>4 DEF RelaxOldCell, IInv, StructureInv
  <2>2. QED
    BY <1>4, <2>1, DriverKept DEF RelaxOldCell, Drivers
<1>5. CASE MdStep
  <2>1. ions' \in Vector /\ dis' \in Vector
    BY <1>5, PositionKept DEF MdStep
  <2>2. QED
    BY <1>1, <1>5, <2>1, DriverKept DEF MdStep, Drivers
<1>6. QED
  BY <1>2, <1>3, <1>4, <1>5

LEMMA StopKept == IInv /\ Stop => IInv'
<1> SUFFICES ASSUME IInv, Stop PROVE IInv'
  OBVIOUS
<1>1. /\ pc \in Drivers /\ pc' = "stopped"
      /\ UNCHANGED <<inp, istep, ions, cell, dis, strucFac, rho, CE, done>>
      /\ pot_order' = pot_order
      /\ ionic_position_updated' \in BOOLEAN /\ cell_parameter_updated' \in BOOLEAN
  BY DEF Stop, Solver, pot_order, IInv, StructureInv
<1>2. StructureInv' /\ HistoryInv' /\ FactorsInv'
  BY <1>1 DEF IInv, StructureInv, HistoryInv, FactorsInv, Drivers
<1>3. GuessOfThisStructure'
  BY <1>1 DEF GuessOfThisStructure, Guessed
<1>4. QED
  BY <1>2, <1>3 DEF IInv

LEMMA StutterKept == IInv /\ UNCHANGED vars => IInv'
BY DEF IInv, StructureInv, HistoryInv, FactorsInv, GuessOfThisStructure, Guessed,
       vars, unitCell, pot_order, Previous

THEOREM InductiveInvariant == Spec => []IInv
<1>1. IInv /\ [Next]_vars => IInv'
  BY BeforeScfKept, AfterScfKept, DriversKept, StopKept, StutterKept DEF Next
<1>2. QED
  BY InitKept, <1>1, PTL DEF Spec

-----------------------------------------------------------------------------

\* Steps, displacements, densities and their number stay what they are, and
\* the denominator of a guess is never zero.
THEOREM TypeCorrect == Spec => []TypeOK
<1>1. IInv => TypeOK
  <2> SUFFICES ASSUME IInv PROVE TypeOK
    OBVIOUS
  <2>1. istep \in 1 .. MaxSteps /\ cell \in 0 .. MaxSteps - 1
    BY MaxStepsAssumption DEF IInv, StructureInv
  <2>2. CE.istep \in 0 .. istep - 1 /\ Len(CE.dis) = 3 /\ Len(CE.delta_rho) = 3
    BY <2>1 DEF IInv, HistoryInv
  <2>3. Len(done) \in 0 .. istep
    BY <2>1 DEF IInv, HistoryInv
  <2>4. rho.den \in Int \ {0}
    BY DEF IInv, StructureInv, Guesses
  <2>5. QED
    BY <2>1, <2>2, <2>3, <2>4 DEF TypeOK, IInv, StructureInv, Vector
<1>2. QED
  BY InductiveInvariant, <1>1, PTL

\* A guess is always made for the structure whose SCF loop begins, from what
\* is left of the densities of the last structures.
THEOREM GuessCorrect == Spec => []GuessOfThisStructure
<1>1. IInv => GuessOfThisStructure
  BY DEF IInv
<1>2. QED
  BY InductiveInvariant, <1>1, PTL

-----------------------------------------------------------------------------
(* The displacements of Charge_Extra are those between the structures of the *)
(* densities it keeps, unless steps of the cell alone keep a density without *)
(* a displacement.                                                           *)

DisplacementsShifted ==
    \A i \in Inputs :
        ~(i.driver = "relax_old" /\ i.cell_moves /\ i.chg_extrap = "second-order")

DisplacementsInv ==
    pot_order = 3 /\ pc # "stopped" =>
        /\ pc \in Drivers => pc = inp.driver /\ ions = done[1].ions
        /\ pc = "before_scf" /\ istep > 1 =>
               ionic_position_updated /\ dis = Displacement(0)
        /\ pc = "scf" =>
               \A k \in 1 .. 3 : k <= Len(done) => CE.dis[k] = Displacement(k - 1)
        /\ pc # "scf" =>
               \A k \in 1 .. 2 : k + 1 <= Len(done) => CE.dis[k] = Displacement(k)

\* A guess is made with the coefficients of its order.
WeightsInv ==
    Guessed =>
        LET e == RhoExtr(CE, pot_order)
            c == Coefficients(CE, e)
        IN  e # 0 /\ rho = Guess(c.den, c.weights, ions, cell)

DInv == DisplacementsInv /\ WeightsInv

LEMMA DInitKept == Init => DInv
<1> SUFFICES ASSUME Init PROVE DInv
  OBVIOUS
<1>1. pc = "before_scf" /\ istep = 1 /\ done = <<>> /\ pc \notin Drivers
  BY DEF Init, Drivers
<1>2. DisplacementsInv
  <2>1. \A k \in 1 .. 2 : ~(k + 1 <= Len(done))
    BY <1>1
  <2>2. QED
    BY <1>1, <2>1 DEF DisplacementsInv
<1>3. WeightsInv
  BY <1>1 DEF WeightsInv, Guessed
<1>4. QED
  BY <1>2, <1>3 DEF DInv

LEMMA DBeforeScfKept == IInv /\ DInv /\ BeforeScf => DInv'
<1> SUFFICES ASSUME IInv, DInv, BeforeScf PROVE DInv'
  OBVIOUS
<1>1. /\ pc = "before_scf" /\ pc' = "scf" /\ pc' \notin Drivers
      /\ UNCHANGED <<inp, istep, ions, cell, dis, ionic_position_updated,
                     cell_parameter_updated, done>>
      /\ pot_order' = pot_order /\ Previous' = Previous
  BY DEF BeforeScf, unitCell, pot_order, Drivers, Previous
<1>2. \A k : Displacement(k)' = Displacement(k)
  BY <1>1 DEF Displacement
<1>3. istep \in Nat /\ 1 <= istep /\ Len(done) = istep - 1
  BY <1>1 DEF IInv, StructureInv, HistoryInv
<1>4. CASE ~ionic_position_updated
  <2>1. rho' = Previous
    BY <1>4 DEF BeforeScf
  <2>2. WeightsInv'
    BY <1>1, <2>1 DEF WeightsInv, Guessed
  <2>3. DisplacementsInv'
    <3> SUFFICES ASSUME pot_order = 3
                 PROVE  \A k \in 1 .. 3 :
                           k <= Len(done') => CE'.dis[k] = Displacement(k - 1)'
      BY <1>1 DEF DisplacementsInv
    <3>1. ~(istep > 1)
      BY <1>1, <1>4 DEF DInv, DisplacementsInv
    <3>2. QED
      BY <3>1, <1>1, <1>3
  <2>4. QED
    BY <2>2, <2>3 DEF DInv
<1>5. CASE ionic_position_updated
  <2> DEFINE ce == UpdateAllDis(CE, pot_order, dis)
             e == RhoExtr(ce, pot_order)
             c == Coefficients(ce, e)
  <2>1. /\ CE' = ce
        /\ rho' = IF e = 0 THEN Previous ELSE Guess(c.den, c.weights, ions, cell)
    BY <1>5 DEF BeforeScf, Extrapolate
  <2>2. WeightsInv'
    BY <1>1, <2>1 DEF WeightsInv, Guessed
  <2>3. DisplacementsInv'
    <3> SUFFICES ASSUME pot_order = 3, NEW k \in 1 .. 3, k <= Len(done)
                 PROVE  CE'.dis[k] = Displacement(k - 1)
      BY <1>1, <1>2 DEF DisplacementsInv
    <3>1. CE'.dis = <<dis, CE.dis[1], CE.dis[2]>>
      BY <2>1 DEF UpdateAllDis, IInv, HistoryInv
    <3>2. CASE k = 1
      <4>1. dis = Displacement(0)
        BY <1>1, <1>3, <3>2 DEF DInv, DisplacementsInv
      <4>2. QED
        BY <3>1, <3>2, <4>1
    <3>3. CASE k # 1
      <4>1. k - 1 \in 1 .. 2 /\ (k - 1) + 1 <= Len(done)
        BY <3>3, <1>3
      <4>2. CE.dis[k - 1] = Displacement(k - 1)
        BY <1>1, <4>1 DEF DInv, DisplacementsInv
      <4>3. CE'.dis[k] = CE.dis[k - 1]
        BY <3>1, <3>3
      <4>4. QED
        BY <4>2, <4>3
    <3>4. QED
      BY <3>2, <3>3
  <2>4. QED
    BY <2>2, <2>3 DEF DInv
<1>6. QED
  BY <1>4, <1>5 DEF IInv, StructureInv

LEMMA DAfterScfKept == IInv /\ DInv /\ AfterScf => DInv'
<1> SUFFICES ASSUME IInv, DInv, AfterScf PROVE DInv'
  OBVIOUS
<1> DEFINE s == [ions |-> ions, cell |-> cell]
<1>1. /\ pc = "scf" /\ pc' = inp.driver /\ done' = <<s>> \o done
      /\ UNCHANGED <<inp, ions>> /\ pot_order' = pot_order /\ CE'.dis = CE.dis
  BY DEF AfterScf, unitCell, pot_order, UpdateDeltaRho, IInv, HistoryInv
<1>2. pc' \in Drivers /\ pc' \notin {"before_scf", "scf"}
  BY <1>1, InputsAssumption DEF IInv, StructureInv, Settings, Drivers
<1>3. done \in Seq(Structure) /\ s \in Structure /\ Len(done) \in Nat
  BY DEF IInv, StructureInv, HistoryInv, Structure
<1>4. /\ Len(done') = Len(done) + 1 /\ done'[1] = s
      /\ \A k \in 1 .. Len(done) : done'[k + 1] = done[k]
  <2> HIDE DEF s
  <2>1. QED
    BY <1>1, <1>3
<1>5. WeightsInv'
  BY <1>2 DEF WeightsInv, Guessed
<1>6. DisplacementsInv'
  <2> SUFFICES ASSUME pot_order = 3, NEW k \in 1 .. 2, k + 1 <= Len(done')
               PROVE  CE'.dis[k] = Displacement(k)'
    BY <1>1, <1>2, <1>4 DEF DisplacementsInv
  <2>1. k \in 1 .. 3 /\ k \in 1 .. Len(done) /\ k # 0
    BY <1>3, <1>4
  <2>2. CE.dis[k] = Displacement(k - 1)
    BY <1>1, <2>1 DEF DInv, DisplacementsInv
  <2>3. done'[k + 1] = done[k]
    BY <1>4, <2>1
  <2>4. done'[k].ions = IF k - 1 = 0 THEN ions ELSE done[k - 1].ions
    <3>1. CASE k = 1
      BY <3>1, <1>4
    <3>2. CASE k = 2
      <4>1. 1 \in 1 .. Len(done)
        BY <3>2, <2>1, <1>3
      <4>2. done'[2] = done[1]
        BY <4>1, <1>4
      <4>3. QED
        BY <3>2, <4>2
    <3>3. QED
      BY <3>1, <3>2
  <2>5. Displacement(k)' = Displacement(k - 1)
    BY <2>1, <2>3, <2>4 DEF Displacement
  <2>6. QED
    BY <1>1, <2>2, <2>5
<1>7. QED
  BY <1>5, <1>6 DEF DInv

\* A step that moves the ions tells the solver by how much.
LEMMA DMoveKept ==
    ASSUME IInv, DInv, pc \in Drivers, Continue, UNCHANGED <<inp, Solver>>,
           NEW move \in Moves, UpdatePosition(move), ionic_position_updated' = TRUE
    PROVE  DInv'
<1>1. /\ pc \notin {"before_scf", "scf", "stopped"} /\ pc' = "before_scf"
      /\ pc' \notin Drivers
      /\ CE' = CE /\ done' = done /\ pot_order' = pot_order
  BY DEF Continue, Solver, Drivers, pot_order
<1>2. WeightsInv'
  BY <1>1 DEF WeightsInv, Guessed
<1>3. DisplacementsInv'
  <2> SUFFICES ASSUME pot_order = 3
               PROVE  /\ dis' = Displacement(0)'
                      /\ \A k \in 1 .. 2 :
                            k + 1 <= Len(done) => CE.dis[k] = Displacement(k)'
    BY <1>1 DEF DisplacementsInv
  <2>1. /\ ions = done[1].ions
        /\ \A k \in 1 .. 2 : k + 1 <= Len(done) => CE.dis[k] = Displacement(k)
    BY <1>1 DEF DInv, DisplacementsInv
  <2>2. \A k \in 1 .. 2 : Displacement(k)' = Displacement(k)
    BY <1>1 DEF Displacement
  <2>3. dis' = Displacement(0)'
    <3>1. ions \in Vector /\ move \in Vector
      BY MovesAssumption DEF IInv, StructureInv, Vector
    <3>2. ions' = Plus(ions, move) /\ dis' = move
      BY DEF UpdatePosition
    <3>3. Displacement(0)' = Plus(ions', Times(-1, ions))
      BY <1>1, <2>1 DEF Displacement
    <3>4. Plus(Plus(ions, move), Times(-1, ions)) = move
      BY <3>1 DEF Plus, Times, Vector
    <3>5. QED
      BY <3>2, <3>3, <3>4
  <2>4. QED
    BY <2>1, <2>2, <2>3
<1>4. QED
  BY <1>2, <1>3 DEF DInv

LEMMA DDriversKept ==
    ASSUME DisplacementsShifted, IInv, DInv,
           RelaxStep \/ RelaxOldIons \/ RelaxOldCell \/ MdStep
    PROVE  DInv'
<1>1. CASE RelaxStep
  <2>1. PICK move \in Moves : UpdatePosition(move)
    BY <1>1 DEF RelaxStep
  <2>2. QED
    BY <1>1, <2>1, DMoveKept DEF RelaxStep, Drivers
<1>2. CASE RelaxOldIons
  <2>1. PICK move \in Moves : UpdatePosition(move)
    BY <1>2 DEF RelaxOldIons
  <2>2. QED
    BY <1>2, <2>1, DMoveKept DEF RelaxOldIons, Drivers
<1>3. CASE RelaxOldCell
  <2>1. /\ pc = "relax_old" /\ pc \in Drivers /\ pc # "stopped" /\ inp.cell_moves
        /\ pc' = "before_scf" /\ pot_order' = pot_order
    BY <1>3 DEF RelaxOldCell, Continue, Drivers, pot_order
  <2>2. pot_order # 3
    <3> SUFFICES ASSUME pot_order = 3 PROVE FALSE
      OBVIOUS
    <3>1. inp \in Inputs /\ inp \in Settings
      BY InputsAssumption DEF IInv, StructureInv
    <3>2. inp.driver = "relax_old"
      BY <2>1 DEF DInv, DisplacementsInv
    <3>3. inp.chg_extrap = "second-order"
      BY <3>1 DEF pot_order, PotOrder, Settings
    <3>4. QED
      BY <2>1, <3>1, <3>2, <3>3 DEF DisplacementsShifted
  <2>3. DisplacementsInv'
    BY <2>1, <2>2 DEF DisplacementsInv
  <2>4. WeightsInv'
    BY <2>1 DEF WeightsInv, Guessed
  <2>5. QED
    BY <2>3, <2>4 DEF DInv
<1>4. CASE MdStep
  <2>1. PICK move \in Moves : UpdatePosition(move)
    BY <1>4 DEF MdStep
  <2>2. QED
    BY <1>4, <2>1, DMoveKept DEF MdStep, Drivers
<1>5. QED
  BY <1>1, <1>2, <1>3, <1>4

LEMMA DStopKept == DInv /\ Stop => DInv'
BY DEF Stop, DInv, DisplacementsInv, WeightsInv, Guessed

LEMMA DStutterKept == DInv /\ UNCHANGED vars => DInv'
BY DEF DInv, DisplacementsInv, WeightsInv, Guessed, Displacement, vars, unitCell,
       pot_order, Previous

LEMMA DisplacementsKept ==
    ASSUME DisplacementsShifted PROVE Spec => [](IInv /\ DInv)
<1>1. IInv /\ DInv /\ [Next]_vars => DInv'
  BY DBeforeScfKept, DAfterScfKept, DDriversKept, DStopKept, DStutterKept DEF Next
<1>2. QED
  BY InductiveInvariant, DInitKept, <1>1, PTL DEF Spec

-----------------------------------------------------------------------------
(* The weights of the second order *)

\* Cramer's rule: alpha and beta solve the equations of the least squares.
LEMMA NormalEquations ==
    ASSUME NEW a11 \in Int, NEW a12 \in Int, NEW a22 \in Int,
           NEW b1 \in Int, NEW b2 \in Int
    PROVE  /\ (b1 * a22 - b2 * a12) * a11 + (a11 * b2 - a12 * b1) * a12
                = (a11 * a22 - a12 * a12) * b1
           /\ (b1 * a22 - b2 * a12) * a12 + (a11 * b2 - a12 * b1) * a22
                = (a11 * a22 - a12 * a12) * b2
OBVIOUS

\* Dependent displacements: what is closest along one is closest along both.
LEMMA Dependent ==
    ASSUME NEW u \in Vector, NEW v \in Vector, NEW w \in Vector,
           Dot(u, u) * Dot(v, v) - Dot(u, v) * Dot(u, v) = 0
    PROVE  Dot(w, u) * Dot(u, v) = Dot(u, u) * Dot(w, v)
<1>1. /\ u[1] \in Int /\ u[2] \in Int /\ v[1] \in Int /\ v[2] \in Int
      /\ w[1] \in Int /\ w[2] \in Int
  BY DEF Vector
<1> DEFINE cross == u[1] * v[2] - u[2] * v[1]
<1>2. cross \in Int
  BY <1>1
<1>3. cross * cross = Dot(u, u) * Dot(v, v) - Dot(u, v) * Dot(u, v)
  BY <1>1 DEF Dot
<1>4. Dot(u, u) * Dot(w, v) - Dot(w, u) * Dot(u, v)
        = cross * (u[1] * w[2] - u[2] * w[1])
  BY <1>1 DEF Dot
<1>5. u[1] * w[2] - u[2] * w[1] \in Int
  BY <1>1
<1> HIDE DEF cross
<1>6. cross = 0
  BY <1>2, <1>3
<1>7. Dot(u, u) * Dot(w, v) - Dot(w, u) * Dot(u, v) = 0
  BY <1>4, <1>5, <1>6
<1>8. /\ Dot(u, u) \in Int /\ Dot(w, v) \in Int /\ Dot(w, u) \in Int
      /\ Dot(u, v) \in Int
  BY DotInt
<1>9. /\ Dot(u, u) * Dot(w, v) \in Int /\ Dot(w, u) * Dot(u, v) \in Int
  BY <1>8
<1>10. QED
  BY <1>7, <1>9

LEMMA DotSelf == ASSUME NEW u \in Vector, Dot(u, u) = 0 PROVE u = Still
<1>1. u = <<u[1], u[2]>> /\ u[1] \in Int /\ u[2] \in Int
  BY DEF Vector
<1>2. u[1] * u[1] + u[2] * u[2] = 0
  BY DEF Dot
<1>3. \A x, y \in Int : x * x + y * y = 0 => x = 0 /\ y = 0
  OBVIOUS
<1>4. u[1] = 0 /\ u[2] = 0
  BY <1>1, <1>2, <1>3
<1>5. QED
  BY <1>1, <1>4 DEF Still

\* den, alpha and beta solve the normal equations, unless the last
\* displacement vanishes; and for equal ones alpha / den is 1 and beta is 0.
LEMMA SecondOrderSolves ==
    ASSUME NEW d \in Vector \X Vector \X Vector
    PROVE  \E den, alpha, beta \in Int :
             /\ SecondOrder(d) =
                  [den |-> den, weights |-> <<den + alpha, beta - alpha, 0 - beta>>]
             /\ d[2] # Still =>
                  /\ alpha * Dot(d[2], d[2]) + beta * Dot(d[2], d[3])
                       = den * Dot(d[1], d[2])
                  /\ alpha * Dot(d[2], d[3]) + beta * Dot(d[3], d[3])
                       = den * Dot(d[1], d[3])
             /\ d[1] = d[2] /\ d[2] = d[3] =>
                  beta = 0 /\ (d[2] # Still => alpha = den)
<1> DEFINE a11 == Dot(d[2], d[2])
           a12 == Dot(d[2], d[3])
           a22 == Dot(d[3], d[3])
           b1 == Dot(d[1], d[2])
           b2 == Dot(d[1], d[3])
           det == a11 * a22 - a12 * a12
           regular == det # 0
           den == CASE regular -> det [] ~regular /\ a11 # 0 -> a11 [] OTHER -> 1
           alpha == CASE regular -> b1 * a22 - b2 * a12
                      [] ~regular /\ a11 # 0 -> b1
                      [] OTHER -> 0
           beta == IF regular THEN a11 * b2 - a12 * b1 ELSE 0
<1>1. a11 \in Int /\ a12 \in Int /\ a22 \in Int /\ b1 \in Int /\ b2 \in Int
  BY DotInt
<1>2. SecondOrder(d) =
        [den |-> den, weights |-> <<den + alpha, beta - alpha, 0 - beta>>]
  BY DEF SecondOrder
<1>3. det = 0 => b1 * a12 = a11 * b2
  BY Dependent
<1>4. a11 = 0 => d[2] = Still
  BY DotSelf
<1>5. d[1] = d[2] /\ d[2] = d[3] => a12 = a11 /\ a22 = a11 /\ b1 = a11 /\ b2 = a11
  OBVIOUS
<1> HIDE DEF a11, a12, a22, b1, b2
<1>6. CASE det # 0
  <2>1. den = det /\ alpha = b1 * a22 - b2 * a12 /\ beta = a11 * b2 - a12 * b1
    BY <1>6
  <2>2. den \in Int /\ alpha \in Int /\ beta \in Int
    BY <1>1, <2>1
  <2>3. alpha * a11 + beta * a12 = den * b1 /\ alpha * a12 + beta * a22 = den * b2
    <3>1. /\ (b1 * a22 - b2 * a12) * a11 + (a11 * b2 - a12 * b1) * a12 = det * b1
          /\ (b1 * a22 - b2 * a12) * a12 + (a11 * b2 - a12 * b1) * a22 = det * b2
      BY <1>1, NormalEquations
    <3> HIDE DEF det, den, alpha, beta
    <3>2. QED
      BY <2>1, <3>1
  <2>4. ~(d[1] = d[2] /\ d[2] = d[3])
    BY <1>1, <1>5, <1>6
  <2> HIDE DEF den, alpha, beta
  <2>5. QED
    BY <1>2, <2>2, <2>3, <2>4 DEF a11, a12, a22, b1, b2
<1>7. CASE det = 0 /\ a11 # 0
  <2>1. den = a11 /\ alpha = b1 /\ beta = 0
    BY <1>7
  <2>2. den \in Int /\ alpha \in Int /\ beta \in Int
    BY <1>1, <2>1
  <2>3. alpha * a11 + beta * a12 = den * b1
    BY <1>1, <2>1
  <2>4. alpha * a12 + beta * a22 = den * b2
    BY <1>1, <2>1, <1>3, <1>7
  <2>5. d[1] = d[2] /\ d[2] = d[3] => beta = 0 /\ alpha = den
    BY <2>1, <1>5
  <2> HIDE DEF den, alpha, beta
  <2>6. QED
    BY <1>2, <2>2, <2>3, <2>4, <2>5 DEF a11, a12, a22, b1, b2
<1>8. CASE det = 0 /\ a11 = 0
  <2>1. den = 1 /\ alpha = 0 /\ beta = 0
    BY <1>8
  <2>2. d[2] = Still
    BY <1>4, <1>8
  <2>3. den \in Int /\ alpha \in Int /\ beta \in Int /\ beta = 0
    BY <2>1
  <2> HIDE DEF den, alpha, beta
  <2>4. QED
    BY <1>2, <2>2, <2>3
<1>9. QED
  BY <1>6, <1>7, <1>8

-----------------------------------------------------------------------------
(* The positions extrapolated *)

Minus(u, v) == Plus(u, Times(-1, v))

LEMMA DotOfSum ==
    ASSUME NEW n \in Int, NEW alpha \in Int, NEW beta \in Int,
           NEW w \in Vector, NEW u \in Vector, NEW v \in Vector, NEW d \in Vector
    PROVE  Dot(Plus(Times(n, w), Plus(Times(alpha, u), Times(beta, v))), d)
             = n * Dot(w, d) + (alpha * Dot(u, d) + beta * Dot(v, d))
BY DEF Dot, Plus, Times, Vector

LEMMA MinusVector ==
    ASSUME NEW u \in Vector, NEW v \in Vector PROVE Minus(u, v) \in Vector
BY DEF Minus, Plus, Times, Vector

LEMMA DotCommutes ==
    ASSUME NEW u \in Vector, NEW v \in Vector PROVE Dot(u, v) = Dot(v, u)
BY DEF Dot, Vector

LEMMA DoneIons ==
    ASSUME IInv, NEW k \in 1 .. Len(done) PROVE done[k].ions \in Vector
<1>1. done \in Seq(Structure)
  BY DEF IInv, HistoryInv
<1>2. done[k] \in Structure
  BY <1>1
<1>3. QED
  BY <1>2 DEF Structure

\* What a second-order guess is made of.
LEMMA SecondOrderGuess ==
    ASSUME IInv, DInv, Guessed, RhoExtr(CE, pot_order) = 3
    PROVE  /\ pot_order = 3 /\ Len(done) \in Nat /\ Len(done) >= 3
           /\ \A k \in 1 .. 3 : done[k].ions \in Vector
           /\ CE.dis \in Vector \X Vector \X Vector
           /\ CE.dis = <<Displacement(0), Displacement(1), Displacement(2)>>
           /\ rho.den = SecondOrder(CE.dis).den
           /\ rho.weights = SecondOrder(CE.dis).weights
<1>1. pc = "scf" /\ inp \in Inputs
  BY DEF Guessed, IInv, StructureInv
<1>2. CE.istep \in Nat /\ pot_order \in 0 .. 3
  BY <1>1, OrderRange DEF IInv, HistoryInv
<1>3. pot_order = 3 /\ CE.istep >= 3
  BY <1>2 DEF RhoExtr
<1>4. istep \in Nat /\ CE.istep <= istep - 1 /\ Len(done) = istep - 1
  BY <1>1 DEF IInv, StructureInv, HistoryInv
<1>5. Len(done) \in Nat /\ Len(done) >= 3
  BY <1>2, <1>3, <1>4
<1>6. \A k \in 1 .. 3 : done[k].ions \in Vector
  BY <1>5, DoneIons
<1>7. CE.dis \in Vector \X Vector \X Vector
  BY DEF IInv, HistoryInv
<1>8. \A k \in 1 .. 3 : CE.dis[k] = Displacement(k - 1)
  BY <1>1, <1>3, <1>5 DEF DInv, DisplacementsInv
<1>9. CE.dis = <<Displacement(0), Displacement(1), Displacement(2)>>
  <2>1. /\ CE.dis[1] = Displacement(0) /\ CE.dis[2] = Displacement(1)
        /\ CE.dis[3] = Displacement(2)
    <3>1. CE.dis[1] = Displacement(1 - 1) /\ CE.dis[2] = Displacement(2 - 1)
          /\ CE.dis[3] = Displacement(3 - 1)
      BY <1>8
    <3>2. QED
      BY <3>1
  <2>2. CE.dis = <<CE.dis[1], CE.dis[2], CE.dis[3]>>
    BY <1>7
  <2>3. QED
    BY <2>1, <2>2
<1>10. rho = Guess(Coefficients(CE, 3).den, Coefficients(CE, 3).weights, ions, cell)
  BY DEF DInv, WeightsInv
<1>11. Coefficients(CE, 3) = SecondOrder(CE.dis)
  BY DEF Coefficients
<1>12. QED
  BY <1>3, <1>5, <1>6, <1>7, <1>9, <1>10, <1>11 DEF Guess

\* Its weights, and how far from the new positions it leads: the extrapolated
\* positions are the last ones, moved by alpha and beta times the last
\* displacements.
LEMMA SecondOrderError ==
    ASSUME IInv, DInv, Guessed, RhoExtr(CE, pot_order) = 3,
           NEW den \in Int, NEW alpha \in Int, NEW beta \in Int,
           SecondOrder(CE.dis) =
             [den |-> den, weights |-> <<den + alpha, beta - alpha, 0 - beta>>]
    PROVE  /\ Displacement(0) \in Vector /\ Displacement(1) \in Vector
           /\ Displacement(2) \in Vector
           /\ rho.den = den
           /\ rho.weights[1] + rho.weights[2] + rho.weights[3] = den
           /\ Error = Plus(Times(0 - den, Displacement(0)),
                           Plus(Times(alpha, Displacement(1)),
                                Times(beta, Displacement(2))))
<1> DEFINE n == 0 - den
<1>1. /\ ions \in Vector /\ done[1].ions \in Vector /\ done[2].ions \in Vector
      /\ done[3].ions \in Vector
  BY SecondOrderGuess DEF IInv, StructureInv
<1>2. /\ Displacement(0) = Minus(ions, done[1].ions)
      /\ Displacement(1) = Minus(done[1].ions, done[2].ions)
      /\ Displacement(2) = Minus(done[2].ions, done[3].ions)
  BY DEF Displacement, Minus
<1>3. /\ rho.den = den /\ rho.weights[1] = den + alpha
      /\ rho.weights[2] = beta - alpha /\ rho.weights[3] = 0 - beta
  BY SecondOrderGuess
<1>4. rho.weights[1] + rho.weights[2] + rho.weights[3] = den
  BY <1>3
<1>5. /\ n \in Int /\ n + (rho.weights[1] + rho.weights[2] + rho.weights[3]) = 0
      /\ rho.weights[1] \in Int /\ rho.weights[2] \in Int /\ rho.weights[3] \in Int
      /\ n + rho.weights[1] = alpha /\ 0 - rho.weights[3] = beta
  BY <1>3
<1>6. /\ Displacement(0) \in Vector /\ Displacement(1) \in Vector
      /\ Displacement(2) \in Vector
  BY <1>1, <1>2, MinusVector
<1>7. Error = Plus(Plus(Times(rho.weights[1], done[1].ions),
                        Plus(Times(rho.weights[2], done[2].ions),
                             Times(rho.weights[3], done[3].ions))),
                   Times(n, ions))
  BY <1>3 DEF Error, Extrapolated
<1>8. Error = Plus(Times(n, Displacement(0)),
                   Plus(Times(n + rho.weights[1], Displacement(1)),
                        Times(0 - rho.weights[3], Displacement(2))))
  <2> DEFINE p == ions
             p1 == done[1].ions
             p2 == done[2].ions
             p3 == done[3].ions
             w1 == rho.weights[1]
             w2 == rho.weights[2]
             w3 == rho.weights[3]
  <2>1. /\ p \in Vector /\ p1 \in Vector /\ p2 \in Vector /\ p3 \in Vector
        /\ n \in Int /\ w1 \in Int /\ w2 \in Int /\ w3 \in Int /\ n + (w1 + w2 + w3) = 0
    BY <1>1, <1>5
  <2> HIDE DEF n, p, p1, p2, p3, w1, w2, w3
  <2>2. Plus(Plus(Times(w1, p1), Plus(Times(w2, p2), Times(w3, p3))), Times(n, p))
          = Plus(Times(n, Minus(p, p1)),
                 Plus(Times(n + w1, Minus(p1, p2)), Times(0 - w3, Minus(p2, p3))))
    <3>1. \A i \in {1, 2} :
             p[i] \in Int /\ p1[i] \in Int /\ p2[i] \in Int /\ p3[i] \in Int
      BY <2>1 DEF Vector
    <3>2. w2 = (0 - w3) - (n + w1)
      BY <2>1
    <3>3. \A i \in {1, 2} :
             (w1 * p1[i] + (w2 * p2[i] + w3 * p3[i])) + n * p[i]
               = n * (p[i] + (-1) * p1[i])
                   + ((n + w1) * (p1[i] + (-1) * p2[i]) + (0 - w3) * (p2[i] + (-1) * p3[i]))
      <4> SUFFICES ASSUME NEW i \in {1, 2}
                   PROVE  (w1 * p1[i] + (((0 - w3) - (n + w1)) * p2[i] + w3 * p3[i]))
                            + n * p[i]
                            = n * (p[i] + (-1) * p1[i])
                                + ((n + w1) * (p1[i] + (-1) * p2[i])
                                   + (0 - w3) * (p2[i] + (-1) * p3[i]))
        BY <3>2
      <4> DEFINE x == p[i]
                 x1 == p1[i]
                 x2 == p2[i]
                 x3 == p3[i]
      <4>1. x \in Int /\ x1 \in Int /\ x2 \in Int /\ x3 \in Int
        BY <3>1
      <4> HIDE DEF x, x1, x2, x3
      <4>2. (w1 * x1 + (((0 - w3) - (n + w1)) * x2 + w3 * x3)) + n * x
              = n * (x + (-1) * x1)
                  + ((n + w1) * (x1 + (-1) * x2) + (0 - w3) * (x2 + (-1) * x3))
        BY <2>1, <4>1
      <4>3. QED
        BY <4>2 DEF x, x1, x2, x3
    <3>4. QED
      BY <3>3 DEF Minus, Plus, Times
  <2>3. QED
    BY <1>2, <1>7, <2>2 DEF p, p1, p2, p3, w1, w2, w3
<1>9. QED
  BY <1>3, <1>4, <1>5, <1>6, <1>8

LEMMA Closest == IInv /\ DInv => ExtrapolatedPositionsClosest
<1> SUFFICES ASSUME IInv, DInv, Guessed, RhoExtr(CE, pot_order) = 3,
                    Displacement(1) # Still
             PROVE  /\ rho.weights[1] + rho.weights[2] + rho.weights[3] = rho.den
                    /\ Dot(Error, Displacement(1)) = 0
                    /\ Dot(Error, Displacement(2)) = 0
  BY DEF ExtrapolatedPositionsClosest
<1>1. /\ CE.dis \in Vector \X Vector \X Vector
      /\ CE.dis = <<Displacement(0), Displacement(1), Displacement(2)>>
  BY SecondOrderGuess
<1>2. /\ CE.dis[1] = Displacement(0) /\ CE.dis[2] = Displacement(1)
      /\ CE.dis[3] = Displacement(2)
  BY <1>1
<1>3. PICK den, alpha, beta \in Int :
        /\ SecondOrder(CE.dis) =
             [den |-> den, weights |-> <<den + alpha, beta - alpha, 0 - beta>>]
        /\ alpha * Dot(Displacement(1), Displacement(1))
             + beta * Dot(Displacement(1), Displacement(2))
             = den * Dot(Displacement(0), Displacement(1))
        /\ alpha * Dot(Displacement(1), Displacement(2))
             + beta * Dot(Displacement(2), Displacement(2))
             = den * Dot(Displacement(0), Displacement(2))
  <2> DEFINE d == CE.dis
  <2>1. d \in Vector \X Vector \X Vector /\ d[2] # Still
    BY <1>1, <1>2
  <2> HIDE DEF d
  <2>2. \E den, alpha, beta \in Int :
          /\ SecondOrder(d) =
               [den |-> den, weights |-> <<den + alpha, beta - alpha, 0 - beta>>]
          /\ alpha * Dot(d[2], d[2]) + beta * Dot(d[2], d[3]) = den * Dot(d[1], d[2])
          /\ alpha * Dot(d[2], d[3]) + beta * Dot(d[3], d[3]) = den * Dot(d[1], d[3])
    BY <2>1, SecondOrderSolves
  <2>3. d[1] = Displacement(0) /\ d[2] = Displacement(1) /\ d[3] = Displacement(2)
    BY <1>2 DEF d
  <2>4. d = CE.dis
    BY DEF d
  <2>5. QED
    BY <2>2, <2>3, <2>4, Zenon
<1>4. /\ Displacement(0) \in Vector /\ Displacement(1) \in Vector
      /\ Displacement(2) \in Vector
      /\ rho.den = den
      /\ rho.weights[1] + rho.weights[2] + rho.weights[3] = den
      /\ Error = Plus(Times(0 - den, Displacement(0)),
                      Plus(Times(alpha, Displacement(1)), Times(beta, Displacement(2))))
  BY <1>3, SecondOrderError
<1>5. \A d \in Vector :
         Dot(Error, d) = (0 - den) * Dot(Displacement(0), d)
                         + (alpha * Dot(Displacement(1), d) + beta * Dot(Displacement(2), d))
  <2> DEFINE n == 0 - den
  <2>1. n \in Int
    OBVIOUS
  <2> HIDE DEF n
  <2>2. \A d \in Vector :
           Dot(Plus(Times(n, Displacement(0)),
                    Plus(Times(alpha, Displacement(1)), Times(beta, Displacement(2)))), d)
             = n * Dot(Displacement(0), d)
               + (alpha * Dot(Displacement(1), d) + beta * Dot(Displacement(2), d))
    BY <1>4, <2>1, DotOfSum
  <2>3. QED
    BY <1>4, <2>2 DEF n
<1>6. /\ Dot(Error, Displacement(1)) =
           (0 - den) * Dot(Displacement(0), Displacement(1))
           + (alpha * Dot(Displacement(1), Displacement(1))
              + beta * Dot(Displacement(2), Displacement(1)))
      /\ Dot(Error, Displacement(2)) =
           (0 - den) * Dot(Displacement(0), Displacement(2))
           + (alpha * Dot(Displacement(1), Displacement(2))
              + beta * Dot(Displacement(2), Displacement(2)))
  BY <1>4, <1>5
<1>7. Dot(Displacement(2), Displacement(1)) = Dot(Displacement(1), Displacement(2))
  BY <1>4, DotCommutes
<1>8. /\ Dot(Displacement(0), Displacement(1)) \in Int
      /\ Dot(Displacement(0), Displacement(2)) \in Int
  BY <1>4, DotInt
<1>9. \A x, y \in Int : (0 - x) * y + x * y = 0
  OBVIOUS
<1>10. QED
  BY <1>3, <1>4, <1>6, <1>7, <1>8, <1>9

\* The weights of a first-order guess are 2 and -1, those of a second-order
\* one after equal displacements lead as far.
LEMMA FollowsUniform == IInv /\ DInv => UniformMotionFollowed
<1> SUFFICES ASSUME IInv, DInv, Guessed, RhoExtr(CE, pot_order) >= 2,
                    \A k \in 1 .. RhoExtr(CE, pot_order) - 1 :
                        Displacement(k) = Displacement(0)
             PROVE  (IF RhoExtr(CE, pot_order) = 2
                     THEN Plus(Times(rho.weights[1], done[1].ions),
                               Times(rho.weights[2], done[2].ions))
                     ELSE Extrapolated) = Times(rho.den, ions)
  BY DEF UniformMotionFollowed
<1>1. pc = "scf" /\ inp \in Inputs /\ ions \in Vector
  BY DEF Guessed, IInv, StructureInv
<1>2. CE.istep \in Nat /\ pot_order \in 0 .. 3
  BY <1>1, OrderRange DEF IInv, HistoryInv
<1>3. RhoExtr(CE, pot_order) \in {2, 3} /\ CE.istep >= RhoExtr(CE, pot_order)
  BY <1>2 DEF RhoExtr
<1>4. CASE RhoExtr(CE, pot_order) = 2
  <2>1. istep \in Nat /\ CE.istep <= istep - 1 /\ Len(done) = istep - 1
    BY <1>1 DEF IInv, StructureInv, HistoryInv
  <2>2. 1 \in 1 .. Len(done) /\ 2 \in 1 .. Len(done)
    BY <1>2, <1>3, <1>4, <2>1
  <2>3. done[1].ions \in Vector /\ done[2].ions \in Vector
    BY <2>2, DoneIons
  <2>4. rho = Guess(1, <<2, -1, 0>>, ions, cell)
    BY <1>4 DEF DInv, WeightsInv, Coefficients
  <2>5. rho.den = 1 /\ rho.weights[1] = 2 /\ rho.weights[2] = -1
    BY <2>4 DEF Guess
  <2>6. Plus(done[1].ions, Times(-1, done[2].ions)) = Plus(ions, Times(-1, done[1].ions))
    BY <1>4 DEF Displacement
  <2>7. \A u, v, w \in Vector :
           Plus(v, Times(-1, w)) = Plus(u, Times(-1, v)) =>
              Plus(Times(2, v), Times(-1, w)) = Times(1, u)
    BY DEF Plus, Times, Vector
  <2>8. QED
    BY <1>1, <1>4, <2>3, <2>5, <2>6, <2>7
<1>5. CASE RhoExtr(CE, pot_order) = 3
  <2>1. Displacement(1) = Displacement(0) /\ Displacement(2) = Displacement(0)
    BY <1>5
  <2>2. /\ CE.dis \in Vector \X Vector \X Vector
        /\ CE.dis = <<Displacement(0), Displacement(1), Displacement(2)>>
    BY <1>5, SecondOrderGuess
  <2>3. CE.dis[1] = CE.dis[2] /\ CE.dis[2] = CE.dis[3] /\ CE.dis[2] = Displacement(0)
    BY <2>1, <2>2
  <2>4. PICK den, alpha, beta \in Int :
          /\ SecondOrder(CE.dis) =
               [den |-> den, weights |-> <<den + alpha, beta - alpha, 0 - beta>>]
          /\ beta = 0 /\ (Displacement(0) # Still => alpha = den)
    BY <2>2, <2>3, SecondOrderSolves
  <2>5. /\ Displacement(0) \in Vector /\ rho.den = den
        /\ Error = Plus(Times(0 - den, Displacement(0)),
                        Plus(Times(alpha, Displacement(0)), Times(0, Displacement(0))))
    BY <1>5, <2>1, <2>4, SecondOrderError
  <2>6. \A u \in Vector :
           /\ Plus(Times(0 - den, u), Plus(Times(den, u), Times(0, u))) = Still
           /\ Plus(Times(0 - den, Still), Plus(Times(alpha, Still), Times(0, Still)))
                = Still
    BY DEF Plus, Times, Still, Vector
  <2>7. Error = Still
    BY <2>4, <2>5, <2>6
  <2>8. Extrapolated \in Vector
    <3>1. /\ done[1].ions \in Vector /\ done[2].ions \in Vector /\ done[3].ions \in Vector
      BY <1>5, SecondOrderGuess
    <3>2. rho.weights[1] \in Int /\ rho.weights[2] \in Int /\ rho.weights[3] \in Int
      BY <1>5, <2>4, SecondOrderGuess
    <3>3. QED
      BY <3>1, <3>2 DEF Extrapolated, Plus, Times, Vector
  <2>9. \A x, u \in Vector : Plus(x, Times(0 - den, u)) = Still => x = Times(den, u)
    BY DEF Plus, Times, Still, Vector
  <2>10. Extrapolated = Times(rho.den, ions)
    BY <1>1, <2>5, <2>7, <2>8, <2>9 DEF Error
  <2>11. QED
    BY <1>5, <2>10
<1>6. QED
  BY <1>3, <1>4, <1>5

\* The positions extrapolated with alpha and beta of find_alpha_and_beta are
\* the closest ones to those of the new structure, in all settings in which
\* each density kept comes with a displacement.
THEOREM ClosestPositions ==
    ASSUME DisplacementsShifted PROVE Spec => []ExtrapolatedPositionsClosest
<1>1. Spec => [](IInv /\ DInv)
  BY DisplacementsKept
<1>2. QED
  BY <1>1, Closest, PTL

\* A uniform motion is followed by the first- and the second-order guess.
THEOREM UniformMotionIsFollowed ==
    ASSUME DisplacementsShifted PROVE Spec => []UniformMotionFollowed
<1>1. Spec => [](IInv /\ DInv)
  BY DisplacementsKept
<1>2. QED
  BY <1>1, FollowsUniform, PTL
=============================================================================
