----------------------------- MODULE ChargeExtra -----------------------------
(***************************************************************************)
(* Charge_Extra, the guess of the density of a new structure from those of *)
(* the structures before it.  A structure is the direct coordinates of its *)
(* ions, a vector of integers, and its cell; a density minus that of atoms *)
(* is the structure it was computed for and the positions of the atoms.    *)
(***************************************************************************)
EXTENDS Integers, Sequences

PotOrder(chg_extrap) ==
    CASE chg_extrap = "none"         -> 0
      [] chg_extrap = "atomic"       -> 1
      [] chg_extrap = "first-order"  -> 2
      [] chg_extrap = "second-order" -> 3

Still == <<0, 0>>

Plus(u, v) == <<u[1] + v[1], u[2] + v[2]>>
Times(k, v) == <<k * v[1], k * v[2]>>
Dot(u, v) == u[1] * v[1] + u[2] * v[2]

\* What delta_rho1 .. delta_rho3 hold before there is a density.
NoDensity == [ions |-> Still, atoms |-> Still, cell |-> -1]

Init_CE ==
    [istep     |-> 0,
     dis       |-> <<Still, Still, Still>>,   \* dis_now, dis_old1, dis_old2
     delta_rho |-> <<NoDensity, NoDensity, NoDensity>>]

\* A guess: den * rho = the sum of the weights times delta_rho, in the volume
\* of cell, plus the density of atoms at the positions atoms.
Guess(den, weights, atoms, cell) ==
    [den |-> den, weights |-> weights, atoms |-> atoms, cell |-> cell]

\* Mutant: the second weight has the wrong sign.
SecondOrderSwapped(dis) ==
    LET a11 == Dot(dis[2], dis[2])
        a12 == Dot(dis[2], dis[3])
        a22 == Dot(dis[3], dis[3])
        b1  == Dot(dis[1], dis[2])
        b2  == Dot(dis[1], dis[3])
        det == a11 * a22 - a12 * a12
        regular == det # 0
        den   == CASE regular -> det [] ~regular /\ a11 # 0 -> a11 [] OTHER -> 1
        alpha == CASE regular -> b1 * a22 - b2 * a12
                   [] ~regular /\ a11 # 0 -> b1
                   [] OTHER -> 0
        beta  == IF regular THEN a11 * b2 - a12 * b1 ELSE 0
    IN  [den |-> den, weights |-> <<den + alpha, alpha - beta, 0 - beta>>]

\* find_alpha_and_beta and the weights made of them.  alpha and beta are
\* numerators: the denominator is den.
SecondOrder(dis) ==
    LET a11 == Dot(dis[2], dis[2])
        a12 == Dot(dis[2], dis[3])
        a22 == Dot(dis[3], dis[3])
        b1  == Dot(dis[1], dis[2])
        b2  == Dot(dis[1], dis[3])
        det == a11 * a22 - a12 * a12
        regular == det # 0
        den   == CASE regular -> det [] ~regular /\ a11 # 0 -> a11 [] OTHER -> 1
        alpha == CASE regular -> b1 * a22 - b2 * a12
                   [] ~regular /\ a11 # 0 -> b1
                   [] OTHER -> 0
        beta  == IF regular THEN a11 * b2 - a12 * b1 ELSE 0
    IN  [den |-> den, weights |-> <<den + alpha, beta - alpha, 0 - beta>>]

RhoExtr(ce, pot_order) == IF ce.istep < pot_order THEN ce.istep ELSE pot_order

\* The coefficients of extrapolate_charge.
Coefficients(ce, rho_extr) ==
    CASE rho_extr = 1 -> [den |-> 1, weights |-> <<1, 0, 0>>]
      [] rho_extr = 2 -> [den |-> 1, weights |-> <<2, -1, 0>>]
      [] rho_extr = 3 -> SecondOrder(ce.dis)

\* Mutant: the oldest displacement is not shifted.
UpdateAllDisLate(ce, pot_order, dis) ==
    [ce EXCEPT !.istep = @ + 1,
               !.dis   = IF pot_order = 3 THEN <<dis, @[1], @[3]>> ELSE @]

UpdateAllDis(ce, pot_order, dis) ==
    [ce EXCEPT !.istep = @ + 1,
               !.dis   = IF pot_order = 3 THEN <<dis, @[1], @[2]>> ELSE @]

\* The density minus that of the atoms, times the volume.
UpdateDeltaRho(ce, pot_order, density) ==
    IF pot_order = 0 THEN ce
    ELSE [ce EXCEPT !.delta_rho = <<density, @[1], @[2]>>]
=============================================================================
