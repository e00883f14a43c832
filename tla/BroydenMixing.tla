---------------------------- MODULE BroydenMixing ----------------------------
(***************************************************************************)
(* Base_Mixing::Broyden_Mixing as Charge_Mixing uses it: the charge        *)
(* density binds the mixing object and computes the coefficients, the      *)
(* kinetic energy density is pushed after it and mixed with the same       *)
(* coefficients.  Numbers are abstracted to where they come from:          *)
(*                                                                         *)
(*   - a vector, and the residual F of the same call, to the number n of   *)
(*     the call;                                                           *)
(*   - a slot of dF to <<a, b>>, which is F_a - F_b, or F_a when b = 0;     *)
(*   - an inner product to the pair of its arguments;                      *)
(*   - a coefficient to [one, add, sub], which is one + gamma(add) -       *)
(*     gamma(sub), gamma(d) being the unknown of the difference d.         *)
(***************************************************************************)
EXTENDS MixingData

CONSTANTS mixing_ndim,  \* INPUT parameter mixing_ndim
          MaxVector     \* bound: number of mix_rho calls in a behaviour

ASSUME MixingNdimAssumption == mixing_ndim \in Nat \ {0}
ASSUME MaxVectorAssumption == MaxVector \in Nat

VARIABLES
    n,            \* number of mix_rho calls so far
    rho_mdata,    \* Mixing_Data of the charge density
    tau_mdata,    \* Mixing_Data of the kinetic energy density
    F,            \* newest residual
    dF,           \* ring of residual differences, mixing_ndim slots
    start_dF,     \* slot of the newest difference
    ndim_cal_dF,  \* number of differences in the ring
    beta,         \* cached inner products of the slots of dF
    coef,         \* coefficient of each slot of a Mixing_Data
    dsysv,        \* the last linear system handed to DSYSV
    rho_out,      \* the last mixed density, a set of <<vector, coefficient>>
    tau_out       \* the last mixed kinetic energy density

vars == <<n, rho_mdata, tau_mdata, F, dF, start_dF, ndim_cal_dF, beta, coef,
          dsysv, rho_out, tau_out>>

Slots   == 0 .. mixing_ndim       \* of a Mixing_Data, data_ndim of them
dFSlots == 0 .. mixing_ndim - 1

Unwritten    == <<0, 0>>    \* a slot of dF never written
Garbage      == <<-1, -1>>  \* F subtracted from what was no single residual
NoDifference == <<0, 0>>
Zero == [one |-> 0, add |-> NoDifference, sub |-> NoDifference]
One  == [one |-> 1, add |-> NoDifference, sub |-> NoDifference]
NoSystem == [a |-> <<>>, c |-> <<>>]

\* Broyden_Mixing::dFindex_move for a ring whose newest slot is s.
dFindexMove(s, i) == (s + i + mixing_ndim) % mixing_ndim

-----------------------------------------------------------------------------
\* What a new Broyden_Mixing object holds.
NewMixing ==
    /\ F' = NoVector
    /\ dF' = [s \in dFSlots |-> Unwritten]
    /\ start_dF' = -1
    /\ ndim_cal_dF' = 0
    /\ beta' = [p \in dFSlots \X dFSlots |-> <<Unwritten, Unwritten>>]
    /\ coef' = [s \in Slots |-> Zero]

Init ==
    /\ n = 0
    /\ rho_mdata = Resize(mixing_ndim + 1)
    /\ tau_mdata = Resize(mixing_ndim + 1)
    /\ F = NoVector
    /\ dF = [s \in dFSlots |-> Unwritten]
    /\ start_dF = -1
    /\ ndim_cal_dF = 0
    /\ beta = [p \in dFSlots \X dFSlots |-> <<Unwritten, Unwritten>>]
    /\ coef = [s \in Slots |-> Zero]
    /\ dsysv = NoSystem
    /\ rho_out = {}
    /\ tau_out = {}

\* Mutant: the rings are as long as that of the differences.
InitMixingShort ==
    /\ NewMixing
    /\ rho_mdata' = Resize(mixing_ndim)
    /\ tau_mdata' = Resize(mixing_ndim)
    /\ UNCHANGED <<n, dsysv, rho_out, tau_out>>

\* Charge_Mixing::init_mixing, at the first iteration of an SCF loop and at
\* a mixing restart: a new mixing object and new rings.
InitMixing ==
    /\ NewMixing
    /\ rho_mdata' = Resize(mixing_ndim + 1)
    /\ tau_mdata' = Resize(mixing_ndim + 1)
    /\ UNCHANGED <<n, dsysv, rho_out, tau_out>>

\* Charge_Mixing::mix_reset: Broyden_Mixing::reset and Mixing_Data::reset
\* set the counters back and keep the memory as it is.
MixReset ==
    /\ start_dF' = -1
    /\ ndim_cal_dF' = 0
    /\ rho_mdata' = ResetData(rho_mdata)
    /\ tau_mdata' = ResetData(tau_mdata)
    /\ UNCHANGED <<n, F, dF, beta, coef, dsysv, rho_out, tau_out>>

-----------------------------------------------------------------------------
\* tem_push_data with need_calcoef: the ring of differences after residual k.
\* In the ring's newest slot cal_coef left the previous residual.
Minus(d, k) == IF d[1] > 0 /\ d[2] = 0 THEN <<d[1], k>> ELSE Garbage

FirstPush == rho_mdata.ndim_use = 0

PushedStart == IF FirstPush THEN start_dF ELSE (start_dF + 1) % mixing_ndim

PushedCount ==
    IF FirstPush THEN ndim_cal_dF
    ELSE IF ndim_cal_dF < mixing_ndim THEN ndim_cal_dF + 1 ELSE mixing_ndim

PushedDF ==
    IF FirstPush THEN [s \in dFSlots |-> Unwritten]
    ELSE [dF EXCEPT ![PushedStart] = Minus(@, n + 1)]

\* tem_cal_coef: products with the newest difference are computed, the
\* others are taken from the cache.
\* Mutant: only the diagonal entry of the newest difference is recomputed.
InnerProductStale(d, s, p) ==
    IF p[1] # s \/ p[2] # s THEN beta[p] ELSE <<d[p[1]], d[p[2]]>>

InnerProduct(d, s, p) ==
    IF p[1] # s /\ p[2] # s THEN beta[p] ELSE <<d[p[1]], d[p[2]]>>

CalBeta(d, s, c) ==
    [p \in dFSlots \X dFSlots |->
        IF p[1] <= p[2] /\ p[2] < c THEN InnerProduct(d, s, p) ELSE beta[p]]

System(d, s, c) ==
    [a |-> [p \in {q \in dFSlots \X dFSlots : q[1] <= q[2] /\ q[2] < c} |->
                InnerProduct(d, s, p)],
     c |-> [i \in 0 .. c - 1 |-> <<d[i], n + 1>>]]

\* gamma of the i-th difference back from the newest one.
Gamma(d, s, i) == d[dFindexMove(s, -i)]

\* coef of a slot, by the age i of the vector that the slot holds.
\* Mutant: the two differences of a coefficient are taken one step too old.
CoefOfAgeShifted(d, s, c, i) ==
    [one |-> IF i = 0 THEN 1 ELSE 0,
     add |-> IF i + 1 < c THEN Gamma(d, s, i + 1) ELSE NoDifference,
     sub |-> IF i > 0 THEN Gamma(d, s, i) ELSE NoDifference]

CoefOfAge(d, s, c, i) ==
    [one |-> IF i = 0 THEN 1 ELSE 0,
     add |-> IF i < c THEN Gamma(d, s, i) ELSE NoDifference,
     sub |-> IF i > 0 THEN Gamma(d, s, i - 1) ELSE NoDifference]

CalCoef(mdata, d, s, c) ==
    IF c = 0 THEN [coef EXCEPT ![0] = One]
    ELSE [slot \in Slots |-> IF Age(mdata, slot) <= c
                             THEN CoefOfAge(d, s, c, Age(mdata, slot))
                             ELSE coef[slot]]

\* Mixing::mix_data.
MixData(mdata, cf) ==
    IF mdata.ndim_use = 1 THEN {<<mdata.data[0], One>>}
    ELSE {<<mdata.data[s], cf[s]>> : s \in UsedSlots(mdata)}

\* Charge_Mixing::mix_rho: push_data, cal_coef and mix_data for the charge
\* density, then push_data and mix_data for the kinetic energy density.
MixRho ==
    /\ n < MaxVector
    /\ n' = n + 1
    /\ rho_mdata' = Push(rho_mdata, n + 1)
    /\ tau_mdata' = Push(tau_mdata, n + 1)
    /\ F' = n + 1
    /\ start_dF' = PushedStart
    /\ ndim_cal_dF' = PushedCount
    /\ beta' = CalBeta(PushedDF, PushedStart, PushedCount)
    /\ dsysv' = IF PushedCount > 0
                THEN System(PushedDF, PushedStart, PushedCount) ELSE dsysv
    /\ coef' = CalCoef(rho_mdata', PushedDF, PushedStart, PushedCount)
    /\ dF' = [PushedDF EXCEPT ![dFindexMove(PushedStart, 1)] = <<n + 1, 0>>]
    /\ rho_out' = MixData(rho_mdata', coef')
    /\ tau_out' = MixData(tau_mdata', coef')

Next == InitMixing \/ MixReset \/ MixRho

Spec == Init /\ [][Next]_vars

-----------------------------------------------------------------------------
Label == (-1 .. MaxVector) \X (-1 .. MaxVector)
Coefficients == [one : {0, 1}, add : Label, sub : Label]
MixingDataType ==
    [ndim_tot : {mixing_ndim + 1}, start : -1 .. mixing_ndim,
     ndim_use : 0 .. mixing_ndim + 1, ndim_history : 0 .. MaxVector,
     data : [Slots -> 0 .. MaxVector]]

\* The type invariant of the mixing object and of the rings it works on.
TypeOK ==
    /\ n \in 0 .. MaxVector
    /\ rho_mdata \in MixingDataType
    /\ tau_mdata \in MixingDataType
    /\ F \in 0 .. MaxVector
    /\ dF \in [dFSlots -> Label]
    /\ start_dF \in -1 .. mixing_ndim - 1
    /\ ndim_cal_dF \in 0 .. mixing_ndim
    /\ beta \in [dFSlots \X dFSlots -> Label \X Label]
    /\ coef \in [Slots -> Coefficients]

\* The matrix that DSYSV solves has no stale entry: every entry is the inner
\* product of the two differences whose products with the newest residual
\* stand in the right-hand side, and these are the differences of the last
\* ndim_cal_dF pairs of consecutive residuals, whichever slots hold them and
\* however many restarts came before.
DsysvFresh ==
    ndim_cal_dF > 0 =>
        /\ \A p \in DOMAIN dsysv.a :
               dsysv.a[p] = <<dsysv.c[p[1]][1], dsysv.c[p[2]][1]>>
        /\ {dsysv.c[i] : i \in 0 .. ndim_cal_dF - 1}
             = {<< <<k - 1, k>>, n>> : k \in n - ndim_cal_dF + 1 .. n}

\* Quantities mixed with the coefficients of the charge density (tau here)
\* are combined over the same steps with the same weights as the density.
TauFollowsRho == tau_out = rho_out

\* Broyden_Mixing with its two rings of different lengths, its cache and its
\* restarts computes the combination that AndersonMixing states.
Anderson == INSTANCE AndersonMixing WITH
    newest <- n,
    first  <- n + 1 - rho_mdata.ndim_history,
    out    <- rho_out
ImplementsAnderson == Anderson!Spec
=============================================================================
