----------------------------- MODULE DavSubspace -----------------------------
(***************************************************************************)
(* Diago_DavSubspace, the iterative diagonalization of one k point in a    *)
(* subspace that grows by a correction for every band not converged.       *)
(*                                                                         *)
(* A vector is named: <<d, m>> is the approximation of band m found in the *)
(* d-th diagonalization of the subspace (d = 0: the one diag_once begins   *)
(* with), <<d, m, e, n>> the correction (H - E) v / |..| of v = <<d, m>>   *)
(* with the eigenvalue E of <<e, n>>.  An eigenvalue is named by its       *)
(* vector, a column of hphi by the vector H was applied to, an element of  *)
(* hcc (and scc) by its two vectors, and a column of vcc by the vector it  *)
(* makes of the basis.  Which bands are converged is left open.            *)
(***************************************************************************)
EXTENDS Integers, Sequences

CONSTANTS
    Inputs,       \* what diag is called with
    n_band,
    david_ndim,   \* pw_diag_ndim
    iter_nmax     \* pw_diag_nmax

ASSUME InputsAssumption == Inputs \subseteq [is_subspace : BOOLEAN, scf_type : BOOLEAN]
ASSUME BandAssumption == n_band \in Nat \ {0}
ASSUME NdimAssumption == david_ndim \in Nat \ {0, 1}
ASSUME NmaxAssumption == iter_nmax \in Nat \ {0}

VARIABLES
    inp,
    pc,
    ntry,
    dav_iter,
    nbase,
    notconv,
    unconv,                  \* the bands that are not converged
    psi_in,
    psi_in_iter, hphi,       \* their columns so far
    hcc,                     \* its elements with row <= column
    vcc,
    eigenvalue_iter,
    eigenvalue_in_hsolver,
    diags                    \* history: diagonalizations in this diag_once

basis == <<nbase, psi_in_iter, hphi, hcc>>
result == <<psi_in, eigenvalue_in_hsolver>>
vars == <<inp, pc, ntry, dav_iter, notconv, unconv, basis, vcc, eigenvalue_iter,
          result, diags>>

Bands == 1 .. n_band
nbase_x == n_band * david_ndim

Ritz(d) == [m \in Bands |-> <<d, m>>]
Correction(v, e) == v \o e

\* What a column of vcc left by another diag_once makes of the basis.
Leftover(m) == <<-1, m>>

\* What unconv may be: n bands in order
Increasing(n) ==
    {u \in [1 .. n -> Bands] : \A i, j \in 1 .. n : i < j => u[i] < u[j]}

Elements(n) == {p \in (1 .. n) \X (1 .. n) : p[1] <= p[2]}

-----------------------------------------------------------------------------
(* The parts of diag_once *)

\* cal_elem for the columns after the first nbase
CalElem(psi, hpsi, columns) ==
    [p \in Elements(columns) |->
        IF p[2] > nbase THEN <<psi[p[1]], hpsi[p[2]]>> ELSE hcc[p]]

\* diag_zhegvx in the basis, after d diagonalizations before it
DiagZhegvx(d) ==
    /\ vcc' = Ritz(d) /\ eigenvalue_iter' = Ritz(d)
    /\ diags' = d

\* diag_zhegvx with is_subspace: the vectors are taken to be eigenvectors.
\* Only the diagonal of vcc is set, which is zero before the first diag_once.
NoDiagonalization ==
    /\ vcc' = IF ntry = 0 THEN Ritz(0) ELSE [m \in Bands |-> Leftover(m)]
    /\ eigenvalue_iter' = Ritz(0)
    /\ diags' = 0

Init ==
    /\ inp \in Inputs
    /\ pc = "diag"
    /\ ntry = 0 /\ dav_iter = 0
    /\ nbase = 0 /\ notconv = 0 /\ unconv \in Increasing(0)
    /\ psi_in = Ritz(0) /\ eigenvalue_in_hsolver = <<>>
    /\ psi_in_iter = <<>> /\ hphi = <<>>
    /\ hcc = [p \in Elements(0) |-> <<>>]
    /\ vcc = <<>> /\ eigenvalue_iter = <<>>
    /\ diags = 0

\* diagH_subspace and diag_once up to its loop
First ==
    /\ pc = "diag"
    /\ pc' = "cal_grad"
    /\ notconv' = n_band /\ unconv' = [m \in Bands |-> m]
    /\ psi_in' = Ritz(0)
    /\ psi_in_iter' = psi_in' /\ hphi' = psi_in_iter'
    /\ nbase' = n_band
    /\ hcc' = [p \in Elements(n_band) |-> <<psi_in_iter'[p[1]], hphi'[p[2]]>>]
    /\ IF inp.is_subspace THEN NoDiagonalization ELSE DiagZhegvx(1)
    /\ eigenvalue_in_hsolver' = eigenvalue_iter'
    /\ dav_iter' = 0
    /\ UNCHANGED <<inp, ntry>>

\* The first notconv columns become those of the bands not converged.
Compacted(s) == [i \in Bands |-> IF i <= notconv THEN s[unconv[i]] ELSE s[i]]

Extended(eigenvalues) ==
    psi_in_iter \o [i \in 1 .. notconv |-> Correction(vcc'[i], eigenvalues[i])]

\* Mutant: the eigenvalues are not compacted with vcc.
CalGradKeepingEigenvalues ==
    /\ pc = "cal_grad"
    /\ pc' = "cal_elem"
    /\ dav_iter' = dav_iter + 1
    /\ vcc' = Compacted(vcc)
    /\ psi_in_iter' = Extended(eigenvalue_iter)
    /\ hphi' = hphi \o SubSeq(psi_in_iter', nbase + 1, nbase + notconv)
    /\ UNCHANGED <<inp, ntry, nbase, notconv, unconv, hcc, result, eigenvalue_iter,
                   diags>>

CalGrad ==
    /\ pc = "cal_grad"
    /\ pc' = "cal_elem"
    /\ dav_iter' = dav_iter + 1
    /\ vcc' = Compacted(vcc)
    /\ eigenvalue_iter' = Compacted(eigenvalue_iter)
    /\ psi_in_iter' = Extended(eigenvalue_iter')
    /\ hphi' = hphi \o SubSeq(psi_in_iter', nbase + 1, nbase + notconv)
    /\ UNCHANGED <<inp, ntry, nbase, notconv, unconv, hcc, result, diags>>

\* cal_elem and diag_zhegvx
Solve ==
    /\ pc = "cal_elem"
    /\ pc' = "check_update"
    /\ nbase' = nbase + notconv
    /\ hcc' = CalElem(psi_in_iter, hphi, nbase')
    /\ DiagZhegvx(diags + 1)
    /\ UNCHANGED <<inp, ntry, dav_iter, notconv, unconv, psi_in_iter, hphi, result>>

\* Mutant: room for one vector is taken to be enough.
FullForOne(n) == nbase + 1 > nbase_x

\* With notconv bands not converged, the basis may not have room for more.
Full(n) == nbase + n + 1 > nbase_x

Ends(n) == n = 0 \/ dav_iter = iter_nmax

\* Mutant: hphi keeps the columns of the old basis.
RefreshKeepingHphi ==
    /\ nbase' = n_band
    /\ psi_in_iter' = psi_in'
    /\ hphi' = SubSeq(hphi, 1, n_band)
    /\ hcc' = [p \in Elements(n_band) |->
                  <<eigenvalue_in_hsolver'[p[1]], eigenvalue_in_hsolver'[p[2]]>>]
    /\ vcc' = psi_in_iter'

\* refresh: the current approximations replace the basis.  The new hphi is the
\* old one times vcc, which is H times what vcc makes of the basis; hcc is the
\* eigenvalues, for H has no other elements between approximations of one
\* diagonalization.
Refresh ==
    /\ nbase' = n_band
    /\ psi_in_iter' = psi_in'
    /\ hphi' = vcc
    /\ hcc' = [p \in Elements(n_band) |->
                  <<eigenvalue_in_hsolver'[p[1]], eigenvalue_in_hsolver'[p[2]]>>]
    /\ vcc' = psi_in_iter'

\* Mutant: at iter_nmax nothing is written back.
WrittenWhenConverged(n) == n = 0 \/ Full(n)

\* Whether psi_in is updated
Written(n) == Ends(n) \/ Full(n)

\* The bands whose eigenvalue changed too much are not converged.
CheckUpdate ==
    /\ pc = "check_update"
    /\ notconv' \in 0 .. n_band
    /\ unconv' \in Increasing(notconv')
    /\ eigenvalue_in_hsolver' = eigenvalue_iter
    /\ psi_in' = IF Written(notconv') THEN vcc ELSE psi_in
    /\ IF ~Ends(notconv') /\ Full(notconv') THEN Refresh ELSE UNCHANGED <<basis, vcc>>
    /\ pc' = IF Ends(notconv') THEN "test_exit_cond" ELSE "cal_grad"
    /\ UNCHANGED <<inp, ntry, dav_iter, eigenvalue_iter, diags>>

\* test_exit_cond: whether diag_once is tried again
Again(tries) ==
    tries <= 5 /\ IF inp.scf_type THEN notconv > 5 ELSE notconv > 0

TestExit ==
    /\ pc = "test_exit_cond"
    /\ ntry' = ntry + 1
    /\ pc' = IF Again(ntry') THEN "diag" ELSE "done"
    /\ UNCHANGED <<inp, dav_iter, notconv, unconv, basis, vcc, eigenvalue_iter,
                   result, diags>>

Next == \/ First
        \/ CalGrad
        \/ Solve
        \/ CheckUpdate
        \/ TestExit

Spec == Init /\ [][Next]_vars
-----------------------------------------------------------------------------
(* Properties *)

TypeOK ==
    /\ inp \in Inputs
    /\ pc \in {"diag", "cal_grad", "cal_elem", "check_update", "test_exit_cond", "done"}
    /\ ntry \in 0 .. 6
    /\ dav_iter \in 0 .. iter_nmax
    /\ notconv \in 0 .. n_band /\ Len(unconv) = notconv
    /\ nbase \in 0 .. nbase_x
    /\ Len(hphi) = Len(psi_in_iter) /\ Len(psi_in_iter) <= nbase_x
    /\ DOMAIN hcc = Elements(nbase)

\* Before a diagonalization, and whenever the basis was grown or refreshed,
\* hphi is H times the basis and hcc and scc are of the basis there is.
SubspaceOfBasis ==
    /\ hphi = psi_in_iter
    /\ \A p \in Elements(nbase) : hcc[p] = <<psi_in_iter[p[1]], psi_in_iter[p[2]]>>

\* What cal_grad adds is, for every band not converged, the residual of its
\* present approximation with its own eigenvalue, however the columns of vcc
\* and the eigenvalues were moved; not so in a second diag_once with
\* is_subspace.
ResidualOfBand ==
    pc = "cal_elem" /\ ~(inp.is_subspace /\ ntry > 0 /\ dav_iter = 1) =>
        \A k \in 1 .. notconv :
            LET v == Ritz(diags)[unconv[k]]
            IN  psi_in_iter[nbase + k] = Correction(v, v)

\* However diag_once ends, the vectors and eigenvalues it hands back are those
\* of the last diagonalization, band by band.
ResultOfBands ==
    pc = "test_exit_cond" => psi_in = Ritz(diags) /\ eigenvalue_in_hsolver = Ritz(diags)
=============================================================================
