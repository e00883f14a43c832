------------------------------ MODULE MCScfMpi ------------------------------
(***************************************************************************)
(* Layouts and settings for checking ScfMpi.                               *)
(***************************************************************************)
EXTENDS ScfMpi

Ks(nproc, kpar, nspin, mgga, ene) ==
    [NPROC |-> nproc, NSTOGROUP |-> 1, KPAR |-> kpar, ESOLVER_TYPE |-> "ksdft",
     SCF_NMAX |-> 2, NSPIN |-> nspin, meta_gga |-> mgga, symm_flag |-> TRUE, scf_ene_thr |-> ene]

Sto(nproc, groups, kpar, nspin, symm, ene) ==
    [NPROC |-> nproc, NSTOGROUP |-> groups, KPAR |-> kpar, ESOLVER_TYPE |-> "sdft",
     SCF_NMAX |-> 2, NSPIN |-> nspin, meta_gga |-> FALSE, symm_flag |-> symm, scf_ene_thr |-> ene]

\* The same with one more iteration, which the energy criterion may save.
Longer(c) == [c EXCEPT !.SCF_NMAX = 3]

\* One pool, even pools, uneven pools; two spins or a meta-GGA.
KsCases == {Longer(Ks(2, 1, 1, FALSE, TRUE)), Longer(Ks(2, 2, 2, FALSE, TRUE)),
            Ks(4, 2, 2, FALSE, FALSE), Ks(3, 2, 1, TRUE, TRUE)}

\* Groups of one process and groups of two even pools.
StoCases == {Sto(2, 2, 1, 1, TRUE, FALSE), Sto(3, 3, 1, 1, TRUE, FALSE),
             Sto(4, 2, 2, 1, TRUE, FALSE)}

\* Groups of two uneven pools, of two processes and of one; one iteration.
StoUnevenCases == {[Sto(6, 2, 2, 1, TRUE, FALSE) EXCEPT !.SCF_NMAX = 1]}

AllCases == KsCases \cup StoCases \cup StoUnevenCases

TwoSpins == {Sto(2, 2, 1, 2, TRUE, FALSE)}

TwoSpinsWithoutSymmetry == {Sto(2, 2, 1, 2, FALSE, FALSE)}
=============================================================================
