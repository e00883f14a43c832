-------------------------- MODULE DavSubspace_proof --------------------------
(***************************************************************************)
(* Proofs about DavSubspace, for any number of bands, any size of the      *)
(* subspace and any number of iterations.                                  *)
(***************************************************************************)
EXTENDS DavSubspace, SequenceTheorems, TLAPS

Vectors == Seq(Int)

\* hphi, hcc and scc are of the basis.
BasisInv ==
    /\ psi_in_iter \in Seq(Vectors)
    /\ hphi = psi_in_iter
    /\ nbase \in Nat /\ nbase <= nbase_x
    /\ hcc = [p \in Elements(nbase) |-> <<psi_in_iter[p[1]], psi_in_iter[p[2]]>>]
    /\ Len(psi_in_iter) = nbase + (IF pc = "cal_elem" THEN notconv ELSE 0)

CountersInv ==
    /\ inp \in Inputs
    /\ pc \in {"diag", "cal_grad", "cal_elem", "check_update", "test_exit_cond", "done"}
    /\ ntry \in Nat /\ ntry <= (IF pc = "done" THEN 6 ELSE 5)
    /\ dav_iter \in Nat /\ dav_iter <= iter_nmax
    /\ notconv \in Nat /\ notconv <= n_band
    /\ unconv \in Increasing(notconv)
    /\ diags \in Nat

\* The tries that begin with what another left in vcc
LeftoverUsed == inp.is_subspace /\ ntry > 0 /\ dav_iter = 0

\* What is known before each part
PartInv ==
    /\ pc = "cal_grad" =>
           /\ nbase + notconv <= nbase_x /\ dav_iter < iter_nmax
           /\ vcc \in [Bands -> Vectors] /\ eigenvalue_iter = Ritz(diags)
           /\ ~LeftoverUsed => vcc = Ritz(diags)
    /\ pc = "cal_elem" => nbase + notconv <= nbase_x
    /\ pc = "check_update" => vcc = Ritz(diags) /\ eigenvalue_iter = Ritz(diags)

IInv == CountersInv /\ BasisInv /\ PartInv /\ ResidualOfBand /\ ResultOfBands

-----------------------------------------------------------------------------
(* Sequences *)

\* What psi_in and psi_in_iter are made of: a vector for every band.
LEMMA RitzVectors ==
    ASSUME NEW d \in Int
    PROVE  /\ Ritz(d) \in [Bands -> Vectors]
           /\ Ritz(d) \in Seq(Vectors) /\ Len(Ritz(d)) = n_band
<1>1. \A m \in Bands : <<d, m>> \in Vectors
  BY BandAssumption DEF Bands, Vectors
<1>2. Ritz(d) \in [1 .. n_band -> Vectors]
  BY <1>1 DEF Ritz, Bands
<1>3. QED
  BY <1>2, BandAssumption DEF Bands

\* The columns cal_grad applies H to are the ones it added.
LEMMA AddedColumns ==
    ASSUME NEW s \in Seq(Vectors), NEW t \in Seq(Vectors)
    PROVE  SubSeq(s \o t, Len(s) + 1, Len(s) + Len(t)) = t
<1> DEFINE u == SubSeq(s \o t, Len(s) + 1, Len(s) + Len(t))
<1>1. /\ Len(s) \in Nat /\ Len(t) \in Nat
      /\ s \o t \in Seq(Vectors) /\ Len(s \o t) = Len(s) + Len(t)
  OBVIOUS
<1>2. u \in Seq(Vectors) /\ Len(u) = Len(t)
  BY <1>1
<1>3. \A k \in 1 .. Len(t) : u[k] = t[k]
  <2> SUFFICES ASSUME NEW k \in 1 .. Len(t) PROVE u[k] = t[k]
    OBVIOUS
  <2>1. u[k] = (s \o t)[Len(s) + k]
    BY <1>1
  <2>2. QED
    BY <2>1, <1>1
<1>4. QED
  BY <1>2, <1>3

-----------------------------------------------------------------------------
(* The invariant is kept *)

\* There is room for two columns of every band.
LEMMA Room == n_band \in Nat /\ nbase_x \in Nat /\ 2 * n_band <= nbase_x
<1>1. n_band \in Nat /\ david_ndim \in Nat /\ david_ndim >= 2
  BY BandAssumption, NdimAssumption
<1>2. nbase_x = n_band * 2 + n_band * (david_ndim - 2)
  BY <1>1 DEF nbase_x
<1>3. n_band * (david_ndim - 2) \in Nat
  BY <1>1
<1>4. QED
  BY <1>1, <1>2, <1>3

LEMMA InitKept == Init => IInv
<1> SUFFICES ASSUME Init PROVE IInv
  OBVIOUS
<1>1. CountersInv
  BY BandAssumption, NmaxAssumption DEF Init, CountersInv
<1>2. BasisInv
  <2>1. psi_in_iter = <<>> /\ hphi = <<>> /\ nbase = 0 /\ pc = "diag"
    BY DEF Init
  <2>2. Elements(nbase) = {}
    BY <2>1 DEF Elements
  <2>3. hcc = [p \in Elements(nbase) |-> <<psi_in_iter[p[1]], psi_in_iter[p[2]]>>]
    BY <2>1, <2>2 DEF Init
  <2>4. QED
    BY <2>1, <2>3, Room DEF BasisInv
<1>3. PartInv /\ ResidualOfBand /\ ResultOfBands
  BY DEF Init, PartInv, ResidualOfBand, ResultOfBands
<1>4. QED
  BY <1>1, <1>2, <1>3 DEF IInv

LEMMA FirstKept == IInv /\ First => IInv'
<1> SUFFICES ASSUME IInv, First PROVE IInv'
  OBVIOUS
<1>1. pc = "diag" /\ pc' = "cal_grad" /\ dav_iter' = 0 /\ ntry' = ntry /\ inp' = inp
  BY DEF First
<1>2. notconv' = n_band /\ nbase' = n_band /\ unconv' = [m \in Bands |-> m]
  BY DEF First
<1>3. psi_in_iter' = Ritz(0) /\ hphi' = Ritz(0)
  BY DEF First
<1>4. /\ Ritz(0) \in Seq(Vectors) /\ Len(Ritz(0)) = n_band
      /\ Ritz(0) \in [Bands -> Vectors] /\ Ritz(1) \in [Bands -> Vectors]
  BY RitzVectors
<1>5. /\ diags' \in {0, 1} /\ eigenvalue_iter' = Ritz(diags')
      /\ vcc' \in [Bands -> Vectors]
      /\ ~LeftoverUsed' => vcc' = Ritz(diags')
  <2>1. CASE inp.is_subspace
    <3>1. NoDiagonalization
      BY <2>1 DEF First
    <3>2. [m \in Bands |-> Leftover(m)] \in [Bands -> Vectors]
      BY BandAssumption DEF Leftover, Bands, Vectors
    <3>3. ntry # 0 => LeftoverUsed'
      BY <1>1, <2>1 DEF LeftoverUsed, IInv, CountersInv
    <3>4. QED
      BY <3>1, <3>2, <3>3, <1>4 DEF NoDiagonalization
  <2>2. CASE ~inp.is_subspace
    <3>1. DiagZhegvx(1)
      BY <2>2 DEF First
    <3>2. QED
      BY <3>1, <1>4 DEF DiagZhegvx
  <2>3. QED
    BY <2>1, <2>2
<1>6. CountersInv'
  <2>1. unconv' \in Increasing(notconv')
    BY <1>2, BandAssumption DEF Increasing, Bands
  <2>2. QED
    BY <1>1, <1>2, <1>5, <2>1, BandAssumption, NmaxAssumption DEF IInv, CountersInv
<1>7. BasisInv'
  <2>1. hcc' = [p \in Elements(n_band) |-> <<psi_in_iter'[p[1]], hphi'[p[2]]>>]
    BY DEF First
  <2>2. QED
    BY <2>1, <1>1, <1>2, <1>3, <1>4, Room DEF BasisInv, nbase_x
<1>8. PartInv'
  BY <1>1, <1>2, <1>5, Room, NmaxAssumption DEF PartInv, nbase_x
<1>9. ResidualOfBand' /\ ResultOfBands'
  BY <1>1 DEF ResidualOfBand, ResultOfBands
<1>10. QED
  BY <1>6, <1>7, <1>8, <1>9 DEF IInv

LEMMA CalGradKept == IInv /\ CalGrad => IInv'
<1> SUFFICES ASSUME IInv, CalGrad PROVE IInv'
  OBVIOUS
<1> DEFINE t == [i \in 1 .. notconv |-> Correction(vcc'[i], eigenvalue_iter'[i])]
<1>1. /\ pc = "cal_grad" /\ pc' = "cal_elem" /\ dav_iter' = dav_iter + 1
      /\ UNCHANGED <<inp, ntry, nbase, notconv, unconv, hcc, diags>>
      /\ vcc' = Compacted(vcc) /\ eigenvalue_iter' = Compacted(eigenvalue_iter)
  BY DEF CalGrad, result
<1>2. psi_in_iter' = psi_in_iter \o t
  BY DEF CalGrad, Extended
<1>3. /\ notconv \in Nat /\ notconv <= n_band /\ n_band \in Nat /\ nbase \in Nat
      /\ nbase + notconv <= nbase_x
      /\ Len(psi_in_iter) = nbase /\ psi_in_iter \in Seq(Vectors)
  BY <1>1, BandAssumption DEF IInv, CountersInv, BasisInv, PartInv
<1>4. \A i \in 1 .. notconv :
          /\ i \in Bands /\ unconv[i] \in Bands
          /\ vcc'[i] = vcc[unconv[i]]
          /\ eigenvalue_iter'[i] = Ritz(diags)[unconv[i]]
          /\ vcc'[i] \in Vectors /\ eigenvalue_iter'[i] \in Vectors
  <2> SUFFICES ASSUME NEW i \in 1 .. notconv
               PROVE  /\ i \in Bands /\ unconv[i] \in Bands
                      /\ vcc'[i] = vcc[unconv[i]]
                      /\ eigenvalue_iter'[i] = Ritz(diags)[unconv[i]]
                      /\ vcc'[i] \in Vectors /\ eigenvalue_iter'[i] \in Vectors
    OBVIOUS
  <2>1. i \in Bands /\ i <= notconv
    BY <1>3 DEF Bands
  <2>2. unconv[i] \in Bands
    BY DEF IInv, CountersInv, Increasing
  <2>3. vcc'[i] = vcc[unconv[i]] /\ eigenvalue_iter'[i] = eigenvalue_iter[unconv[i]]
    BY <1>1, <2>1 DEF Compacted
  <2>4. vcc \in [Bands -> Vectors] /\ eigenvalue_iter = Ritz(diags)
    BY <1>1 DEF IInv, PartInv
  <2>5. Ritz(diags) \in [Bands -> Vectors]
    BY RitzVectors DEF IInv, CountersInv
  <2>6. QED
    BY <2>1, <2>2, <2>3, <2>4, <2>5
<1>5. t \in Seq(Vectors) /\ Len(t) = notconv
  <2>1. \A i \in 1 .. notconv : Correction(vcc'[i], eigenvalue_iter'[i]) \in Vectors
    BY <1>4 DEF Correction, Vectors
  <2>2. t \in [1 .. notconv -> Vectors]
    BY <2>1
  <2>3. QED
    BY <2>2, <1>3
<1>6. /\ psi_in_iter' \in Seq(Vectors) /\ Len(psi_in_iter') = nbase + notconv
      /\ \A i \in 1 .. nbase : psi_in_iter'[i] = psi_in_iter[i]
      /\ \A k \in 1 .. notconv : psi_in_iter'[nbase + k] = t[k]
  <2> HIDE DEF t
  <2>1. psi_in_iter \o t \in Seq(Vectors) /\ Len(psi_in_iter \o t) = nbase + notconv
    BY <1>3, <1>5
  <2>2. \A i \in 1 .. nbase : (psi_in_iter \o t)[i] = psi_in_iter[i]
    BY <1>3, <1>5
  <2>3. \A k \in 1 .. notconv : (psi_in_iter \o t)[nbase + k] = t[k]
    BY <1>3, <1>5
  <2>4. QED
    BY <1>2, <2>1, <2>2, <2>3
<1>7. hphi' = psi_in_iter'
  <2>1. hphi' = hphi \o SubSeq(psi_in_iter', nbase + 1, nbase + notconv)
    BY DEF CalGrad
  <2>2. SubSeq(psi_in_iter', nbase + 1, nbase + notconv) = t
    <3> HIDE DEF t
    <3>1. QED
      BY <1>2, <1>3, <1>5, AddedColumns
  <2>3. hphi = psi_in_iter
    BY DEF IInv, BasisInv
  <2>4. QED
    BY <2>1, <2>2, <2>3, <1>2
<1>8. CountersInv'
  <2>1. dav_iter < iter_nmax
    BY <1>1 DEF IInv, PartInv
  <2>2. QED
    BY <1>1, <2>1, NmaxAssumption DEF IInv, CountersInv
<1>9. BasisInv'
  <2>1. \A p \in Elements(nbase) : /\ psi_in_iter'[p[1]] = psi_in_iter[p[1]]
                                   /\ psi_in_iter'[p[2]] = psi_in_iter[p[2]]
    BY <1>6 DEF Elements
  <2>2. hcc' = [p \in Elements(nbase') |-> <<psi_in_iter'[p[1]], psi_in_iter'[p[2]]>>]
    BY <2>1, <1>1 DEF IInv, BasisInv
  <2>3. QED
    BY <2>2, <1>1, <1>3, <1>6, <1>7 DEF IInv, BasisInv, nbase_x
<1>10. PartInv'
  BY <1>1, <1>3 DEF PartInv, nbase_x
<1>11. ResidualOfBand'
  <2> SUFFICES ASSUME ~(inp'.is_subspace /\ ntry' > 0 /\ dav_iter' = 1),
                      NEW k \in 1 .. notconv'
               PROVE  psi_in_iter'[nbase' + k]
                        = Correction(Ritz(diags')[unconv'[k]], Ritz(diags')[unconv'[k]])
    BY DEF ResidualOfBand
  <2>1. ~LeftoverUsed
    BY <1>1 DEF LeftoverUsed, IInv, CountersInv
  <2>2. vcc = Ritz(diags)
    BY <2>1, <1>1 DEF IInv, PartInv
  <2>3. k \in 1 .. notconv /\ nbase' + k = nbase + k
    BY <1>1
  <2>4. psi_in_iter'[nbase + k] = Correction(vcc'[k], eigenvalue_iter'[k])
    BY <1>6, <2>3
  <2>5. QED
    BY <2>2, <2>3, <2>4, <1>1, <1>4
<1>12. ResultOfBands'
  BY <1>1 DEF ResultOfBands
<1>13. QED
  BY <1>8, <1>9, <1>10, <1>11, <1>12 DEF IInv

LEMMA SolveKept == IInv /\ Solve => IInv'
<1> SUFFICES ASSUME IInv, Solve PROVE IInv'
  OBVIOUS
<1>1. /\ pc = "cal_elem" /\ pc' = "check_update" /\ nbase' = nbase + notconv
      /\ UNCHANGED <<inp, ntry, dav_iter, notconv, unconv, psi_in_iter, hphi>>
      /\ diags' = diags + 1 /\ vcc' = Ritz(diags') /\ eigenvalue_iter' = Ritz(diags')
  BY DEF Solve, DiagZhegvx
<1>2. /\ nbase \in Nat /\ notconv \in Nat /\ nbase + notconv <= nbase_x
      /\ Len(psi_in_iter) = nbase + notconv
  BY <1>1 DEF IInv, CountersInv, BasisInv, PartInv
<1>3. CountersInv'
  BY <1>1 DEF IInv, CountersInv
<1>4. BasisInv'
  <2>1. hcc' = [p \in Elements(nbase') |->
                  IF p[2] > nbase THEN <<psi_in_iter[p[1]], hphi[p[2]]>> ELSE hcc[p]]
    BY DEF Solve, CalElem
  <2>2. \A p \in Elements(nbase') :
            p[2] <= nbase => hcc[p] = <<psi_in_iter[p[1]], psi_in_iter[p[2]]>>
    <3>1. \A p \in Elements(nbase') : p[2] <= nbase => p \in Elements(nbase)
      BY <1>1, <1>2 DEF Elements
    <3>2. QED
      BY <3>1 DEF IInv, BasisInv
  <2>3. \A p \in Elements(nbase') : p[2] > nbase \/ p[2] <= nbase
    BY <1>1, <1>2 DEF Elements
  <2>4. hcc' = [p \in Elements(nbase') |-> <<psi_in_iter'[p[1]], psi_in_iter'[p[2]]>>]
    BY <2>1, <2>2, <2>3, <1>1 DEF IInv, BasisInv
  <2>5. QED
    BY <2>4, <1>1, <1>2 DEF IInv, BasisInv, nbase_x
<1>5. PartInv' /\ ResidualOfBand' /\ ResultOfBands'
  BY <1>1 DEF PartInv, ResidualOfBand, ResultOfBands
<1>6. QED
  BY <1>3, <1>4, <1>5 DEF IInv

LEMMA CheckUpdateKept == IInv /\ CheckUpdate => IInv'
<1> SUFFICES ASSUME IInv, CheckUpdate PROVE IInv'
  OBVIOUS
<1>1. /\ pc = "check_update" /\ UNCHANGED <<inp, ntry, dav_iter, eigenvalue_iter, diags>>
      /\ notconv' \in 0 .. n_band /\ unconv' \in Increasing(notconv')
      /\ eigenvalue_in_hsolver' = eigenvalue_iter
      /\ pc' = IF Ends(notconv') THEN "test_exit_cond" ELSE "cal_grad"
  BY DEF CheckUpdate
<1>2. /\ vcc = Ritz(diags) /\ eigenvalue_iter = Ritz(diags) /\ diags \in Nat
      /\ Len(psi_in_iter) = nbase /\ nbase \in Nat /\ nbase <= nbase_x
      /\ dav_iter \in Nat /\ dav_iter <= iter_nmax
  BY <1>1 DEF IInv, CountersInv, BasisInv, PartInv
<1>3. /\ Ritz(diags) \in [Bands -> Vectors] /\ Ritz(diags) \in Seq(Vectors)
      /\ Len(Ritz(diags)) = n_band
  BY <1>2, RitzVectors
<1>4. notconv' \in Nat /\ notconv' <= n_band
  BY <1>1, BandAssumption
<1>5. CountersInv'
  BY <1>1, <1>4 DEF IInv, CountersInv
<1>6. ResidualOfBand' /\ ResultOfBands'
  <2>1. pc' = "test_exit_cond" => psi_in' = Ritz(diags)
    BY <1>1, <1>2 DEF CheckUpdate, Written
  <2>2. QED
    BY <2>1, <1>1, <1>2 DEF ResidualOfBand, ResultOfBands
<1>7. CASE ~Ends(notconv') /\ Full(notconv')
  <2>1. Refresh /\ psi_in' = Ritz(diags)
    BY <1>2, <1>7 DEF CheckUpdate, Written
  <2>2. /\ nbase' = n_band /\ psi_in_iter' = Ritz(diags)
        /\ hphi' = Ritz(diags) /\ vcc' = Ritz(diags)
        /\ hcc' = [p \in Elements(n_band) |-> <<Ritz(diags)[p[1]], Ritz(diags)[p[2]]>>]
    BY <2>1, <1>1, <1>2 DEF Refresh
  <2>3. BasisInv'
    BY <2>2, <1>1, <1>3, Room DEF BasisInv, nbase_x
  <2>4. PartInv'
    <3>1. dav_iter < iter_nmax
      BY <1>2, <1>7, NmaxAssumption DEF Ends
    <3>2. QED
      BY <3>1, <2>2, <1>1, <1>2, <1>3, <1>4, Room DEF PartInv, nbase_x
  <2>5. QED
    BY <1>5, <1>6, <2>3, <2>4 DEF IInv
<1>8. CASE ~(~Ends(notconv') /\ Full(notconv'))
  <2>1. UNCHANGED <<basis, vcc>>
    BY <1>8 DEF CheckUpdate
  <2>2. BasisInv'
    BY <2>1, <1>1, <1>2 DEF IInv, BasisInv, basis, nbase_x
  <2>3. pc' = "cal_grad" => nbase + notconv' <= nbase_x /\ dav_iter < iter_nmax
    <3> SUFFICES ASSUME pc' = "cal_grad"
                 PROVE  nbase + notconv' <= nbase_x /\ dav_iter < iter_nmax
      OBVIOUS
    <3>1. ~Ends(notconv') /\ ~Full(notconv')
      BY <1>1, <1>8
    <3>2. dav_iter < iter_nmax
      BY <3>1, <1>2, NmaxAssumption DEF Ends
    <3>3. ~(nbase + notconv' + 1 > nbase_x)
      BY <3>1 DEF Full
    <3>4. nbase + notconv' <= nbase_x
      <4>1. \A a, b, c \in Nat : ~(a + b + 1 > c) => a + b <= c
        OBVIOUS
      <4>2. nbase \in Nat /\ notconv' \in Nat /\ nbase_x \in Nat
        BY <1>2, <1>4, Room
      <4>3. QED
        BY <4>1, <4>2, <3>3
    <3>5. QED
      BY <3>2, <3>4
  <2>4. PartInv'
    BY <2>1, <2>3, <1>1, <1>2, <1>3 DEF PartInv, basis, nbase_x
  <2>5. QED
    BY <1>5, <1>6, <2>2, <2>4 DEF IInv
<1>9. QED
  BY <1>7, <1>8

LEMMA TestExitKept == IInv /\ TestExit => IInv'
<1> SUFFICES ASSUME IInv, TestExit PROVE IInv'
  OBVIOUS
<1>1. /\ pc = "test_exit_cond" /\ ntry' = ntry + 1
      /\ pc' = IF Again(ntry') THEN "diag" ELSE "done"
      /\ UNCHANGED <<inp, dav_iter, notconv, unconv, nbase, psi_in_iter, hphi, hcc, diags>>
  BY DEF TestExit, basis
<1>2. CountersInv'
  BY <1>1 DEF IInv, CountersInv, Again
<1>3. BasisInv'
  BY <1>1 DEF IInv, BasisInv, nbase_x
<1>4. PartInv' /\ ResidualOfBand' /\ ResultOfBands'
  BY <1>1 DEF PartInv, ResidualOfBand, ResultOfBands
<1>5. QED
  BY <1>2, <1>3, <1>4 DEF IInv

LEMMA StutterKept == IInv /\ UNCHANGED vars => IInv'
BY DEF IInv, CountersInv, BasisInv, PartInv, ResidualOfBand, ResultOfBands, LeftoverUsed,
       vars, basis, result, nbase_x

THEOREM InductiveInvariant == Spec => []IInv
<1>1. IInv /\ [Next]_vars => IInv'
  BY FirstKept, CalGradKept, SolveKept, CheckUpdateKept, TestExitKept, StutterKept DEF Next
<1>2. QED
  BY InitKept, <1>1, PTL DEF Spec

-----------------------------------------------------------------------------

\* The basis never outgrows the arrays it is in, whatever bands converge or
\* become unconverged again, and no more than six tries are made.
THEOREM TypeCorrect == Spec => []TypeOK
<1>1. IInv => TypeOK
  <2> SUFFICES ASSUME IInv PROVE TypeOK
    OBVIOUS
  <2>1. notconv \in 0 .. n_band /\ dav_iter \in 0 .. iter_nmax /\ ntry \in 0 .. 6
    BY BandAssumption, NmaxAssumption DEF IInv, CountersInv
  <2>2. Len(unconv) = notconv
    BY DEF IInv, CountersInv, Increasing
  <2>3. nbase \in 0 .. nbase_x /\ Len(psi_in_iter) <= nbase_x
    BY Room DEF IInv, BasisInv, CountersInv, PartInv
  <2>4. Len(hphi) = Len(psi_in_iter) /\ DOMAIN hcc = Elements(nbase)
    BY DEF IInv, BasisInv
  <2>5. QED
    BY <2>1, <2>2, <2>3, <2>4 DEF TypeOK, IInv, CountersInv
<1>2. QED
  BY InductiveInvariant, <1>1, PTL

\* The products with H and the matrices of the subspace are of the basis there
\* is, also after it was grown and replaced any number of times.
THEOREM SubspaceCorrect == Spec => []SubspaceOfBasis
<1>1. IInv => SubspaceOfBasis
  BY DEF IInv, BasisInv, SubspaceOfBasis
<1>2. QED
  BY InductiveInvariant, <1>1, PTL

\* Every correction is the residual of its band.
THEOREM ResidualsPaired == Spec => []ResidualOfBand
<1>1. IInv => ResidualOfBand
  BY DEF IInv
<1>2. QED
  BY InductiveInvariant, <1>1, PTL

\* What diag_once hands back is of the last diagonalization.
THEOREM ResultCurrent == Spec => []ResultOfBands
<1>1. IInv => ResultOfBands
  BY DEF IInv
<1>2. QED
  BY InductiveInvariant, <1>1, PTL
=============================================================================
