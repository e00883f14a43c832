------------------------ MODULE BroydenMixing_proof ------------------------
(***************************************************************************)
(* Proofs about BroydenMixing, for every mixing_ndim and every number of   *)
(* vectors.  The two rings are described by the age of what a slot holds,  *)
(* so that no proof but those of the first lemmas sees a modulo.           *)
(***************************************************************************)
EXTENDS BroydenMixing, TLAPS

USE MixingNdimAssumption, MaxVectorAssumption

\* Modulo on the range that ring indices stay in.
LEMMA ModRange == ASSUME NEW len \in Nat \ {0}, NEW x \in Int
                  PROVE  x % len \in 0 .. len - 1
  OBVIOUS

\* The value of a modulo whose argument is at most one length outside.
LEMMA ModValue ==
    ASSUME NEW len \in Nat \ {0}, NEW x \in 0 .. 3 * len - 1
    PROVE  x % len = IF x < len THEN x
                     ELSE IF x < 2 * len THEN x - len ELSE x - 2 * len
  <1>1. CASE x < len
    BY <1>1
  <1>2. CASE x >= len /\ x < 2 * len
    BY <1>2
  <1>3. CASE x >= 2 * len
    BY <1>3
  <1>. QED BY <1>1, <1>2, <1>3

\* How old the content of a slot is in a ring whose newest slot is start.
AgeIn(start, len, slot) ==
    IF slot <= start THEN start - slot ELSE start + len - slot

\* The age of a slot, written without modulo.
LEMMA AgeByModulo ==
    ASSUME NEW start \in -1 .. mixing_ndim, NEW slot \in 0 .. mixing_ndim
    PROVE  (start - slot + (mixing_ndim + 1)) % (mixing_ndim + 1)
               = AgeIn(start, mixing_ndim + 1, slot)
  <1>1. CASE slot <= start
    BY <1>1 DEF AgeIn
  <1>2. CASE slot > start
    BY <1>2 DEF AgeIn
  <1>. QED BY <1>1, <1>2

\* The slot after the newest one.
NextSlot(start, len) == IF start + 1 = len THEN 0 ELSE start + 1

Difference(k) == <<k - 1, k>>

-----------------------------------------------------------------------------
\* The counters of the two rings are functions of the number of vectors
\* pushed since the last restart, and a ring is filled from slot 0 on.
Counters ==
    LET h == rho_mdata.ndim_history
    IN  /\ h <= n
        /\ rho_mdata.ndim_use = IF h <= mixing_ndim THEN h ELSE mixing_ndim + 1
        /\ ndim_cal_dF = IF h = 0 THEN 0
                         ELSE IF h <= mixing_ndim THEN h - 1 ELSE mixing_ndim
        /\ h <= mixing_ndim => rho_mdata.start = h - 1
        /\ h > mixing_ndim => rho_mdata.start >= 0
        /\ ndim_cal_dF < mixing_ndim => start_dF = ndim_cal_dF - 1
        /\ ndim_cal_dF = mixing_ndim => start_dF >= 0

\* Every used slot of the density's ring holds the vector of its age.
VectorsInOrder ==
    \A s \in UsedSlots(rho_mdata) :
        rho_mdata.data[s] = n - AgeIn(rho_mdata.start, mixing_ndim + 1, s)

\* The slot that the next push turns into a difference holds the newest
\* residual, the other used slots hold the difference of their age.
DifferencesInOrder ==
    LET next == NextSlot(start_dF, mixing_ndim)
    IN  /\ rho_mdata.ndim_use > 0 => dF[next] = <<n, 0>>
        /\ \A s \in 0 .. ndim_cal_dF - 1 :
              s # next => dF[s] = Difference(n - AgeIn(start_dF, mixing_ndim, s))

\* The cache is right wherever the next cal_coef reads it.
CacheFresh ==
    LET next == NextSlot(start_dF, mixing_ndim)
    IN  \A i, j \in 0 .. ndim_cal_dF - 1 :
            i <= j /\ i # next /\ j # next => beta[<<i, j>>] = <<dF[i], dF[j]>>

\* tau_mdata sees exactly the calls that rho_mdata sees.
TauInStep == tau_mdata = rho_mdata /\ tau_out = rho_out

IndInv ==
    /\ TypeOK
    /\ Counters
    /\ VectorsInOrder
    /\ DifferencesInOrder
    /\ CacheFresh
    /\ TauInStep
    /\ DsysvFresh

-----------------------------------------------------------------------------
\* Pushing a vector keeps a Mixing_Data well formed.
LEMMA PushType ==
    ASSUME NEW mdata \in MixingDataType, NEW v \in 0 .. MaxVector,
           mdata.ndim_history < MaxVector
    PROVE  Push(mdata, v) \in MixingDataType
  <1>1. /\ mdata.ndim_tot = mixing_ndim + 1
        /\ mdata.start \in -1 .. mixing_ndim
        /\ mdata.ndim_use \in 0 .. mixing_ndim + 1
        /\ mdata.ndim_history \in 0 .. MaxVector
        /\ mdata.data \in [Slots -> 0 .. MaxVector]
    BY DEF MixingDataType
  <1>2. (mdata.start + 1) % (mixing_ndim + 1) \in 0 .. mixing_ndim
    BY <1>1
  <1>. DEFINE slot == (mdata.start + 1) % (mixing_ndim + 1)
  <1>3. slot \in -1 .. mixing_ndim /\ slot \in Slots
    BY <1>2 DEF Slots
  <1>. HIDE DEF slot
  <1>4. Push(mdata, v) =
            [ndim_tot     |-> mixing_ndim + 1,
             start        |-> slot,
             ndim_use     |-> IF mdata.ndim_use < mixing_ndim + 1
                              THEN mdata.ndim_use + 1 ELSE mixing_ndim + 1,
             ndim_history |-> mdata.ndim_history + 1,
             data         |-> [mdata.data EXCEPT ![slot] = v]]
    BY <1>1 DEF Push, slot
  <1>5. mdata.ndim_history + 1 \in 0 .. MaxVector
    BY <1>1
  <1>6. [mdata.data EXCEPT ![slot] = v] \in [Slots -> 0 .. MaxVector]
    BY <1>1
  <1>7. (IF mdata.ndim_use < mixing_ndim + 1 THEN mdata.ndim_use + 1
         ELSE mixing_ndim + 1) \in 0 .. mixing_ndim + 1
    BY <1>1
  <1>. QED BY <1>3, <1>4, <1>5, <1>6, <1>7 DEF MixingDataType

\* The index functions of the ring of differences stay inside it.
LEMMA dFindexMoveRange ==
    ASSUME NEW s \in Int, NEW i \in Int
    PROVE  dFindexMove(s, i) \in dFSlots
  BY ModRange DEF dFindexMove, dFSlots

\* The ring of differences after tem_push_data keeps its type.
LEMMA PushedType ==
    ASSUME TypeOK, n < MaxVector
    PROVE  /\ PushedStart \in -1 .. mixing_ndim - 1
           /\ PushedCount \in 0 .. mixing_ndim
           /\ PushedDF \in [dFSlots -> Label]
  <1>1. (start_dF + 1) % mixing_ndim \in dFSlots
    BY ModRange DEF TypeOK, dFSlots
  <1>2. PushedStart \in -1 .. mixing_ndim - 1
    BY <1>1 DEF PushedStart, TypeOK, dFSlots
  <1>3. PushedCount \in 0 .. mixing_ndim
    BY DEF PushedCount, TypeOK
  <1>4. ASSUME NEW d \in Label PROVE Minus(d, n + 1) \in Label
    BY <1>4 DEF Minus, Garbage, Label, TypeOK
  <1>5. Unwritten \in Label
    BY DEF Unwritten, Label
  <1>6. PushedDF \in [dFSlots -> Label]
    BY <1>4, <1>5 DEF PushedDF, TypeOK
  <1>. QED BY <1>2, <1>3, <1>6

\* The cache of inner products keeps its type.
LEMMA CalBetaType ==
    ASSUME TypeOK, NEW d \in [dFSlots -> Label], NEW s \in Int, NEW c \in Int
    PROVE  CalBeta(d, s, c) \in [dFSlots \X dFSlots -> Label \X Label]
  BY DEF CalBeta, InnerProduct, TypeOK

\* The coefficients keep their type.
LEMMA CalCoefType ==
    ASSUME TypeOK, NEW d \in [dFSlots -> Label], NEW s \in Int, NEW c \in Int,
           NEW mdata \in MixingDataType
    PROVE  CalCoef(mdata, d, s, c) \in [Slots -> Coefficients]
  <1>1. NoDifference \in Label
    BY DEF NoDifference, Label
  <1>2. One \in Coefficients
    BY <1>1 DEF One, Coefficients
  <1>3. ASSUME NEW i \in Int PROVE CoefOfAge(d, s, c, i) \in Coefficients
    <2>1. Gamma(d, s, i) \in Label /\ Gamma(d, s, i - 1) \in Label
      BY dFindexMoveRange DEF Gamma
    <2>. QED BY <2>1, <1>1 DEF CoefOfAge, Coefficients
  <1>4. ASSUME NEW slot \in Slots PROVE Age(mdata, slot) \in Int
    <2>1. mdata.start \in Int /\ mdata.ndim_tot = mixing_ndim + 1
      BY DEF MixingDataType
    <2>2. (mdata.start - slot + (mixing_ndim + 1)) % (mixing_ndim + 1) \in Int
      BY <2>1 DEF Slots
    <2>. QED BY <2>1, <2>2 DEF Age
  <1>5. CASE c = 0
    BY <1>2, <1>5 DEF CalCoef, TypeOK
  <1>6. CASE c # 0
    BY <1>3, <1>4, <1>6 DEF CalCoef, TypeOK
  <1>. QED BY <1>5, <1>6

\* Resizing and resetting keep a Mixing_Data well formed.
LEMMA ResizeType == Resize(mixing_ndim + 1) \in MixingDataType
  BY DEF Resize, MixingDataType, Slots, NoVector

\* Mixing_Data::reset keeps the counters and the slots well typed.
LEMMA ResetType ==
    ASSUME NEW mdata \in MixingDataType
    PROVE  ResetData(mdata) \in MixingDataType
  BY DEF ResetData, MixingDataType

\* The inductive invariant holds of a new mixing object.
LEMMA InitIndInv == Init => IndInv
  <1>. SUFFICES ASSUME Init PROVE IndInv
    OBVIOUS
  <1>. USE DEF Init
  <1>1. TypeOK
    <2>1. Unwritten \in Label
      BY DEF Unwritten, Label
    <2>2. Zero \in Coefficients
      BY DEF Zero, Coefficients, NoDifference, Label
    <2>3. NoVector \in 0 .. MaxVector
      BY DEF NoVector
    <2>. QED BY <2>1, <2>2, <2>3, ResizeType DEF TypeOK
  <1>2. Counters
    BY DEF Counters, Resize
  <1>3. VectorsInOrder
    BY DEF VectorsInOrder, UsedSlots, Resize
  <1>4. DifferencesInOrder
    BY DEF DifferencesInOrder, Resize
  <1>5. CacheFresh
    BY DEF CacheFresh
  <1>6. TauInStep /\ DsysvFresh
    BY DEF TauInStep, DsysvFresh
  <1>. QED BY <1>1, <1>2, <1>3, <1>4, <1>5, <1>6 DEF IndInv

\* With no vector pushed the two rings have nothing to promise.
LEMMA EmptyRings ==
    ASSUME TypeOK', TauInStep', n' = n, n \in Nat,
           rho_mdata'.ndim_history = 0, rho_mdata'.ndim_use = 0,
           rho_mdata'.start = -1, start_dF' = -1, ndim_cal_dF' = 0
    PROVE  IndInv'
  <1>1. Counters'
    BY DEF Counters
  <1>2. VectorsInOrder'
    BY DEF VectorsInOrder, UsedSlots
  <1>3. DifferencesInOrder'
    BY DEF DifferencesInOrder
  <1>4. CacheFresh'
    BY DEF CacheFresh
  <1>5. DsysvFresh'
    BY DEF DsysvFresh
  <1>. QED BY <1>1, <1>2, <1>3, <1>4, <1>5 DEF IndInv

\* init_mixing keeps the inductive invariant.
LEMMA InitMixingIndInv == IndInv /\ InitMixing => IndInv'
  <1>. SUFFICES ASSUME IndInv, InitMixing PROVE IndInv'
    OBVIOUS
  <1>. USE DEF InitMixing, NewMixing
  <1>1. TypeOK'
    <2>1. Unwritten \in Label
      BY DEF Unwritten, Label
    <2>2. Zero \in Coefficients
      BY DEF Zero, Coefficients, NoDifference, Label
    <2>3. NoVector \in 0 .. MaxVector
      BY DEF NoVector
    <2>. QED BY <2>1, <2>2, <2>3, ResizeType DEF TypeOK, IndInv
  <1>2. TauInStep'
    BY DEF IndInv, TauInStep
  <1>. QED BY <1>1, <1>2, EmptyRings DEF Resize, IndInv, TypeOK

\* mix_reset keeps the inductive invariant, although it leaves the memory.
LEMMA MixResetIndInv == IndInv /\ MixReset => IndInv'
  <1>. SUFFICES ASSUME IndInv, MixReset PROVE IndInv'
    OBVIOUS
  <1>. USE DEF MixReset
  <1>1. TypeOK'
    BY ResetType DEF TypeOK, IndInv
  <1>2. TauInStep'
    BY DEF IndInv, TauInStep
  <1>. QED BY <1>1, <1>2, EmptyRings DEF ResetData, IndInv, TypeOK

-----------------------------------------------------------------------------
\* The counters after a push.
LEMMA PushedCounters ==
    ASSUME IndInv, MixRho
    PROVE  /\ Counters'
           /\ rho_mdata'.start = NextSlot(rho_mdata.start, mixing_ndim + 1)
           /\ rho_mdata'.ndim_use = PushedCount + 1
           /\ rho_mdata'.ndim_history = rho_mdata.ndim_history + 1
           /\ ~FirstPush => PushedStart = NextSlot(start_dF, mixing_ndim)
  <1>. DEFINE h == rho_mdata.ndim_history
  <1>1. TypeOK /\ Counters
    BY DEF IndInv
  <1>2. /\ n \in Nat /\ h \in Nat /\ h <= n
        /\ rho_mdata.ndim_tot = mixing_ndim + 1
        /\ rho_mdata.start \in -1 .. mixing_ndim
        /\ start_dF \in -1 .. mixing_ndim - 1
    BY <1>1 DEF TypeOK, MixingDataType, Counters
  <1>3. (rho_mdata.start + 1) % (mixing_ndim + 1)
            = NextSlot(rho_mdata.start, mixing_ndim + 1)
    BY <1>2, ModValue DEF NextSlot
  <1>4. (start_dF + 1) % mixing_ndim = NextSlot(start_dF, mixing_ndim)
    <2>1. start_dF + 1 \in 0 .. 3 * mixing_ndim - 1
      BY <1>2
    <2>. QED BY <1>2, <2>1 DEF NextSlot
  <1>5. /\ rho_mdata'.start = NextSlot(rho_mdata.start, mixing_ndim + 1)
        /\ rho_mdata'.ndim_history = h + 1
        /\ rho_mdata'.ndim_use = IF rho_mdata.ndim_use < mixing_ndim + 1
                                 THEN rho_mdata.ndim_use + 1 ELSE mixing_ndim + 1
    BY <1>2, <1>3 DEF MixRho, Push
  <1>6. ~FirstPush => PushedStart = NextSlot(start_dF, mixing_ndim)
    BY <1>4 DEF PushedStart
  <1>7. FirstPush <=> h = 0
    BY <1>1, <1>2 DEF FirstPush, Counters
  <1>8. rho_mdata'.ndim_use = PushedCount + 1
    BY <1>1, <1>2, <1>5, <1>7 DEF PushedCount, Counters
  <1>9. Counters'
    <2>1. n' = n + 1 /\ start_dF' = PushedStart /\ ndim_cal_dF' = PushedCount
      BY DEF MixRho
    <2>2. CASE h = 0
      BY <2>1, <2>2, <1>1, <1>2, <1>5, <1>7
         DEF Counters, PushedStart, PushedCount, NextSlot
    <2>3. CASE h > 0
      BY <2>1, <2>3, <1>1, <1>2, <1>5, <1>6, <1>7
         DEF Counters, PushedCount, NextSlot
    <2>. QED BY <2>2, <2>3, <1>2
  <1>. QED BY <1>5, <1>6, <1>8, <1>9

\* mix_rho keeps the types.
LEMMA MixRhoType == IndInv /\ MixRho => TypeOK'
  <1>. SUFFICES ASSUME IndInv, MixRho PROVE TypeOK'
    OBVIOUS
  <1>1. TypeOK /\ Counters /\ TauInStep /\ n < MaxVector
    BY DEF IndInv, MixRho
  <1>2. rho_mdata.ndim_history < MaxVector /\ n + 1 \in 0 .. MaxVector
    BY <1>1 DEF TypeOK, MixingDataType, Counters
  <1>3. rho_mdata' \in MixingDataType /\ tau_mdata' \in MixingDataType
    BY <1>1, <1>2, PushType DEF TypeOK, TauInStep, MixRho
  <1>4. start_dF' \in -1 .. mixing_ndim - 1 /\ ndim_cal_dF' \in 0 .. mixing_ndim
    BY <1>1, PushedType DEF MixRho
  <1>5. PushedStart \in Int /\ PushedCount \in Int
    BY <1>1, PushedType
  <1>6. dF' \in [dFSlots -> Label]
    <2>1. <<n + 1, 0>> \in Label
      BY <1>2 DEF Label
    <2>2. PushedDF \in [dFSlots -> Label]
      BY <1>1, PushedType
    <2>. QED BY <2>1, <2>2 DEF MixRho
  <1>7. beta' \in [dFSlots \X dFSlots -> Label \X Label]
    BY <1>1, <1>5, PushedType, CalBetaType DEF MixRho
  <1>8. coef' \in [Slots -> Coefficients]
    BY <1>1, <1>3, <1>5, PushedType, CalCoefType DEF MixRho
  <1>. QED BY <1>2, <1>3, <1>4, <1>6, <1>7, <1>8 DEF TypeOK, MixRho

\* The differences that cal_coef sees are those of their age, the newest one
\* just completed by the push.
LEMMA PushedDifferences ==
    ASSUME IndInv, MixRho
    PROVE  \A s \in 0 .. PushedCount - 1 :
               PushedDF[s] =
                   Difference(n + 1 - AgeIn(PushedStart, mixing_ndim, s))
  <1>1. TypeOK /\ Counters /\ DifferencesInOrder
    BY DEF IndInv
  <1>2. CASE FirstPush
    BY <1>1, <1>2 DEF FirstPush, PushedCount, Counters, TypeOK, MixingDataType
  <1>3. CASE ~FirstPush
    <2>. DEFINE next == NextSlot(start_dF, mixing_ndim)
    <2>1. /\ PushedStart = next
          /\ PushedDF = [dF EXCEPT ![next] = Minus(dF[next], n + 1)]
      BY <1>3, PushedCounters DEF PushedDF
    <2>2. /\ n \in Nat /\ n > 0
          /\ ndim_cal_dF \in 0 .. mixing_ndim
          /\ start_dF \in -1 .. mixing_ndim - 1
          /\ rho_mdata.ndim_use > 0
          /\ ndim_cal_dF < mixing_ndim => start_dF = ndim_cal_dF - 1
          /\ ndim_cal_dF = mixing_ndim => start_dF >= 0
      BY <1>1, <1>3 DEF FirstPush, Counters, TypeOK, MixingDataType
    <2>3. /\ dF[next] = <<n, 0>>
          /\ \A s \in 0 .. ndim_cal_dF - 1 :
                s # next => dF[s] = Difference(n - AgeIn(start_dF, mixing_ndim, s))
      BY <1>1, <2>2 DEF DifferencesInOrder
    <2>4. next \in dFSlots
      BY <2>2 DEF NextSlot, dFSlots
    <2>5. Minus(dF[next], n + 1) = Difference(n + 1)
      BY <2>2, <2>3 DEF Minus, Difference
    <2>6. PushedDF[next] = Difference(n + 1 - AgeIn(PushedStart, mixing_ndim, next))
      <3>1. AgeIn(next, mixing_ndim, next) = 0
        BY <2>4 DEF AgeIn, dFSlots
      <3>. QED BY <3>1, <2>1, <2>2, <2>4, <2>5 DEF TypeOK, IndInv
    <2>7. ASSUME NEW s \in 0 .. PushedCount - 1, s # next
          PROVE  PushedDF[s] = Difference(n + 1 - AgeIn(PushedStart, mixing_ndim, s))
      <3>1. s \in 0 .. ndim_cal_dF - 1
        BY <1>3, <2>2, <2>7 DEF PushedCount, NextSlot
      <3>2. AgeIn(next, mixing_ndim, s) = AgeIn(start_dF, mixing_ndim, s) + 1
        BY <2>2, <2>7, <3>1 DEF AgeIn, NextSlot
      <3>3. PushedDF[s] = dF[s]
        BY <2>1, <2>2, <2>7, <3>1, <1>1 DEF TypeOK, dFSlots
      <3>4. AgeIn(start_dF, mixing_ndim, s) \in Int
        BY <2>2, <3>1 DEF AgeIn
      <3>5. n + 1 - (AgeIn(start_dF, mixing_ndim, s) + 1)
                = n - AgeIn(start_dF, mixing_ndim, s)
        BY <3>4, <2>2
      <3>. QED BY <2>1, <2>3, <2>7, <3>1, <3>2, <3>3, <3>5
    <2>. QED BY <2>6, <2>7
  <1>. QED BY <1>2, <1>3

\* The products that cal_coef uses are those of the differences it sees, the
\* cached ones included.
LEMMA ProductsFresh ==
    ASSUME IndInv, MixRho,
           NEW i \in 0 .. PushedCount - 1, NEW j \in 0 .. PushedCount - 1,
           i <= j
    PROVE  InnerProduct(PushedDF, PushedStart, <<i, j>>)
               = <<PushedDF[i], PushedDF[j]>>
  <1>1. TypeOK /\ Counters /\ CacheFresh
    BY DEF IndInv
  <1>2. PushedCount \in Int /\ PushedCount <= mixing_ndim
    BY <1>1, PushedType DEF MixRho
  <1>3. CASE i = PushedStart \/ j = PushedStart
    BY <1>3 DEF InnerProduct
  <1>4. CASE i # PushedStart /\ j # PushedStart
    <2>1. InnerProduct(PushedDF, PushedStart, <<i, j>>) = beta[<<i, j>>]
      BY <1>4 DEF InnerProduct
    <2>2. ~FirstPush
      BY <1>1 DEF FirstPush, PushedCount, Counters, TypeOK, MixingDataType
    <2>3. PushedStart = NextSlot(start_dF, mixing_ndim)
      BY <2>2, PushedCounters
    <2>4. i \in 0 .. ndim_cal_dF - 1 /\ j \in 0 .. ndim_cal_dF - 1
      BY <1>1, <1>4, <2>2, <2>3
         DEF PushedCount, NextSlot, Counters, TypeOK, MixingDataType
    <2>5. beta[<<i, j>>] = <<dF[i], dF[j]>>
      BY <1>1, <1>4, <2>3, <2>4 DEF CacheFresh
    <2>6. PushedDF[i] = dF[i] /\ PushedDF[j] = dF[j]
      BY <1>1, <1>2, <1>4, <2>2 DEF PushedDF, TypeOK, dFSlots
    <2>. QED BY <2>1, <2>5, <2>6
  <1>. QED BY <1>3, <1>4

\* cal_coef leaves the newest residual in the slot the next push completes.
LEMMA NextResidual ==
    ASSUME IndInv, MixRho
    PROVE  /\ NextSlot(start_dF', mixing_ndim) \in dFSlots
           /\ dF' = [PushedDF EXCEPT ![NextSlot(start_dF', mixing_ndim)]
                                        = <<n + 1, 0>>]
  <1>1. PushedStart \in -1 .. mixing_ndim - 1
    BY PushedType DEF IndInv, MixRho
  <1>2. dFindexMove(PushedStart, 1) = NextSlot(PushedStart, mixing_ndim)
    BY <1>1 DEF dFindexMove, NextSlot
  <1>3. NextSlot(PushedStart, mixing_ndim) \in dFSlots
    BY <1>1 DEF NextSlot, dFSlots
  <1>. QED BY <1>2, <1>3 DEF MixRho

\* mix_rho keeps the differences in the order of age and the cache fresh.
LEMMA MixRhoDifferences == IndInv /\ MixRho => DifferencesInOrder' /\ CacheFresh'
  <1>. SUFFICES ASSUME IndInv, MixRho PROVE DifferencesInOrder' /\ CacheFresh'
    OBVIOUS
  <1>. DEFINE next == NextSlot(start_dF', mixing_ndim)
  <1>1. /\ n' = n + 1 /\ start_dF' = PushedStart /\ ndim_cal_dF' = PushedCount
        /\ beta' = CalBeta(PushedDF, PushedStart, PushedCount)
    BY DEF MixRho
  <1>2. /\ PushedDF \in [dFSlots -> Label]
        /\ PushedCount \in 0 .. mixing_ndim
    BY PushedType DEF IndInv, MixRho
  <1>3. next \in dFSlots /\ dF' = [PushedDF EXCEPT ![next] = <<n + 1, 0>>]
    BY NextResidual
  <1>. HIDE DEF next
  <1>4. dF'[next] = <<n', 0>>
    BY <1>1, <1>2, <1>3
  <1>5. ASSUME NEW s \in 0 .. PushedCount - 1, s # next
        PROVE  dF'[s] = PushedDF[s]
    BY <1>2, <1>3, <1>5 DEF dFSlots
  <1>6. DifferencesInOrder'
    <2>1. ASSUME NEW s \in 0 .. ndim_cal_dF' - 1, s # next
          PROVE  dF'[s] = Difference(n' - AgeIn(start_dF', mixing_ndim, s))
      <3>1. s \in 0 .. PushedCount - 1
        BY <1>1, <2>1
      <3>2. dF'[s] = PushedDF[s]
        BY <1>5, <2>1, <3>1
      <3>3. PushedDF[s] = Difference(n + 1 - AgeIn(PushedStart, mixing_ndim, s))
        BY <3>1, PushedDifferences
      <3>4. PushedStart \in Int /\ AgeIn(PushedStart, mixing_ndim, s) \in Int
        BY <3>1, PushedType DEF IndInv, MixRho, AgeIn
      <3>5. n' = n + 1 /\ start_dF' = PushedStart /\ n \in Int
        BY <1>1 DEF IndInv, TypeOK
      <3>. QED BY <3>2, <3>3, <3>4, <3>5
    <2>. QED BY <1>4, <2>1 DEF DifferencesInOrder, next
  <1>7. CacheFresh'
    <2>. SUFFICES ASSUME NEW i \in 0 .. PushedCount - 1,
                         NEW j \in 0 .. PushedCount - 1,
                         i <= j, i # next, j # next
                  PROVE  beta'[<<i, j>>] = <<dF'[i], dF'[j]>>
      BY <1>1 DEF CacheFresh, next
    <2>1. beta'[<<i, j>>] = InnerProduct(PushedDF, PushedStart, <<i, j>>)
      <3>1. <<i, j>> \in dFSlots \X dFSlots
        BY <1>2 DEF dFSlots
      <3>2. j < PushedCount
        BY <1>2
      <3>. QED BY <3>1, <3>2, <1>1 DEF CalBeta
    <2>2. InnerProduct(PushedDF, PushedStart, <<i, j>>)
              = <<PushedDF[i], PushedDF[j]>>
      BY ProductsFresh
    <2>. QED BY <2>1, <2>2, <1>5
  <1>. QED BY <1>6, <1>7

\* mix_rho keeps the vectors in the order of age.
LEMMA MixRhoVectors == IndInv /\ MixRho => VectorsInOrder'
  <1>. SUFFICES ASSUME IndInv, MixRho PROVE VectorsInOrder'
    OBVIOUS
  <1>. SUFFICES ASSUME NEW s \in 0 .. rho_mdata'.ndim_use - 1
                PROVE  rho_mdata'.data[s]
                         = n' - AgeIn(rho_mdata'.start, mixing_ndim + 1, s)
    BY DEF VectorsInOrder, UsedSlots
  <1>. DEFINE next == NextSlot(rho_mdata.start, mixing_ndim + 1)
  <1>1. TypeOK /\ Counters /\ VectorsInOrder
    BY DEF IndInv
  <1>2. /\ rho_mdata.start \in -1 .. mixing_ndim
        /\ rho_mdata.ndim_tot = mixing_ndim + 1
        /\ rho_mdata.ndim_use \in 0 .. mixing_ndim + 1
        /\ rho_mdata.ndim_history \in Nat
        /\ rho_mdata.data \in [Slots -> 0 .. MaxVector]
        /\ n \in Nat /\ n' = n + 1
    BY <1>1 DEF TypeOK, MixingDataType, MixRho
  <1>3. (rho_mdata.start + 1) % (mixing_ndim + 1) = next
    BY <1>2 DEF NextSlot
  <1>4. rho_mdata'.start = next /\ next \in Slots
    <2>1. rho_mdata'.start = next
      BY PushedCounters
    <2>2. next \in Slots
      <3>1. mixing_ndim \in Nat /\ rho_mdata.start + 1 \in 0 .. mixing_ndim + 1
        BY <1>2, MixingNdimAssumption
      <3>. QED BY <3>1 DEF NextSlot, Slots
    <2>. QED BY <2>1, <2>2
  <1>5. rho_mdata'.data = [rho_mdata.data EXCEPT ![next] = n + 1]
    BY <1>2, <1>3 DEF MixRho, Push
  <1>6. rho_mdata'.ndim_use = IF rho_mdata.ndim_use < mixing_ndim + 1
                              THEN rho_mdata.ndim_use + 1 ELSE mixing_ndim + 1
    BY <1>2 DEF MixRho, Push
  <1>7. s \in Slots
    BY <1>2, <1>6 DEF Slots
  <1>8. CASE s = next
    <2>1. AgeIn(next, mixing_ndim + 1, next) = 0
      BY <1>4 DEF AgeIn, Slots
    <2>2. rho_mdata'.data[s] = n + 1
      BY <1>2, <1>5, <1>7, <1>8
    <2>. QED BY <2>1, <2>2, <1>2, <1>4, <1>8
  <1>9. CASE s # next
    <2>1. s \in 0 .. rho_mdata.ndim_use - 1
      BY <1>1, <1>2, <1>6, <1>9 DEF NextSlot, Counters
    <2>2. AgeIn(next, mixing_ndim + 1, s)
              = AgeIn(rho_mdata.start, mixing_ndim + 1, s) + 1
      BY <1>1, <1>2, <1>9, <2>1 DEF AgeIn, NextSlot, Counters
    <2>3. rho_mdata.data[s] = n - AgeIn(rho_mdata.start, mixing_ndim + 1, s)
      BY <1>1, <2>1 DEF VectorsInOrder, UsedSlots
    <2>4. rho_mdata'.data[s] = rho_mdata.data[s]
      BY <1>2, <1>5, <1>7, <1>9
    <2>5. AgeIn(rho_mdata.start, mixing_ndim + 1, s) \in Int
      BY <1>2, <2>1 DEF AgeIn
    <2>. QED BY <2>2, <2>3, <2>4, <2>5, <1>2, <1>4
  <1>. QED BY <1>8, <1>9

\* A difference of every age below the count is in the ring.
LEMMA SlotOfAge ==
    ASSUME IndInv, MixRho, NEW age \in 0 .. PushedCount - 1
    PROVE  \E s \in 0 .. PushedCount - 1 :
               /\ AgeIn(PushedStart, mixing_ndim, s) = age
               /\ s = dFindexMove(PushedStart, -age)
  <1>1. /\ PushedStart \in -1 .. mixing_ndim - 1
        /\ PushedCount \in 0 .. mixing_ndim
    BY PushedType DEF IndInv, MixRho
  <1>2. /\ PushedCount < mixing_ndim => PushedStart = PushedCount - 1
        /\ PushedCount = mixing_ndim => PushedStart >= 0
    BY PushedCounters DEF Counters, MixRho
  <1>. DEFINE s == IF age <= PushedStart THEN PushedStart - age
                   ELSE PushedStart + mixing_ndim - age
  <1>3. s \in 0 .. PushedCount - 1
    BY <1>1, <1>2
  <1>4. AgeIn(PushedStart, mixing_ndim, s) = age
    BY <1>1, <1>2 DEF AgeIn
  <1>5. dFindexMove(PushedStart, -age) = s
    BY <1>1, <1>2 DEF dFindexMove
  <1>. QED BY <1>3, <1>4, <1>5

\* Ages of the differences in the ring are below their number.
LEMMA AgeRange ==
    ASSUME IndInv, MixRho, NEW s \in 0 .. PushedCount - 1
    PROVE  AgeIn(PushedStart, mixing_ndim, s) \in 0 .. PushedCount - 1
  <1>1. /\ PushedStart \in -1 .. mixing_ndim - 1
        /\ PushedCount \in 0 .. mixing_ndim
    BY PushedType DEF IndInv, MixRho
  <1>2. /\ PushedCount < mixing_ndim => PushedStart = PushedCount - 1
        /\ PushedCount = mixing_ndim => PushedStart >= 0
    BY PushedCounters DEF Counters, MixRho
  <1>. QED BY <1>1, <1>2 DEF AgeIn

\* The linear system that mix_rho solves is fresh.
LEMMA MixRhoDsysv == IndInv /\ MixRho => DsysvFresh'
  <1>. SUFFICES ASSUME IndInv, MixRho PROVE DsysvFresh'
    OBVIOUS
  <1>0. /\ n' = n + 1 /\ ndim_cal_dF' = PushedCount
        /\ n \in Int /\ PushedCount \in Int
    BY PushedType DEF IndInv, MixRho, TypeOK
  <1>. SUFFICES ASSUME PushedCount > 0
                PROVE  /\ \A p \in DOMAIN dsysv'.a :
                              dsysv'.a[p] = <<dsysv'.c[p[1]][1], dsysv'.c[p[2]][1]>>
                       /\ {dsysv'.c[i] : i \in 0 .. PushedCount - 1}
                            = {<<Difference(k), n + 1>> :
                                   k \in n + 1 - PushedCount + 1 .. n + 1}
    BY <1>0 DEF DsysvFresh, Difference
  <1>. DEFINE Pairs == {q \in dFSlots \X dFSlots : q[1] <= q[2] /\ q[2] < PushedCount}
  <1>1. PushedCount \in 0 .. mixing_ndim /\ n \in Nat
    BY PushedType DEF IndInv, MixRho, TypeOK
  <1>2. dsysv' = [a |-> [p \in Pairs |-> InnerProduct(PushedDF, PushedStart, p)],
                  c |-> [i \in 0 .. PushedCount - 1 |-> <<PushedDF[i], n + 1>>]]
    BY DEF MixRho, System
  <1>3. ASSUME NEW i \in 0 .. PushedCount - 1
        PROVE  dsysv'.c[i] = <<PushedDF[i], n + 1>>
    BY <1>2
  <1>4. ASSUME NEW p \in DOMAIN dsysv'.a
        PROVE  dsysv'.a[p] = <<dsysv'.c[p[1]][1], dsysv'.c[p[2]][1]>>
    <2>1. p \in Pairs /\ dsysv'.a[p] = InnerProduct(PushedDF, PushedStart, p)
      BY <1>2
    <2>2. /\ p = <<p[1], p[2]>> /\ p[1] <= p[2]
          /\ p[1] \in 0 .. PushedCount - 1 /\ p[2] \in 0 .. PushedCount - 1
      BY <1>1, <2>1 DEF dFSlots
    <2>3. InnerProduct(PushedDF, PushedStart, <<p[1], p[2]>>)
              = <<PushedDF[p[1]], PushedDF[p[2]]>>
      BY <2>2, ProductsFresh
    <2>. QED BY <2>1, <2>2, <2>3, <1>3
  <1>5. ASSUME NEW i \in 0 .. PushedCount - 1
        PROVE  \E k \in n + 1 - PushedCount + 1 .. n + 1 :
                   dsysv'.c[i] = <<Difference(k), n + 1>>
    <2>1. AgeIn(PushedStart, mixing_ndim, i) \in 0 .. PushedCount - 1
      BY AgeRange
    <2>2. PushedDF[i] = Difference(n + 1 - AgeIn(PushedStart, mixing_ndim, i))
      BY PushedDifferences
    <2>. QED BY <2>1, <2>2, <1>1, <1>3
  <1>6. ASSUME NEW k \in n + 1 - PushedCount + 1 .. n + 1
        PROVE  \E i \in 0 .. PushedCount - 1 :
                   dsysv'.c[i] = <<Difference(k), n + 1>>
    <2>1. n + 1 - k \in 0 .. PushedCount - 1
      BY <1>1
    <2>2. PICK i \in 0 .. PushedCount - 1 :
              AgeIn(PushedStart, mixing_ndim, i) = n + 1 - k
      BY <2>1, SlotOfAge
    <2>3. PushedDF[i] = Difference(n + 1 - AgeIn(PushedStart, mixing_ndim, i))
      BY PushedDifferences
    <2>4. n + 1 - (n + 1 - k) = k
      BY <1>1
    <2>. QED BY <2>2, <2>3, <2>4, <1>3
  <1>. QED BY <1>4, <1>5, <1>6

\* mix_rho keeps the inductive invariant.
LEMMA MixRhoIndInv == IndInv /\ MixRho => IndInv'
  <1>. SUFFICES ASSUME IndInv, MixRho PROVE IndInv'
    OBVIOUS
  <1>1. TauInStep'
    BY DEF IndInv, TauInStep, MixRho
  <1>. QED BY <1>1, MixRhoType, PushedCounters, MixRhoVectors,
              MixRhoDifferences, MixRhoDsysv DEF IndInv

\* A stuttering step keeps the inductive invariant.
LEMMA StutterIndInv == IndInv /\ UNCHANGED vars => IndInv'
  BY DEF vars, IndInv, TypeOK, Counters, VectorsInOrder, DifferencesInOrder,
         CacheFresh, TauInStep, DsysvFresh

\* The inductive invariant holds in every reachable state.
LEMMA Inductive == Spec => []IndInv
  <1>1. IndInv /\ [Next]_vars => IndInv'
    BY InitMixingIndInv, MixResetIndInv, MixRhoIndInv, StutterIndInv DEF Next
  <1>. QED BY InitIndInv, <1>1, PTL DEF Spec

\* The state of the mixing object is always well typed.
THEOREM TypeCorrect == Spec => []TypeOK
  BY Inductive, PTL DEF IndInv

\* DSYSV never sees a stale inner product, and always the differences of the
\* last consecutive residuals.
THEOREM SystemFresh == Spec => []DsysvFresh
  BY Inductive, PTL DEF IndInv

\* The kinetic energy density is mixed exactly as the charge density is.
THEOREM TauMixedAlike == Spec => []TauFollowsRho
  <1>1. IndInv => TauFollowsRho
    BY DEF IndInv, TauInStep, TauFollowsRho
  <1>. QED BY Inductive, <1>1, PTL

-----------------------------------------------------------------------------
\* Broyden_Mixing implements AndersonMixing: restarts map to Restart and
\* mix_rho maps to Mix.

\* init_mixing and mix_reset map to Restart.
LEMMA RestartMaps ==
    ASSUME IndInv, InitMixing \/ MixReset
    PROVE  Anderson!Restart
  <1>1. n \in Int /\ n' = n /\ rho_out' = rho_out
    BY DEF IndInv, TypeOK, InitMixing, MixReset
  <1>2. rho_mdata'.ndim_history = 0
    BY DEF InitMixing, MixReset, Resize, ResetData
  <1>. QED BY <1>1, <1>2 DEF Anderson!Restart

\* The coefficient that cal_coef gives to a slot is that of its vector.
LEMMA CoefFits ==
    ASSUME IndInv, MixRho, ~FirstPush, NEW s \in 0 .. PushedCount
    PROVE  /\ rho_mdata'.data[s] \in n + 1 - PushedCount .. n + 1
           /\ coef'[s] = Anderson!Coefficient(rho_mdata'.data[s],
                                              n + 1 - PushedCount, n + 1)
  <1>. DEFINE age == AgeIn(rho_mdata'.start, mixing_ndim + 1, s)
              v   == rho_mdata'.data[s]
  <1>1. /\ TypeOK /\ Counters
        /\ TypeOK' /\ Counters' /\ VectorsInOrder'
    BY MixRhoIndInv DEF IndInv
  <1>2. /\ n \in Int /\ n' = n + 1
        /\ PushedCount \in 1 .. mixing_ndim
        /\ rho_mdata'.ndim_use = PushedCount + 1
        /\ rho_mdata'.start \in -1 .. mixing_ndim
        /\ rho_mdata'.ndim_tot = mixing_ndim + 1
        /\ PushedCount < mixing_ndim => rho_mdata'.start = PushedCount
        /\ PushedCount = mixing_ndim => rho_mdata'.start >= 0
    <2>1. PushedCount \in 1 .. mixing_ndim
      BY <1>1 DEF PushedCount, FirstPush, Counters, TypeOK, MixingDataType
    <2>2. rho_mdata'.ndim_use = PushedCount + 1
      BY PushedCounters
    <2>3. /\ n \in Int /\ n' = n + 1
          /\ rho_mdata'.start \in -1 .. mixing_ndim
          /\ rho_mdata'.ndim_tot = mixing_ndim + 1
          /\ rho_mdata'.ndim_history \in Nat
      BY <1>1 DEF TypeOK, MixingDataType, MixRho
    <2>. QED BY <1>1, <2>1, <2>2, <2>3 DEF Counters
  <1>3. age \in 0 .. PushedCount
    BY <1>2 DEF AgeIn
  <1>4. v = n + 1 - age
    <2>1. s \in UsedSlots(rho_mdata')
      BY <1>2 DEF UsedSlots
    <2>2. v = n' - age
      BY <1>1, <2>1 DEF VectorsInOrder, UsedSlots
    <2>. QED BY <1>2, <1>3, <2>2
  <1>5. Age(rho_mdata', s) = age
    <2>1. Age(rho_mdata', s)
              = (rho_mdata'.start - s + (mixing_ndim + 1)) % (mixing_ndim + 1)
      BY <1>2 DEF Age
    <2>2. s \in 0 .. mixing_ndim /\ rho_mdata'.start \in -1 .. mixing_ndim
      BY <1>2
    <2>3. (rho_mdata'.start - s + (mixing_ndim + 1)) % (mixing_ndim + 1)
              = AgeIn(rho_mdata'.start, mixing_ndim + 1, s)
      BY <2>2, AgeByModulo
    <2>. QED BY <2>1, <2>3
  <1>6. coef'[s] = CoefOfAge(PushedDF, PushedStart, PushedCount, age)
    <2>1. s \in Slots /\ PushedCount # 0 /\ age <= PushedCount
      BY <1>2, <1>3 DEF Slots
    <2>2. coef' = CalCoef(rho_mdata', PushedDF, PushedStart, PushedCount)
      BY DEF MixRho
    <2>. HIDE DEF age
    <2>. QED BY <2>1, <2>2, <1>5 DEF CalCoef
  <1>7. ASSUME NEW i \in 0 .. PushedCount - 1
        PROVE  Gamma(PushedDF, PushedStart, i) = Difference(n + 1 - i)
    <2>1. PICK d \in 0 .. PushedCount - 1 :
              /\ AgeIn(PushedStart, mixing_ndim, d) = i
              /\ d = dFindexMove(PushedStart, -i)
      BY SlotOfAge
    <2>2. PushedDF[d] = Difference(n + 1 - i)
      BY <2>1, PushedDifferences
    <2>. QED BY <2>1, <2>2 DEF Gamma
  <1>. HIDE DEF age, v
  <1>8. age < PushedCount => Gamma(PushedDF, PushedStart, age) = Difference(v)
    BY <1>2, <1>3, <1>4, <1>7
  <1>9. age > 0 => Gamma(PushedDF, PushedStart, age - 1) = Difference(v + 1)
    <2>1. SUFFICES ASSUME age > 0
                   PROVE  Gamma(PushedDF, PushedStart, age - 1) = Difference(v + 1)
      OBVIOUS
    <2>2. age - 1 \in 0 .. PushedCount - 1 /\ n + 1 - (age - 1) = v + 1
      BY <1>2, <1>3, <1>4, <2>1
    <2>3. Gamma(PushedDF, PushedStart, age - 1) = Difference(n + 1 - (age - 1))
      BY <2>2, <1>7
    <2>. QED BY <2>2, <2>3
  <1>10. v \in n + 1 - PushedCount .. n + 1
    BY <1>2, <1>3, <1>4
  <1>11. /\ age = 0 <=> v = n + 1
         /\ age < PushedCount <=> v > n + 1 - PushedCount
         /\ age > 0 <=> v < n + 1
    BY <1>2, <1>3, <1>4
  <1>12. CoefOfAge(PushedDF, PushedStart, PushedCount, age)
             = Anderson!Coefficient(v, n + 1 - PushedCount, n + 1)
    BY <1>8, <1>9, <1>11
       DEF CoefOfAge, Anderson!Coefficient, Difference, Anderson!Difference,
           NoDifference, Anderson!NoDifference
  <1>. QED BY <1>6, <1>10, <1>12 DEF v

\* The oldest vector of the specification is the oldest one of the ring.
LEMMA OldestInRing ==
    ASSUME IndInv, MixRho
    PROVE  Anderson!Oldest(n + 1) = n + 1 - PushedCount
  <1>1. TypeOK /\ Counters
    BY DEF IndInv
  <1>2. /\ n \in Int /\ rho_mdata.ndim_history \in Nat
        /\ ndim_cal_dF \in 0 .. mixing_ndim
        /\ rho_mdata.ndim_use \in Nat
    BY <1>1 DEF TypeOK, MixingDataType
  <1>3. PushedCount = IF rho_mdata.ndim_history <= mixing_ndim
                      THEN rho_mdata.ndim_history ELSE mixing_ndim
    BY <1>1, <1>2 DEF PushedCount, FirstPush, Counters
  <1>. QED BY <1>2, <1>3 DEF Anderson!Oldest

\* mix_rho maps to Mix.
LEMMA MixRhoMaps ==
    ASSUME IndInv, MixRho
    PROVE  Anderson!Mix
  <1>. DEFINE lo == n + 1 - PushedCount
              Result == {<<v, Anderson!Coefficient(v, lo, n + 1)>> : v \in lo .. n + 1}
  <1>1. /\ n \in Int /\ n' = n + 1 /\ n < MaxVector
        /\ PushedCount \in 0 .. mixing_ndim
        /\ rho_mdata.ndim_history \in Int
        /\ rho_mdata'.ndim_history = rho_mdata.ndim_history + 1
    BY PushedType, PushedCounters DEF IndInv, TypeOK, MixingDataType, MixRho
  <1>2. rho_out' = Result
    <2>1. rho_mdata'.ndim_use = PushedCount + 1
      BY PushedCounters
    <2>2. rho_out' = MixData(rho_mdata', coef')
      BY DEF MixRho
    <2>3. VectorsInOrder' /\ Counters' /\ TypeOK'
      BY MixRhoIndInv DEF IndInv
    <2>4. CASE FirstPush
      <3>1. PushedCount = 0
        BY <2>4 DEF PushedCount, FirstPush, IndInv, Counters, TypeOK, MixingDataType
      <3>2. rho_mdata'.start = 0 /\ rho_mdata'.ndim_use = 1
        BY <2>1, <2>3, <3>1 DEF Counters, TypeOK, MixingDataType
      <3>3. rho_mdata'.data[0] = n + 1
        BY <2>3, <3>2, <1>1 DEF VectorsInOrder, UsedSlots, AgeIn
      <3>4. rho_out' = {<<n + 1, One>>}
        BY <2>2, <3>2, <3>3 DEF MixData
      <3>5. lo = n + 1 /\ lo .. n + 1 = {n + 1}
        BY <1>1, <3>1
      <3>6. Anderson!Coefficient(n + 1, n + 1, n + 1) = One
        BY <1>1 DEF Anderson!Coefficient, One, NoDifference, Anderson!NoDifference
      <3>. QED BY <3>4, <3>5, <3>6
    <2>5. CASE ~FirstPush
      <3>1. PushedCount > 0
        BY <1>1, <2>5 DEF PushedCount, FirstPush, IndInv, TypeOK, MixingDataType
      <3>2. rho_out' = {<<rho_mdata'.data[s], coef'[s]>> : s \in 0 .. PushedCount}
        BY <1>1, <2>1, <2>2, <3>1 DEF MixData, UsedSlots
      <3>3. ASSUME NEW s \in 0 .. PushedCount
            PROVE  <<rho_mdata'.data[s], coef'[s]>> \in Result
        BY <2>5, CoefFits
      <3>4. ASSUME NEW v \in lo .. n + 1
            PROVE  \E s \in 0 .. PushedCount : rho_mdata'.data[s] = v
        <4>. DEFINE age == n + 1 - v
                    s == IF age <= rho_mdata'.start THEN rho_mdata'.start - age
                         ELSE rho_mdata'.start + (mixing_ndim + 1) - age
        <4>1. age \in 0 .. PushedCount
          BY <1>1
        <4>2. /\ rho_mdata'.start \in -1 .. mixing_ndim
              /\ PushedCount < mixing_ndim => rho_mdata'.start = PushedCount
              /\ PushedCount = mixing_ndim => rho_mdata'.start >= 0
          <5>1. /\ rho_mdata'.start \in -1 .. mixing_ndim
                /\ rho_mdata'.ndim_history \in Nat
            BY <2>3 DEF TypeOK, MixingDataType
          <5>. QED BY <1>1, <2>1, <2>3, <5>1 DEF Counters
        <4>3. s \in 0 .. PushedCount /\ AgeIn(rho_mdata'.start, mixing_ndim + 1, s) = age
          BY <1>1, <4>1, <4>2 DEF AgeIn
        <4>4. rho_mdata'.data[s] = n + 1 - age
          BY <1>1, <2>1, <2>3, <4>3 DEF VectorsInOrder, UsedSlots
        <4>. QED BY <1>1, <4>3, <4>4
      <3>5. ASSUME NEW v \in lo .. n + 1
            PROVE  <<v, Anderson!Coefficient(v, lo, n + 1)>> \in rho_out'
        <4>1. PICK s \in 0 .. PushedCount : rho_mdata'.data[s] = v
          BY <3>4
        <4>2. coef'[s] = Anderson!Coefficient(v, lo, n + 1)
          BY <2>5, <4>1, CoefFits
        <4>. QED BY <3>2, <4>1, <4>2
      <3>. QED BY <3>2, <3>3, <3>5
    <2>. QED BY <2>4, <2>5
  <1>3. Anderson!Oldest(n + 1) = lo
    BY OldestInRing
  <1>4. n' + 1 - rho_mdata'.ndim_history = n + 1 - rho_mdata.ndim_history
    BY <1>1
  <1>. QED BY <1>1, <1>2, <1>3, <1>4 DEF Anderson!Mix

\* Rings, cache and restarts are invisible: every behaviour of the mixing
\* object is one of AndersonMixing.
THEOREM Refinement == Spec => ImplementsAnderson
  <1>1. Init => Anderson!Init
    BY DEF Init, Anderson!Init, Resize
  <1>2. IndInv /\ [Next]_vars => [Anderson!Next]_Anderson!vars
    <2>1. CASE UNCHANGED vars
      BY <2>1 DEF vars, Anderson!vars
    <2>. QED BY <2>1, RestartMaps, MixRhoMaps DEF Next, Anderson!Next
  <1>. QED BY <1>1, <1>2, Inductive, PTL DEF Spec, ImplementsAnderson, Anderson!Spec
=============================================================================
