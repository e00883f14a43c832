---------------------------- MODULE ScfMpi_proof ----------------------------
(***************************************************************************)
(* Proofs about what the processes of a run do together, for any number of *)
(* processes, groups, pools and k points.  ScfMpi: the members of a        *)
(* communicator call the same collectives on it.  ChargeMpi: the density   *)
(* that they sum is that of every pool, once.                              *)
(***************************************************************************)
EXTENDS ScfMpi, ChargeMpi, ProcessGroups_proof, FiniteSetTheorems, SequenceTheorems

-----------------------------------------------------------------------------
(* Sequences of collectives as one communicator sees them *)

Whats == {"rho", "fftixy2is", "barrier", "demet", "eband", "psi", "ekb", "emax", "KS_ne",
          "sto_ne", "precision", "stodemet", "sto_eband", "sto_rho", "drho", "conv_elec"}

\* Only the processes of PARAPW_WORLD broadcast to each other, and INTER_POOL
\* exists between even pools only.
Operation == {op \in [comm : Names, what : Whats, bcast : BOOLEAN] :
                 /\ op.bcast => op.comm = "PARAPW_WORLD"
                 /\ op.comm = "INTER_POOL" => EvenPools(case)}

\* Operations before the results, within a group, and between the groups
BodyOp == {op \in Operation :
              /\ op.what # "conv_elec"
              /\ op.bcast => op.what \in {"psi", "ekb", "eband"}}

GroupOp == {op \in BodyOp : op.comm \in {"STO_WORLD", "POOL_WORLD", "INTER_POOL"}}

ParapwOp == {op \in BodyOp : op.comm = "PARAPW_WORLD"}

\* The calls on a communicator among the first k of ops
Places(name, ops, k) == {j \in 1 .. k : ops[j].comm = name}
Count(name, ops, k)  == Cardinality(Places(name, ops, k))
CountAll(name, ops)  == Count(name, ops, Len(ops))

\* Two processes call the same operations on a communicator.
Alike(name, a, b) ==
    /\ CountAll(name, a) = CountAll(name, b)
    /\ \A j \in 1 .. Len(a), l \in 1 .. Len(b) :
          /\ a[j].comm = name /\ b[l].comm = name
          /\ Count(name, a, j) = Count(name, b, l)
          => a[j] = b[l]

\* No operation of ops is on the communicator.
Silent(name, ops) == \A j \in 1 .. Len(ops) : ops[j].comm # name

-----------------------------------------------------------------------------
(* What a process has called *)

\* The operations of iteration i, without and with the results
Body(r, i) ==
    Hamilt2Density(r) \o GetDrho(r)
    \o When(i = 1 /\ case.ESOLVER_TYPE = "ksdft" /\ redo[Pool(r)],
            Hamilt2Density(r) \o GetDrho(r))

Script(r, i) == Body(r, i) \o Results

\* The number of calls on a communicator before iteration i
Before(name, r, i) ==
    IF i <= 1 THEN 0
    ELSE CountAll(name, Script(r, 1)) + (i - 2) * CountAll(name, Script(r, 2))

\* The n-th call on the communicator was operation j of iteration i.
CalledAt(r, name, n, i, j) ==
    LET op == Script(r, i)[j]
        e  == called[r][name][n]
    IN  /\ op.comm = name /\ n = Before(name, r, i) + Count(name, Script(r, i), j)
        /\ e.what = op.what
        /\ e.what = "conv_elec" => e.content \in BOOLEAN
        /\ e.what = "rho" => e.content \in Densities
        /\ op.bcast /\ e.what = "rho" /\ Group(r) = 0 => e.content = OwnRho(r, i)

\* The calls of r are the first k of iteration i and all of the iterations before.
Logged(r, i, k) ==
    \A name \in Names :
        /\ Len(called[r][name]) = Before(name, r, i) + Count(name, Script(r, i), k)
        /\ \A n \in 1 .. Len(called[r][name]) :
              \E i1 \in 1 .. i : \E j1 \in 1 .. Len(Script(r, i1)) :
                  CalledAt(r, name, n, i1, j1)

SettingsInv ==
    /\ case \in Cases
    /\ comm = [r \in Procs |-> Split(r)]
    /\ redo \in [Pools -> BOOLEAN] /\ Agree(redo)
    /\ case.ESOLVER_TYPE = "sdft" => \A p \in Pools : ~redo[p]

\* An entry of a communicator's calls
Entry == [what : Whats, content : BOOLEAN \cup Densities \cup {{}}]

ControlInv ==
    /\ iter \in [Procs -> 0 .. case.SCF_NMAX]
    /\ todo \in [Procs -> Seq(Operation)]
    /\ called \in [Procs -> [Names -> Seq(Entry)]]
    /\ conv_elec \in [Procs -> BOOLEAN]
    /\ left \subseteq Procs
    /\ \A r \in Procs :
        /\ iter[r] = case.SCF_NMAX /\ todo[r] = <<>> => r \in left
        /\ iter[r] = 0 => /\ todo[r] = <<>>
                          /\ \A name \in Names : called[r][name] = <<>>

\* In iteration i: k of its operations have been called, and the rest is left
\* to call, with the one the process is in.
InIteration(r, i) ==
    \E k \in 1 .. Len(Script(r, i)) :
        /\ Logged(r, i, k)
        /\ \/ todo[r] = <<>> /\ k = Len(Script(r, i))
           \/ /\ Len(todo[r]) = Len(Script(r, i)) - k + 1
              /\ \A q \in 1 .. Len(todo[r]) : todo[r][q] = Script(r, i)[k - 1 + q]

CallsInv ==
    \A r \in Procs : \A i \in 1 .. case.SCF_NMAX : iter[r] = i => InIteration(r, i)

\* The first group keeps the density of the iteration, the others receive that
\* of the first spin.
RhoInv ==
    /\ rho \in [Procs -> [1 .. case.NSPIN -> Densities]]
    /\ \A r \in Procs : \A i \in 1 .. case.SCF_NMAX : iter[r] = i =>
        /\ Group(r) = 0 => \A is \in 1 .. case.NSPIN : rho[r][is] = OwnRho(r, i)
        /\ todo[r] = <<>> =>
              rho[r][1] = [iter |-> i, part |-> RANK_IN_STOGROUP(case, r)]

IInv == SettingsInv /\ ControlInv /\ CallsInv /\ RhoInv

\* A stochastic run of several groups has one density to symmetrize or no
\* symmetry: otherwise the first group calls more barriers than the others
\* (run scf_mpi_symmetry).
GroupsSymmetrizeAlike(c) ==
    c.NSTOGROUP > 1 /\ c.symm_flag => c.NSPIN = 1 /\ ~c.meta_gga

-----------------------------------------------------------------------------
(* Counting *)

\* Count grows by one at each call on the communicator and nowhere else.
LEMMA CountStep ==
    ASSUME NEW name, NEW S, NEW ops \in Seq(S), NEW k \in Nat
    PROVE  /\ IsFiniteSet(Places(name, ops, k))
           /\ Count(name, ops, k) \in Nat
           /\ Count(name, ops, 0) = 0
           /\ Count(name, ops, k + 1)
                = IF ops[k + 1].comm = name THEN Count(name, ops, k) + 1
                                            ELSE Count(name, ops, k)
<1>1. \A i \in Nat : IsFiniteSet(Places(name, ops, i))
  <2> SUFFICES ASSUME NEW i \in Nat PROVE IsFiniteSet(Places(name, ops, i))
    OBVIOUS
  <2>1. IsFiniteSet(1 .. i)
    BY FS_Interval
  <2>2. Places(name, ops, i) \in SUBSET (1 .. i)
    BY DEF Places
  <2> QED
    BY <2>1, <2>2, FS_Subset
<1>2. Count(name, ops, k) \in Nat
  BY <1>1, FS_CardinalityType DEF Count
<1>3. Count(name, ops, 0) = 0
  <2>1. Places(name, ops, 0) = {}
    BY DEF Places
  <2> QED
    BY <2>1, FS_EmptySet DEF Count
<1>4. CASE ops[k + 1].comm = name
  <2>1. /\ Places(name, ops, k + 1) = Places(name, ops, k) \cup {k + 1}
        /\ k + 1 \notin Places(name, ops, k)
    BY <1>4 DEF Places
  <2> QED
    BY <1>1, <1>2, <1>3, <1>4, <2>1, FS_AddElement DEF Count
<1>5. CASE ops[k + 1].comm # name
  <2>1. Places(name, ops, k + 1) = Places(name, ops, k)
    BY <1>5 DEF Places
  <2> QED
    BY <1>1, <1>2, <1>3, <1>5, <2>1 DEF Count
<1> QED
  BY <1>4, <1>5

\* A later place has a higher count, if it is a call on the communicator.
LEMMA CountGrows ==
    ASSUME NEW name, NEW S, NEW ops \in Seq(S), NEW k \in Nat, NEW l \in Nat, k < l
    PROVE  /\ Count(name, ops, k) <= Count(name, ops, l)
           /\ ops[l].comm = name => Count(name, ops, k) < Count(name, ops, l)
<1>1. /\ IsFiniteSet(Places(name, ops, k)) /\ IsFiniteSet(Places(name, ops, l))
      /\ Count(name, ops, k) \in Nat /\ Count(name, ops, l) \in Nat
  BY CountStep
<1>2. Places(name, ops, k) \in SUBSET Places(name, ops, l)
  BY DEF Places
<1>3. /\ Count(name, ops, k) <= Count(name, ops, l)
      /\ Count(name, ops, k) = Count(name, ops, l)
         => Places(name, ops, k) = Places(name, ops, l)
  BY <1>1, <1>2, FS_Subset DEF Count
<1>4. ops[l].comm = name => l \in Places(name, ops, l) \ Places(name, ops, k)
  BY DEF Places
<1> QED
  BY <1>1, <1>3, <1>4

\* The counts of a concatenation begin as those of its first part.
LEMMA CountInFirst ==
    ASSUME NEW name, NEW S, NEW a \in Seq(S), NEW b \in Seq(S), NEW k \in 0 .. Len(a)
    PROVE  Count(name, a \o b, k) = Count(name, a, k)
<1>1. \A i \in 1 .. k : (a \o b)[i] = a[i]
  OBVIOUS
<1>2. Places(name, a \o b, k) = Places(name, a, k)
  BY <1>1 DEF Places
<1> QED
  BY <1>2 DEF Count

\* The counts of the second part go on from the first.
LEMMA CountConcat ==
    ASSUME NEW name, NEW S, NEW a \in Seq(S), NEW b \in Seq(S)
    PROVE  /\ \A k \in 0 .. Len(b) : Count(name, a \o b, Len(a) + k)
                                       = CountAll(name, a) + Count(name, b, k)
           /\ CountAll(name, a \o b) = CountAll(name, a) + CountAll(name, b)
<1>0. /\ a \o b \in Seq(S) /\ Len(a \o b) = Len(a) + Len(b)
      /\ \A i \in 1 .. Len(a) + Len(b) :
            (a \o b)[i] = IF i <= Len(a) THEN a[i] ELSE b[i - Len(a)]
      /\ Len(a) \in Nat /\ Len(b) \in Nat
  OBVIOUS
<1>2. ASSUME NEW k \in 0 .. Len(b)
      PROVE  Count(name, a \o b, Len(a) + k) = CountAll(name, a) + Count(name, b, k)
  <2> DEFINE A == Places(name, a, Len(a))
             B == Places(name, b, k)
             T == {i \in Len(a) + 1 .. Len(a) + k : b[i - Len(a)].comm = name}
             f == [i \in B |-> Len(a) + i]
  <2>1. IsFiniteSet(A) /\ IsFiniteSet(B)
    <3>1. Len(a) \in Nat /\ k \in Nat
      BY <1>0
    <3> QED
      BY <3>1, CountStep
  <2>2. f \in Bijection(B, T)
    <3>1. f \in [B -> T]
      BY <1>0 DEF Places
    <3>2. \A i, j \in B : f[i] = f[j] => i = j
      BY <1>0 DEF Places
    <3>3. \A t \in T : \E i \in B : f[i] = t
      <4> SUFFICES ASSUME NEW t \in T PROVE \E i \in B : f[i] = t
        OBVIOUS
      <4>1. t - Len(a) \in B /\ f[t - Len(a)] = t
        BY <1>0 DEF Places
      <4> QED
        BY <4>1
    <3> QED
      BY <3>1, <3>2, <3>3 DEF Bijection, Injection, Surjection, IsInjective
  <2>3. IsFiniteSet(T) /\ Cardinality(T) = Cardinality(B)
    BY <2>1, <2>2, FS_Bijection DEF ExistsBijection
  <2>4. \A i \in 1 .. Len(a) + k :
            (a \o b)[i] = IF i <= Len(a) THEN a[i] ELSE b[i - Len(a)]
    BY <1>0
  <2>5. Places(name, a \o b, Len(a) + k) = A \cup T /\ A \cap T = {}
    BY <1>0, <2>4 DEF Places
  <2> HIDE DEF A, B, T, f
  <2>6. Cardinality(A \cup T) = Cardinality(A) + Cardinality(T)
    <3>1. Cardinality(A) \in Nat /\ Cardinality(T) \in Nat /\ Cardinality({}) = 0
      BY <2>1, <2>3, FS_CardinalityType, FS_EmptySet
    <3>2. Cardinality(A \cup T) = Cardinality(A) + Cardinality(T) - Cardinality(A \cap T)
      BY <2>1, <2>3, FS_Union
    <3>3. Cardinality(A \cap T) = 0
      BY <2>5, <3>1, Zenon
    <3> QED
      BY <3>1, <3>2, <3>3
  <2> QED
    BY <2>3, <2>5, <2>6 DEF Count, CountAll, A, B
<1>3. CountAll(name, a \o b) = CountAll(name, a) + CountAll(name, b)
  <2>1. Len(b) \in 0 .. Len(b)
    BY <1>0
  <2> QED
    BY <1>0, <1>2, <2>1 DEF CountAll
<1> QED
  BY <1>2, <1>3

-----------------------------------------------------------------------------
(* Sequences that are alike on a communicator *)

\* A sequence is alike itself: a call is told by its number on the communicator.
LEMMA AlikeRefl ==
    ASSUME NEW name, NEW S, NEW a \in Seq(S)
    PROVE  Alike(name, a, a)
<1>1. ASSUME NEW j \in 1 .. Len(a), NEW l \in 1 .. Len(a),
             a[j].comm = name, a[l].comm = name, Count(name, a, j) = Count(name, a, l)
      PROVE  j = l
  <2>1. j \in Nat /\ l \in Nat
    OBVIOUS
  <2>2. Count(name, a, j) \in Nat /\ Count(name, a, l) \in Nat
    BY <2>1, CountStep
  <2>3. ASSUME j < l PROVE FALSE
    <3>1. Count(name, a, j) < Count(name, a, l)
      BY <1>1, <2>1, <2>3, CountGrows
    <3> QED
      BY <1>1, <2>2, <3>1
  <2>4. ASSUME l < j PROVE FALSE
    <3>1. Count(name, a, l) < Count(name, a, j)
      BY <1>1, <2>1, <2>4, CountGrows
    <3> QED
      BY <1>1, <2>2, <3>1
  <2> QED
    BY <2>1, <2>3, <2>4
<1> QED
  BY <1>1 DEF Alike

\* Sequences without a call on it are alike.
LEMMA AlikeSilent ==
    ASSUME NEW name, NEW S, NEW a \in Seq(S), NEW b \in Seq(S),
           Silent(name, a), Silent(name, b)
    PROVE  Alike(name, a, b)
<1>1. ASSUME NEW c \in Seq(S), Silent(name, c)
      PROVE  CountAll(name, c) = 0
  <2>1. Places(name, c, Len(c)) = {}
    BY <1>1 DEF Places, Silent
  <2> QED
    BY <2>1, FS_EmptySet DEF CountAll, Count
<1> QED
  BY <1>1 DEF Alike, Silent

\* Silence is kept by concatenation.
LEMMA SilentConcat ==
    ASSUME NEW name, NEW S, NEW a \in Seq(S), NEW b \in Seq(S),
           Silent(name, a), Silent(name, b)
    PROVE  Silent(name, a \o b)
<1>1. \A i \in 1 .. Len(a) + Len(b) : (a \o b)[i] = IF i <= Len(a) THEN a[i] ELSE b[i - Len(a)]
  OBVIOUS
<1>2. /\ Len(a) \in Nat /\ Len(b) \in Nat /\ Len(a \o b) = Len(a) + Len(b)
      /\ \A j \in 1 .. Len(a) : a[j].comm # name
      /\ \A j \in 1 .. Len(b) : b[j].comm # name
  BY DEF Silent
<1>3. ASSUME NEW i \in 1 .. Len(a) + Len(b) PROVE (a \o b)[i].comm # name
  <2>1. CASE i <= Len(a)
    <3>1. i \in 1 .. Len(a) /\ (a \o b)[i] = a[i]
      BY <1>1, <1>2, <2>1
    <3> QED
      BY <1>2, <3>1
  <2>2. CASE ~(i <= Len(a))
    <3>1. i - Len(a) \in 1 .. Len(b) /\ (a \o b)[i] = b[i - Len(a)]
      BY <1>1, <1>2, <2>2
    <3> QED
      BY <1>2, <3>1
  <2> QED
    BY <2>1, <2>2
<1> QED
  BY <1>2, <1>3 DEF Silent

\* A call of a concatenation is one of its first or of its second part.
InFirst(name, u, v, j) ==
    /\ j \in 1 .. Len(u) /\ u[j].comm = name /\ (u \o v)[j] = u[j]
    /\ Count(name, u \o v, j) = Count(name, u, j)
    /\ Count(name, u, j) \in Nat /\ Count(name, u, j) <= CountAll(name, u)

InSecond(name, u, v, j, i) ==
    /\ v[i].comm = name /\ (u \o v)[j] = v[i]
    /\ Count(name, u \o v, j) = CountAll(name, u) + Count(name, v, i)
    /\ Count(name, v, i) \in Nat \ {0}

LEMMA PlaceInConcat ==
    ASSUME NEW name, NEW S, NEW u \in Seq(S), NEW v \in Seq(S),
           NEW j \in 1 .. Len(u \o v), (u \o v)[j].comm = name
    PROVE  \/ InFirst(name, u, v, j)
           \/ \E i \in 1 .. Len(v) : InSecond(name, u, v, j, i)
<1>1. /\ Len(u) \in Nat /\ Len(v) \in Nat /\ j \in 1 .. Len(u) + Len(v)
      /\ (u \o v)[j] = IF j <= Len(u) THEN u[j] ELSE v[j - Len(u)]
  OBVIOUS
<1>2. CASE j <= Len(u)
  <2>1. /\ j \in 0 .. Len(u) /\ j \in 1 .. Len(u) /\ j \in Nat
        /\ u[j].comm = name /\ (u \o v)[j] = u[j]
    BY <1>1, <1>2
  <2>2. Count(name, u \o v, j) = Count(name, u, j)
    BY <2>1, CountInFirst
  <2>3. Count(name, u, j) \in Nat
    BY <2>1, CountStep
  <2>4. Count(name, u, j) <= CountAll(name, u)
    BY <1>1, <1>2, <2>1, <2>3, CountGrows DEF CountAll
  <2> QED
    BY <2>1, <2>2, <2>3, <2>4 DEF InFirst
<1>3. CASE j > Len(u)
  <2> DEFINE i == j - Len(u)
  <2>1. /\ i \in 1 .. Len(v) /\ i \in 0 .. Len(v) /\ i \in Nat /\ 0 < i
        /\ v[i].comm = name /\ (u \o v)[j] = v[i] /\ j = Len(u) + i
    BY <1>1, <1>3
  <2> HIDE DEF i
  <2>2. Count(name, u \o v, j) = CountAll(name, u) + Count(name, v, i)
    BY <2>1, CountConcat
  <2>3. Count(name, v, i) \in Nat /\ Count(name, v, 0) = 0
    BY <2>1, CountStep
  <2>4. Count(name, v, 0) < Count(name, v, i)
    BY <2>1, CountGrows
  <2> QED
    BY <2>1, <2>2, <2>3, <2>4 DEF InSecond
<1> QED
  BY <1>1, <1>2, <1>3

\* Concatenations of alike sequences are alike.
LEMMA AlikeConcat ==
    ASSUME NEW name, NEW S, NEW a \in Seq(S), NEW b \in Seq(S),
           NEW c \in Seq(S), NEW d \in Seq(S),
           Alike(name, a, b), Alike(name, c, d)
    PROVE  Alike(name, a \o c, b \o d)
<1>1. /\ CountAll(name, a \o c) = CountAll(name, a) + CountAll(name, c)
      /\ CountAll(name, b \o d) = CountAll(name, b) + CountAll(name, d)
  BY CountConcat
<1>2. /\ CountAll(name, a) \in Nat /\ CountAll(name, b) \in Nat
      /\ CountAll(name, a) = CountAll(name, b) /\ CountAll(name, c) = CountAll(name, d)
  BY CountStep, LenProperties DEF CountAll, Alike
<1>3. ASSUME NEW u \in Seq(S), NEW v \in Seq(S), NEW j \in 1 .. Len(u \o v),
             (u \o v)[j].comm = name
      PROVE  \/ InFirst(name, u, v, j)
             \/ \E i \in 1 .. Len(v) : InSecond(name, u, v, j, i)
  BY <1>3, PlaceInConcat
<1>4. ASSUME NEW j \in 1 .. Len(a \o c), NEW l \in 1 .. Len(b \o d),
             (a \o c)[j].comm = name, (b \o d)[l].comm = name,
             Count(name, a \o c, j) = Count(name, b \o d, l)
      PROVE  (a \o c)[j] = (b \o d)[l]
  <2> DEFINE AtA == InFirst(name, a, c, j)
             AtB == InFirst(name, b, d, l)
             AtC(i) == InSecond(name, a, c, j, i)
             AtD(i) == InSecond(name, b, d, l, i)
  <2>1. AtA \/ \E i \in 1 .. Len(c) : AtC(i)
    BY <1>3, <1>4
  <2>2. AtB \/ \E i \in 1 .. Len(d) : AtD(i)
    BY <1>3, <1>4
  <2>3. CASE AtA /\ AtB
    BY <1>4, <2>3 DEF Alike, InFirst
  <2>4. ASSUME AtA, NEW i \in 1 .. Len(d), AtD(i) PROVE FALSE
    <3> DEFINE n == Count(name, a \o c, j)
               m == CountAll(name, a)
    <3>1. n \in Nat /\ m \in Nat /\ n <= m
      BY <1>2, <2>4 DEF InFirst
    <3>2. PICK k \in Nat \ {0} : n = m + k
      BY <1>2, <1>4, <2>4 DEF InSecond
    <3> QED
      BY <3>1, <3>2
  <2>5. ASSUME AtB, NEW i \in 1 .. Len(c), AtC(i) PROVE FALSE
    <3> DEFINE n == Count(name, a \o c, j)
               m == CountAll(name, a)
    <3>1. n \in Nat /\ m \in Nat /\ n <= m
      BY <1>2, <1>4, <2>5 DEF InFirst
    <3>2. PICK k \in Nat \ {0} : n = m + k
      BY <1>2, <2>5 DEF InSecond
    <3> QED
      BY <3>1, <3>2
  <2>6. ASSUME NEW i \in 1 .. Len(c), AtC(i), NEW k \in 1 .. Len(d), AtD(k)
        PROVE  (a \o c)[j] = (b \o d)[l]
    <3> DEFINE n == Count(name, a \o c, j)
               m == CountAll(name, a)
               x == Count(name, c, i)
               y == Count(name, d, k)
    <3>1. x \in Nat /\ y \in Nat /\ m \in Nat /\ n = m + x /\ n = m + y
      BY <1>2, <1>4, <2>6 DEF InSecond
    <3> HIDE DEF n, m, x, y
    <3>2. x = y
      BY <3>1
    <3> QED
      BY <1>2, <2>6, <3>2 DEF Alike, InSecond, x, y
  <2> QED
    BY <2>1, <2>2, <2>3, <2>4, <2>5, <2>6
<1> QED
  BY <1>1, <1>2, <1>4 DEF Alike

-----------------------------------------------------------------------------
(* The layout *)

LEMMA RankOfProcess ==
    ASSUME NEW L, EvenLayout(L), NEW r \in World(L)
    PROVE  /\ NPROC_IN_STOGROUP(L) \in Nat \ {0}
           /\ RANK_IN_STOGROUP(L, r) = r % NPROC_IN_STOGROUP(L)
  BY PlaceInEvenLayout

\* Groups, ranks and pools of a process are among those of the run.
LEMMA Layout ==
    ASSUME SettingsInv, NEW r \in Procs
    PROVE  /\ EvenLayout(case)
           /\ Group(r) \in Groups
           /\ RANK_IN_STOGROUP(case, r) \in Procs
           /\ Pool(r) \in Pools
           /\ nks(r) \in Nat
           /\ case.SCF_NMAX \in Nat \ {0} /\ case.NSPIN \in Nat \ {0}
           /\ case.meta_gga \in BOOLEAN /\ case.symm_flag \in BOOLEAN
           /\ case.ESOLVER_TYPE \in {"ksdft", "sdft"}
           /\ case.ESOLVER_TYPE = "ksdft" => case.NSTOGROUP = 1
<1> DEFINE q == NPROC_IN_STOGROUP(case)
<1>1. /\ case \in Cases /\ case \in Settings
      /\ case.NPROC > 0 /\ case.NSTOGROUP > 0 /\ case.KPAR > 0
      /\ case.NPROC % case.NSTOGROUP = 0
      /\ case.ESOLVER_TYPE = "ksdft" => case.NSTOGROUP = 1
  BY CasesAssumption DEF SettingsInv
<1>2. /\ case.NPROC \in Nat \ {0} /\ case.NSTOGROUP \in Nat \ {0} /\ case.KPAR \in Nat \ {0}
      /\ case.SCF_NMAX \in Nat \ {0} /\ case.NSPIN \in Nat \ {0}
      /\ case.meta_gga \in BOOLEAN /\ case.symm_flag \in BOOLEAN
      /\ case.ESOLVER_TYPE \in {"ksdft", "sdft"}
  BY <1>1 DEF Settings
<1>3. EvenLayout(case)
  BY <1>1, <1>2 DEF EvenLayout
<1>4. r \in 0 .. case.NPROC - 1 /\ r \in World(case)
  BY DEF Procs, World
<1>5. /\ q \in Nat \ {0}
      /\ RANK_IN_STOGROUP(case, r) = r % q
  BY <1>3, <1>4, RankOfProcess
<1>6. Group(r) \in Groups
  BY <1>2, <1>4, GroupOfRank DEF Group, Groups, MY_STOGROUP
<1>7. RANK_IN_STOGROUP(case, r) \in Procs
  BY <1>3, <1>4, <1>5, ParapwRootInFirstGroup DEF PARAPW_WORLD, Procs
<1>8. Pool(r) \in Pools
  <2>1. r % q \in 0 .. q - 1
    <3> HIDE DEF q
    <3> QED  BY <1>4, <1>5, Division
  <2>2. MyGroup(q, case.KPAR, r % q) \in 0 .. case.KPAR - 1
    <3> HIDE DEF q
    <3> QED  BY <1>2, <1>5, <2>1, GroupOfRank
  <2> QED
    BY <1>5, <2>2 DEF Pool, MY_POOL, Pools
<1>9. nks(r) \in Nat
  <2>1. NKSTOT \div case.KPAR \in Nat
    BY <1>2, ParamAssumption, Division
  <2> QED
    BY <2>1 DEF nks, GroupSize
<1> QED
  BY <1>1, <1>2, <1>3, <1>6, <1>7, <1>8, <1>9

\* Who shares a communicator with a process
LEMMA Comembers ==
    ASSUME SettingsInv, NEW r \in Procs, NEW name \in Names, NEW m \in Members(name, r)
    PROVE  /\ m \in Procs
           /\ name \in {"STO_WORLD", "POOL_WORLD", "INTER_POOL"} => Group(m) = Group(r)
           /\ name = "PARAPW_WORLD" =>
                 /\ Pool(m) = Pool(r) /\ nks(m) = nks(r)
                 /\ RANK_IN_STOGROUP(case, m) = RANK_IN_STOGROUP(case, r)
<1>1. Members(name, r) = Split(r)[name]
  BY DEF Members, SettingsInv
<1>2. m \in Procs
  BY <1>1 DEF Split, Names, Procs, STO_WORLD, POOL_WORLD, INTER_POOL, PARAPW_WORLD
<1>3. name \in {"STO_WORLD", "POOL_WORLD", "INTER_POOL"} => Group(m) = Group(r)
  BY <1>1 DEF Split, Names, Group, STO_WORLD, POOL_WORLD, INTER_POOL
<1>4. ASSUME name = "PARAPW_WORLD"
      PROVE  /\ Pool(m) = Pool(r) /\ nks(m) = nks(r)
             /\ RANK_IN_STOGROUP(case, m) = RANK_IN_STOGROUP(case, r)
  <2>1. m \in PARAPW_WORLD(case, r)
    BY <1>1, <1>4 DEF Split
  <2>2. EvenLayout(case) /\ r \in World(case)
    BY Layout DEF Procs
  <2> QED
    BY <2>1, <2>2, ParapwSamePart DEF Pool, nks
<1> QED
  BY <1>2, <1>3, <1>4

\* A process is in its communicators; the root of its Bcasts is in the first
\* group and has the same part of the density.
LEMMA OwnCommunicators ==
    ASSUME SettingsInv, NEW r \in Procs
    PROVE  /\ \A op \in Operation : r \in Members(op.comm, r)
           /\ LET members == Members("PARAPW_WORLD", r)
                  root == CHOOSE m \in members : \A s \in members : m <= s
              IN  root \in members /\ Group(root) = 0
<1>1. \A name \in Names : Members(name, r) = Split(r)[name]
  BY DEF Members, SettingsInv
<1>2. \A op \in Operation : r \in Members(op.comm, r)
  BY <1>1 DEF Operation, Names, Split, Procs, STO_WORLD, POOL_WORLD, INTER_POOL, PARAPW_WORLD
<1>3. Members("PARAPW_WORLD", r) = PARAPW_WORLD(case, r)
  BY <1>1 DEF Names, Split
<1>4. EvenLayout(case) /\ r \in World(case)
  BY Layout DEF Procs
<1> DEFINE members == PARAPW_WORLD(case, r)
           low == r % NPROC_IN_STOGROUP(case)
<1>5. low \in members /\ MY_STOGROUP(case, low) = 0 /\ \A s \in members : low <= s
  BY <1>4, ParapwRootInFirstGroup
<1>6. members \subseteq Int
  BY <1>4 DEF PARAPW_WORLD, World, EvenLayout
<1> HIDE DEF members, low
<1>7. \A m \in members : (\A s \in members : m <= s) => m = low
  BY <1>5, <1>6
<1>8. (CHOOSE m \in members : \A s \in members : m <= s) = low
  BY <1>5, <1>7
<1> QED
  BY <1>2, <1>3, <1>5, <1>8 DEF members, Group

-----------------------------------------------------------------------------
(* The operations of an iteration *)

LEMMA TimesSeq ==
    ASSUME NEW S, NEW n \in Nat, NEW ops \in Seq(S)
    PROVE  /\ Times(n, ops) \in Seq(S)
           /\ Times(1, ops) = ops
<1> DEFINE l == Len(ops)
<1>1. l \in Nat /\ n * l \in Nat
  OBVIOUS
<1>2. ASSUME NEW i \in Nat \ {0}, l > 0
      PROVE  1 + ((i - 1) % l) \in 1 .. l
  <2> HIDE DEF l
  <2>1. i - 1 \in Nat /\ l \in Nat \ {0}
    BY <1>1, <1>2
  <2>2. (i - 1) % l \in 0 .. l - 1
    BY <2>1, Division
  <2> QED
    BY <2>1, <2>2
<1>3. ASSUME NEW k \in Nat, k > 0 => l > 0
      PROVE  LET t == [i \in 1 .. k |-> ops[1 + ((i - 1) % l)]]
             IN  t \in Seq(S) /\ Len(t) = k
  <2>1. \A i \in 1 .. k : ops[1 + ((i - 1) % l)] \in S
    <3> TAKE i \in 1 .. k
    <3>1. l > 0 /\ i \in Nat \ {0}
      BY <1>3
    <3>2. 1 + ((i - 1) % l) \in 1 .. l
      BY <1>2, <3>1
    <3> HIDE DEF l
    <3> DEFINE j == 1 + ((i - 1) % l)
    <3> HIDE DEF j
    <3>3. j \in 1 .. Len(ops)
      BY <3>2 DEF j, l
    <3>4. ops[j] \in S
      BY <3>3
    <3> QED
      BY <3>4 DEF j
  <2> QED
    BY <2>1
<1>4. Times(n, ops) \in Seq(S)
  <2>1. n * l > 0 => l > 0
    <3> SUFFICES ASSUME l = 0 PROVE n * l = 0
      BY <1>1
    <3> QED
      OBVIOUS
  <2> QED
    BY <1>1, <1>3, <2>1 DEF Times
<1>5. Times(1, ops) = ops
  <2>1. Times(1, ops) = [i \in 1 .. l |-> ops[1 + ((i - 1) % l)]]
    BY <1>1 DEF Times
  <2>2. \A i \in 1 .. l : 1 + ((i - 1) % l) = i
    <3> HIDE DEF l
    <3> TAKE i \in 1 .. l
    <3>1. l \in Nat \ {0} /\ i - 1 \in 0 .. l - 1
      BY <1>1
    <3>2. (i - 1) % l = i - 1
      BY <3>1
    <3> QED
      BY <3>1, <3>2
  <2>3. ops = [i \in 1 .. l |-> ops[i]]
    OBVIOUS
  <2> QED
    BY <2>1, <2>2, <2>3
<1> QED
  BY <1>4, <1>5

LEMMA SeqSilent ==
    ASSUME NEW name, NEW S, NEW a \in Seq(S), \A op \in S : op.comm # name
    PROVE  Silent(name, a)
  BY DEF Silent

LEMMA WhenSeq ==
    ASSUME NEW S, NEW a \in Seq(S), NEW cond
    PROVE  When(cond, a) \in Seq(S)
  BY DEF When, None

\* The operations are of the kinds their communicators suggest.
LEMMA KindsOfOperations ==
    ASSUME SettingsInv, NEW r \in Procs
    PROVE  /\ \A name \in {"WORLD", "STO_WORLD", "POOL_WORLD", "PARAPW_WORLD"} :
                 \A what \in Whats \ {"conv_elec"} : All(name, what) \in Seq(BodyOp)
           /\ \A name \in {"STO_WORLD", "POOL_WORLD"} :
                 \A what \in Whats \ {"conv_elec"} : All(name, what) \in Seq(GroupOp)
           /\ \A what \in {"psi", "ekb", "eband"} : Bcast(what) \in Seq(ParapwOp)
           /\ rho_mpi \in Seq(BodyOp) /\ SymmetryRho \in Seq(BodyOp)
           /\ case.ESOLVER_TYPE = "sdft" => rho_mpi \in Seq(GroupOp)
           /\ GetDrho(r) \in Seq(GroupOp)
           /\ Times(nks(r), Bcast("psi") \o Bcast("ekb")) \in Seq(ParapwOp)
           /\ GroupOp \subseteq BodyOp /\ ParapwOp \subseteq BodyOp
<1>1. GroupOp \subseteq BodyOp /\ ParapwOp \subseteq BodyOp
  BY DEF GroupOp, ParapwOp
<1>2. ASSUME NEW name \in {"WORLD", "STO_WORLD", "POOL_WORLD", "PARAPW_WORLD"},
             NEW what \in Whats \ {"conv_elec"}
      PROVE  /\ All(name, what) \in Seq(BodyOp)
             /\ name \in {"STO_WORLD", "POOL_WORLD"} => All(name, what) \in Seq(GroupOp)
  <2> DEFINE op == [comm |-> name, what |-> what, bcast |-> FALSE]
  <2>1. op \in BodyOp
    BY DEF BodyOp, Operation, Names, Whats
  <2>2. name \in {"STO_WORLD", "POOL_WORLD"} => op \in GroupOp
    BY <2>1 DEF GroupOp
  <2>3. All(name, what) = <<op>>
    BY DEF All
  <2> HIDE DEF op
  <2> QED
    BY <2>1, <2>2, <2>3
<1>3. ASSUME NEW what \in {"psi", "ekb", "eband"} PROVE Bcast(what) \in Seq(ParapwOp)
  <2> DEFINE op == [comm |-> "PARAPW_WORLD", what |-> what, bcast |-> TRUE]
  <2>1. op \in ParapwOp
    BY DEF ParapwOp, BodyOp, Operation, Names, Whats
  <2>2. Bcast(what) = <<op>>
    BY DEF Bcast
  <2> HIDE DEF op
  <2> QED
    BY <2>1, <2>2
<1>4. /\ reduce_diff_pools \in Seq(BodyOp)
      /\ case.ESOLVER_TYPE = "sdft" => reduce_diff_pools \in Seq(GroupOp)
  <2>1. CASE EvenPools(case)
    <3> DEFINE op == [comm |-> "INTER_POOL", what |-> "rho", bcast |-> FALSE]
    <3>1. op \in GroupOp
      BY <2>1 DEF GroupOp, BodyOp, Operation, Names, Whats
    <3>2. reduce_diff_pools = <<op>>
      BY <2>1 DEF reduce_diff_pools, All
    <3> HIDE DEF op
    <3> QED
      BY <1>1, <3>1, <3>2
  <2>2. CASE ~EvenPools(case)
    <3>1. /\ All("POOL_WORLD", "rho") \in Seq(GroupOp) /\ All("STO_WORLD", "rho") \in Seq(GroupOp)
          /\ All("POOL_WORLD", "rho") \in Seq(BodyOp) /\ All("STO_WORLD", "rho") \in Seq(BodyOp)
          /\ All("WORLD", "rho") \in Seq(BodyOp)
      BY <1>2 DEF Whats
    <3> QED
      BY <2>2, <3>1 DEF reduce_diff_pools
  <2> QED
    BY <2>1, <2>2
<1> DEFINE spins == IF case.meta_gga THEN 2 * case.NSPIN ELSE case.NSPIN
<1>5. spins \in Nat
  BY Layout
<1>6. /\ rho_mpi \in Seq(BodyOp)
      /\ case.ESOLVER_TYPE = "sdft" => rho_mpi \in Seq(GroupOp)
  <2> DEFINE t == Times(spins, reduce_diff_pools)
  <2>1. t \in Seq(BodyOp) /\ (case.ESOLVER_TYPE = "sdft" => t \in Seq(GroupOp))
    BY <1>4, <1>5, TimesSeq
  <2> HIDE DEF t
  <2>2. rho_mpi = When(case.KPAR > 1, t)
    BY DEF rho_mpi, t
  <2> QED
    BY <2>1, <2>2, WhenSeq
<1>7. SymmetryRho \in Seq(BodyOp)
  <2> DEFINE ops == All("POOL_WORLD", "fftixy2is") \o All("WORLD", "barrier")
             t   == Times(spins, ops)
  <2>1. ops \in Seq(BodyOp)
    BY <1>2 DEF Whats
  <2>2. t \in Seq(BodyOp)
    <3> HIDE DEF ops
    <3> QED  BY <1>5, <2>1, TimesSeq
  <2>3. SymmetryRho = When(case.symm_flag, t)
    BY DEF SymmetryRho
  <2> HIDE DEF t
  <2> QED
    BY <2>2, <2>3, WhenSeq
<1>8. GetDrho(r) \in Seq(GroupOp)
  <2>1. All("POOL_WORLD", "drho") \in Seq(GroupOp)
    BY <1>2 DEF Whats
  <2> QED
    BY <2>1, WhenSeq DEF GetDrho
<1>9. Times(nks(r), Bcast("psi") \o Bcast("ekb")) \in Seq(ParapwOp)
  <2>1. Bcast("psi") \o Bcast("ekb") \in Seq(ParapwOp)
    BY <1>3
  <2> QED
    BY <2>1, Layout, TimesSeq
<1> QED
  BY <1>1, <1>2, <1>3, <1>6, <1>7, <1>8, <1>9

\* A stochastic hamilt2density, without what the processes do differently in it
SdftFrame(orbitals, density, symmetry) ==
    orbitals
    \o All("WORLD", "emax")
    \o All("STO_WORLD", "KS_ne") \o All("WORLD", "sto_ne")
    \o All("WORLD", "precision")
    \o density
    \o All("STO_WORLD", "demet") \o All("WORLD", "stodemet")
    \o All("WORLD", "precision") \o All("WORLD", "sto_eband")
    \o rho_mpi
    \o All("POOL_WORLD", "sto_ne") \o All("PARAPW_WORLD", "sto_ne")
    \o All("PARAPW_WORLD", "sto_rho")
    \o symmetry

LEMMA AlikeAppend ==
    ASSUME NEW name, NEW S, NEW a \in Seq(S), NEW b \in Seq(S), NEW c \in Seq(S),
           Alike(name, a, b)
    PROVE  /\ a \o c \in Seq(S) /\ b \o c \in Seq(S)
           /\ Alike(name, a \o c, b \o c)
  BY AlikeRefl, AlikeConcat

\* If the parts that differ are alike, so is the whole.
LEMMA FrameAlike ==
    ASSUME SettingsInv, NEW r \in Procs, NEW name,
           NEW x1 \in Seq(BodyOp), NEW x2 \in Seq(BodyOp), NEW x3 \in Seq(BodyOp),
           NEW y1 \in Seq(BodyOp), NEW y2 \in Seq(BodyOp), NEW y3 \in Seq(BodyOp),
           Alike(name, x1, y1), Alike(name, x2, y2), Alike(name, x3, y3)
    PROVE  /\ SdftFrame(x1, x2, x3) \in Seq(BodyOp)
           /\ SdftFrame(y1, y2, y3) \in Seq(BodyOp)
           /\ Alike(name, SdftFrame(x1, x2, x3), SdftFrame(y1, y2, y3))
<1> DEFINE B == BodyOp
           OK(a, b) == a \in Seq(B) /\ b \in Seq(B) /\ Alike(name, a, b)
           a1 == x1 \o All("WORLD", "emax")          b1 == y1 \o All("WORLD", "emax")
           a2 == a1 \o All("STO_WORLD", "KS_ne")     b2 == b1 \o All("STO_WORLD", "KS_ne")
           a3 == a2 \o All("WORLD", "sto_ne")        b3 == b2 \o All("WORLD", "sto_ne")
           a4 == a3 \o All("WORLD", "precision")     b4 == b3 \o All("WORLD", "precision")
           a5 == a4 \o x2                            b5 == b4 \o y2
           a6 == a5 \o All("STO_WORLD", "demet")     b6 == b5 \o All("STO_WORLD", "demet")
           a7 == a6 \o All("WORLD", "stodemet")      b7 == b6 \o All("WORLD", "stodemet")
           a8 == a7 \o All("WORLD", "precision")     b8 == b7 \o All("WORLD", "precision")
           a9 == a8 \o All("WORLD", "sto_eband")     b9 == b8 \o All("WORLD", "sto_eband")
           a10 == a9 \o rho_mpi                      b10 == b9 \o rho_mpi
           a11 == a10 \o All("POOL_WORLD", "sto_ne") b11 == b10 \o All("POOL_WORLD", "sto_ne")
           a12 == a11 \o All("PARAPW_WORLD", "sto_ne")  b12 == b11 \o All("PARAPW_WORLD", "sto_ne")
           a13 == a12 \o All("PARAPW_WORLD", "sto_rho") b13 == b12 \o All("PARAPW_WORLD", "sto_rho")
           a14 == a13 \o x3                          b14 == b13 \o y3
<1>0. /\ \A n \in {"WORLD", "STO_WORLD", "POOL_WORLD", "PARAPW_WORLD"} :
            \A what \in Whats \ {"conv_elec"} : All(n, what) \in Seq(B)
      /\ rho_mpi \in Seq(B)
  BY KindsOfOperations
<1>a. ASSUME NEW a, NEW b, OK(a, b), NEW c \in Seq(B)
      PROVE  OK(a \o c, b \o c)
  BY <1>a, AlikeAppend
<1>b. ASSUME NEW a, NEW b, OK(a, b), NEW c, NEW d, OK(c, d)
      PROVE  OK(a \o c, b \o d)
  BY <1>b, AlikeConcat
<1>c. OK(x1, y1) /\ OK(x2, y2) /\ OK(x3, y3)
  OBVIOUS
<1> HIDE DEF OK, B
<1>1. OK(a1, b1)    BY <1>0, <1>a, <1>c DEF Whats
<1> HIDE DEF a1, b1
<1>2. OK(a2, b2)    BY <1>0, <1>a, <1>1 DEF Whats
<1> HIDE DEF a2, b2
<1>3. OK(a3, b3)    BY <1>0, <1>a, <1>2 DEF Whats
<1> HIDE DEF a3, b3
<1>4. OK(a4, b4)    BY <1>0, <1>a, <1>3 DEF Whats
<1> HIDE DEF a4, b4
<1>5. OK(a5, b5)    BY <1>b, <1>c, <1>4
<1> HIDE DEF a5, b5
<1>6. OK(a6, b6)    BY <1>0, <1>a, <1>5 DEF Whats
<1> HIDE DEF a6, b6
<1>7. OK(a7, b7)    BY <1>0, <1>a, <1>6 DEF Whats
<1> HIDE DEF a7, b7
<1>8. OK(a8, b8)    BY <1>0, <1>a, <1>7 DEF Whats
<1> HIDE DEF a8, b8
<1>9. OK(a9, b9)    BY <1>0, <1>a, <1>8 DEF Whats
<1> HIDE DEF a9, b9
<1>10. OK(a10, b10) BY <1>0, <1>a, <1>9
<1> HIDE DEF a10, b10
<1>11. OK(a11, b11) BY <1>0, <1>a, <1>10 DEF Whats
<1> HIDE DEF a11, b11
<1>12. OK(a12, b12) BY <1>0, <1>a, <1>11 DEF Whats
<1> HIDE DEF a12, b12
<1>13. OK(a13, b13) BY <1>0, <1>a, <1>12 DEF Whats
<1> HIDE DEF a13, b13
<1>14. OK(a14, b14) BY <1>b, <1>c, <1>13
<1>15. a14 = SdftFrame(x1, x2, x3) /\ b14 = SdftFrame(y1, y2, y3)
  BY DEF SdftFrame, a1, a2, a3, a4, a5, a6, a7, a8, a9, a10, a11, a12, a13,
         b1, b2, b3, b4, b5, b6, b7, b8, b9, b10, b11, b12, b13
<1> QED
  BY <1>14, <1>15 DEF OK, B

Orbitals(r) == Times(nks(r), Bcast("psi") \o Bcast("ekb"))

\* Each part of a stochastic iteration is made of operations before the results.
LEMMA PartsOfSdft ==
    ASSUME SettingsInv, NEW r \in Procs, case.ESOLVER_TYPE = "sdft"
    PROVE  /\ Hamilt2DensitySdft(r)
                = SdftFrame(Orbitals(r), PsiToRhoSdft(r), SymmetryRhoSdft(r))
           /\ Orbitals(r) \in Seq(ParapwOp) /\ Orbitals(r) \in Seq(BodyOp)
           /\ rho_mpi \o All("STO_WORLD", "eband") \in Seq(GroupOp)
           /\ When(Group(r) = 0, rho_mpi \o All("STO_WORLD", "eband")) \in Seq(GroupOp)
           /\ When(Group(r) = 0, rho_mpi \o All("STO_WORLD", "eband")) \in Seq(BodyOp)
           /\ Bcast("eband") \in Seq(BodyOp)
           /\ PsiToRhoSdft(r) \in Seq(BodyOp)
           /\ SymmetryRhoSdft(r) \in Seq(BodyOp)
<1>1. Hamilt2DensitySdft(r)
        = SdftFrame(Orbitals(r), PsiToRhoSdft(r), SymmetryRhoSdft(r))
  BY DEF Hamilt2DensitySdft, SdftFrame, Orbitals
<1>2. /\ Orbitals(r) \in Seq(ParapwOp)
      /\ Bcast("eband") \in Seq(ParapwOp)
      /\ rho_mpi \in Seq(GroupOp) /\ All("STO_WORLD", "eband") \in Seq(GroupOp)
      /\ All("WORLD", "barrier") \in Seq(BodyOp) /\ SymmetryRho \in Seq(BodyOp)
      /\ GroupOp \subseteq BodyOp /\ ParapwOp \subseteq BodyOp
  BY KindsOfOperations DEF Orbitals, Whats
<1>3. /\ Orbitals(r) \in Seq(BodyOp) /\ Bcast("eband") \in Seq(BodyOp)
  BY <1>2, SeqMonotonic
<1> DEFINE own == rho_mpi \o All("STO_WORLD", "eband")
<1>4. own \in Seq(GroupOp)
  BY <1>2
<1>5. When(Group(r) = 0, own) \in Seq(GroupOp)
  BY <1>4, WhenSeq
<1>6. When(Group(r) = 0, own) \in Seq(BodyOp)
  BY <1>2, <1>5, SeqMonotonic
<1>7. PsiToRhoSdft(r) \in Seq(BodyOp)
  BY <1>3, <1>6 DEF PsiToRhoSdft
<1>8. SymmetryRhoSdft(r) \in Seq(BodyOp)
  BY <1>2, WhenSeq DEF SymmetryRhoSdft
<1> QED
  BY <1>1, <1>2, <1>3, <1>4, <1>5, <1>6, <1>7, <1>8

\* The results come last.
LEMMA ScriptShape ==
    ASSUME SettingsInv, NEW r \in Procs, NEW i
    PROVE  /\ Hamilt2Density(r) \in Seq(BodyOp)
           /\ Body(r, i) \in Seq(BodyOp) /\ Body(r, i) \in Seq(Operation)
           /\ Results \in Seq(Operation) /\ Len(Results) = 3
           /\ Results[1] = [comm |-> "PARAPW_WORLD", what |-> "drho", bcast |-> TRUE]
           /\ Results[2] = [comm |-> "PARAPW_WORLD", what |-> "conv_elec", bcast |-> TRUE]
           /\ Results[3] = [comm |-> "PARAPW_WORLD", what |-> "rho", bcast |-> TRUE]
           /\ Script(r, i) \in Seq(Operation)
           /\ Len(Script(r, i)) = Len(Body(r, i)) + 3
           /\ Len(Body(r, i)) \in Nat
           /\ \A j \in 1 .. Len(Body(r, i)) + 3 :
                 Script(r, i)[j] = IF j <= Len(Body(r, i)) THEN Body(r, i)[j]
                                   ELSE Results[j - Len(Body(r, i))]
<1>1. Hamilt2Density(r) \in Seq(BodyOp)
  <2>1. CASE case.ESOLVER_TYPE = "sdft"
    <3>1. /\ Orbitals(r) \in Seq(BodyOp) /\ PsiToRhoSdft(r) \in Seq(BodyOp)
          /\ SymmetryRhoSdft(r) \in Seq(BodyOp)
      BY <2>1, PartsOfSdft
    <3>2. \A a \in Seq(BodyOp) : Alike("WORLD", a, a)
      BY AlikeRefl
    <3>3. SdftFrame(Orbitals(r), PsiToRhoSdft(r), SymmetryRhoSdft(r)) \in Seq(BodyOp)
      BY <3>1, <3>2, FrameAlike
    <3> QED
      BY <2>1, <3>3, PartsOfSdft DEF Hamilt2Density
  <2>2. CASE case.ESOLVER_TYPE # "sdft"
    <3> DEFINE w == All("WORLD", "demet") \o All("WORLD", "eband")
    <3>1. w \in Seq(BodyOp) /\ rho_mpi \in Seq(BodyOp) /\ SymmetryRho \in Seq(BodyOp)
      BY KindsOfOperations DEF Whats
    <3>2. Hamilt2DensityKs = When(case.KPAR # 1, w) \o rho_mpi \o SymmetryRho
      BY DEF Hamilt2DensityKs
    <3> HIDE DEF w
    <3>3. When(case.KPAR # 1, w) \in Seq(BodyOp)
      BY <3>1, WhenSeq
    <3>4. When(case.KPAR # 1, w) \o rho_mpi \in Seq(BodyOp)
      BY <3>1, <3>3
    <3>5. Hamilt2DensityKs \in Seq(BodyOp)
      BY <3>1, <3>2, <3>4
    <3> QED
      BY <2>2, <3>5 DEF Hamilt2Density
  <2> QED
    BY <2>1, <2>2
<1>2. Body(r, i) \in Seq(BodyOp)
  <2> DEFINE step == Hamilt2Density(r) \o GetDrho(r)
             again == i = 1 /\ case.ESOLVER_TYPE = "ksdft" /\ redo[Pool(r)]
  <2>1. GetDrho(r) \in Seq(BodyOp)
    BY KindsOfOperations, SeqMonotonic
  <2>2. step \in Seq(BodyOp)
    BY <1>1, <2>1
  <2>3. Body(r, i) = step \o When(again, step)
    BY DEF Body
  <2> HIDE DEF step, again
  <2>4. When(again, step) \in Seq(BodyOp)
    BY <2>2, WhenSeq
  <2> QED
    BY <2>2, <2>3, <2>4
<1>3. Body(r, i) \in Seq(Operation)
  <2>1. BodyOp \subseteq Operation
    BY DEF BodyOp
  <2> QED
    BY <1>2, <2>1, SeqMonotonic
<1>4. /\ Results \in Seq(Operation) /\ Len(Results) = 3
      /\ Results[1] = [comm |-> "PARAPW_WORLD", what |-> "drho", bcast |-> TRUE]
      /\ Results[2] = [comm |-> "PARAPW_WORLD", what |-> "conv_elec", bcast |-> TRUE]
      /\ Results[3] = [comm |-> "PARAPW_WORLD", what |-> "rho", bcast |-> TRUE]
  <2> DEFINE op(what) == [comm |-> "PARAPW_WORLD", what |-> what, bcast |-> TRUE]
  <2>1. op("drho") \in Operation /\ op("conv_elec") \in Operation /\ op("rho") \in Operation
    BY DEF Operation, Names, Whats
  <2>2. Results = (<<op("drho")>> \o <<op("conv_elec")>>) \o <<op("rho")>>
    BY DEF Results, Bcast
  <2> HIDE DEF op
  <2> DEFINE a == <<op("drho")>> \o <<op("conv_elec")>>
  <2>3. a \in Seq(Operation) /\ Len(a) = 2 /\ a[1] = op("drho") /\ a[2] = op("conv_elec")
    BY <2>1
  <2> HIDE DEF a
  <2> DEFINE c == <<op("rho")>>
  <2>4. Results = a \o c
    BY <2>2 DEF a
  <2>5. c \in Seq(Operation) /\ Len(c) = 1 /\ c[1] = op("rho")
    BY <2>1
  <2> HIDE DEF c
  <2>6. /\ Results \in Seq(Operation) /\ Len(Results) = 3
        /\ Results[1] = op("drho") /\ Results[2] = op("conv_elec") /\ Results[3] = op("rho")
    <3>1. /\ a \o c \in Seq(Operation) /\ Len(a \o c) = Len(a) + Len(c)
          /\ \A k \in 1 .. Len(a) + Len(c) : (a \o c)[k] = IF k <= Len(a) THEN a[k] ELSE c[k - Len(a)]
      BY <2>3, <2>5, ConcatProperties
    <3> QED
      BY <2>3, <2>4, <2>5, <3>1
  <2> QED
    BY <2>6 DEF op
<1>5. /\ Script(r, i) \in Seq(Operation)
      /\ Len(Script(r, i)) = Len(Body(r, i)) + 3
      /\ Len(Body(r, i)) \in Nat
      /\ \A j \in 1 .. Len(Body(r, i)) + 3 :
            Script(r, i)[j] = IF j <= Len(Body(r, i)) THEN Body(r, i)[j]
                              ELSE Results[j - Len(Body(r, i))]
  <2> DEFINE body == Body(r, i)
  <2>1. body \in Seq(Operation) /\ Len(body) \in Nat /\ Script(r, i) = body \o Results
    BY <1>3 DEF Script
  <2> HIDE DEF body
  <2>2. /\ body \o Results \in Seq(Operation) /\ Len(body \o Results) = Len(body) + Len(Results)
        /\ \A j \in 1 .. Len(body) + Len(Results) :
              (body \o Results)[j] = IF j <= Len(body) THEN body[j] ELSE Results[j - Len(body)]
    BY <1>4, <2>1, ConcatProperties
  <2>3. /\ Script(r, i) \in Seq(Operation)
        /\ Len(Script(r, i)) = Len(body) + 3
        /\ \A j \in 1 .. Len(body) + 3 :
              Script(r, i)[j] = IF j <= Len(body) THEN body[j] ELSE Results[j - Len(body)]
    BY <1>4, <2>1, <2>2
  <2> QED
    BY <2>1, <2>3 DEF body
<1> QED
  BY <1>1, <1>2, <1>3, <1>4, <1>5

-----------------------------------------------------------------------------
(* The members of a communicator call alike on it. *)

\* The first group symmetrizes, the others wait at one barrier for it: alike
\* as long as the first meets one barrier too.
LEMMA SymmetryAlike ==
    ASSUME SettingsInv, GroupsSymmetrizeAlike(case), case.ESOLVER_TYPE = "sdft",
           NEW r \in Procs, NEW m \in Procs,
           NEW name \in {"WORLD", "PARAPW_WORLD"}
    PROVE  Alike(name, SymmetryRhoSdft(r), SymmetryRhoSdft(m))
<1> DEFINE f == All("POOL_WORLD", "fftixy2is")
           w == All("WORLD", "barrier")
           spins == IF case.meta_gga THEN 2 * case.NSPIN ELSE case.NSPIN
<1>1. /\ f \in Seq(GroupOp) /\ f \in Seq(BodyOp) /\ w \in Seq(BodyOp)
  BY KindsOfOperations DEF Whats
<1>2. Silent(name, f)
  BY <1>1, SeqSilent DEF GroupOp
<1>3. SymmetryRho = When(case.symm_flag, Times(spins, f \o w))
  BY DEF SymmetryRho
<1>4. SymmetryRhoSdft(r) \in Seq(BodyOp) /\ SymmetryRhoSdft(m) \in Seq(BodyOp)
  BY PartsOfSdft
<1>5. CASE ~case.symm_flag
  BY <1>4, <1>5, AlikeRefl DEF SymmetryRhoSdft, SymmetryRho, When
<1>6. CASE case.NSTOGROUP = 1
  <2>1. Group(r) = 0 /\ Group(m) = 0
    BY <1>6, Layout DEF Groups
  <2> QED
    BY <1>4, <2>1, AlikeRefl DEF SymmetryRhoSdft
<1>7. CASE case.symm_flag /\ case.NSTOGROUP > 1
  <2>1. spins = 1
    BY <1>7 DEF GroupsSymmetrizeAlike
  <2> HIDE DEF f, w, spins
  <2>2. SymmetryRho = f \o w
    <3>1. f \o w \in Seq(BodyOp)
      BY <1>1
    <3>2. Times(1, f \o w) = f \o w
      BY <3>1, TimesSeq
    <3> QED
      BY <1>3, <1>7, <2>1, <3>2 DEF When
  <2>3. \A p \in Procs : SymmetryRhoSdft(p) = IF Group(p) = 0 THEN f \o w ELSE w
    BY <1>7, <2>2 DEF SymmetryRhoSdft, When, w
  <2>4. Silent(name, <<>>)
    BY DEF Silent
  <2>5. <<>> \in Seq(BodyOp) /\ <<>> \o w = w
    BY <1>1
  <2>6. Alike(name, f, <<>>) /\ Alike(name, <<>>, f)
    BY <1>1, <1>2, <2>4, <2>5, AlikeSilent
  <2>7. Alike(name, w, w) /\ Alike(name, f \o w, f \o w)
    <3>1. f \o w \in Seq(BodyOp)
      BY <1>1
    <3> QED
      BY <1>1, <3>1, AlikeRefl
  <2>8. Alike(name, f \o w, w) /\ Alike(name, w, f \o w)
    <3>1. Alike(name, f \o w, <<>> \o w) /\ Alike(name, <<>> \o w, f \o w)
      BY <1>1, <2>5, <2>6, <2>7, AlikeConcat
    <3> QED
      BY <2>5, <3>1
  <2> QED
    BY <2>3, <2>7, <2>8
<1>8. case.NSTOGROUP \in Nat \ {0}
  BY Layout DEF EvenLayout
<1> QED
  BY <1>5, <1>6, <1>7, <1>8

LEMMA ScriptsAlike ==
    ASSUME SettingsInv, GroupsSymmetrizeAlike(case), NEW i,
           NEW r \in Procs, NEW name \in Names, NEW m \in Members(name, r)
    PROVE  Alike(name, Script(r, i), Script(m, i))
<1>1. m \in Procs
  BY Comembers
<1>2. /\ Script(r, i) \in Seq(Operation) /\ Script(m, i) \in Seq(Operation)
      /\ Body(r, i) \in Seq(BodyOp) /\ Body(m, i) \in Seq(BodyOp)
      /\ Body(r, i) \in Seq(Operation) /\ Body(m, i) \in Seq(Operation)
      /\ Results \in Seq(Operation)
  BY <1>1, ScriptShape
<1>3. CASE case.ESOLVER_TYPE = "ksdft"
  <2>1. Group(r) = 0 /\ Group(m) = 0 /\ Pool(r) \in Pools /\ Pool(m) \in Pools
    BY <1>1, <1>3, Layout DEF Groups
  <2>2. redo[Pool(r)] = redo[Pool(m)]
    BY <2>1 DEF SettingsInv, Agree
  <2>3. Hamilt2Density(r) = Hamilt2Density(m) /\ GetDrho(r) = GetDrho(m)
    BY <1>3, <2>1 DEF Hamilt2Density, GetDrho
  <2>4. Script(r, i) = Script(m, i)
    BY <2>2, <2>3 DEF Script, Body
  <2> QED
    BY <1>2, <2>4, AlikeRefl
<1>4. CASE case.ESOLVER_TYPE = "sdft"
  <2> DEFINE own == rho_mpi \o All("STO_WORLD", "eband")
  <2>1. \A p \in Procs : Body(p, i) = (Hamilt2DensitySdft(p) \o GetDrho(p)) \o <<>>
    BY <1>4 DEF Body, Hamilt2Density, When, None
  <2>2. ASSUME NEW p \in Procs
        PROVE  /\ Hamilt2DensitySdft(p)
                    = SdftFrame(Orbitals(p), PsiToRhoSdft(p), SymmetryRhoSdft(p))
               /\ Orbitals(p) \in Seq(ParapwOp) /\ Orbitals(p) \in Seq(BodyOp)
               /\ PsiToRhoSdft(p) = When(Group(p) = 0, own) \o Bcast("eband")
               /\ When(Group(p) = 0, own) \in Seq(GroupOp)
               /\ When(Group(p) = 0, own) \in Seq(BodyOp) /\ Bcast("eband") \in Seq(BodyOp)
               /\ PsiToRhoSdft(p) \in Seq(BodyOp) /\ SymmetryRhoSdft(p) \in Seq(BodyOp)
               /\ GetDrho(p) \in Seq(GroupOp) /\ GetDrho(p) \in Seq(BodyOp)
    BY <1>4, PartsOfSdft, KindsOfOperations, SeqMonotonic DEF PsiToRhoSdft
  <2> HIDE DEF own
  <2>3. ASSUME name \in {"STO_WORLD", "POOL_WORLD", "INTER_POOL"}
        PROVE  /\ Alike(name, Orbitals(r), Orbitals(m))
               /\ Alike(name, PsiToRhoSdft(r), PsiToRhoSdft(m))
               /\ Alike(name, SymmetryRhoSdft(r), SymmetryRhoSdft(m))
               /\ Alike(name, GetDrho(r), GetDrho(m))
    <3>1. Group(m) = Group(r)
      BY <2>3, Comembers
    <3>2. Silent(name, Orbitals(r)) /\ Silent(name, Orbitals(m))
      <4>1. \A a \in Seq(ParapwOp) : Silent(name, a)
        BY <2>3, SeqSilent DEF ParapwOp
      <4> QED
        BY <1>1, <2>2, <4>1
    <3>3. Alike(name, Orbitals(r), Orbitals(m))
      BY <1>1, <2>2, <3>2, AlikeSilent
    <3>4. /\ PsiToRhoSdft(m) = PsiToRhoSdft(r)
          /\ SymmetryRhoSdft(m) = SymmetryRhoSdft(r) /\ GetDrho(m) = GetDrho(r)
      BY <3>1 DEF PsiToRhoSdft, SymmetryRhoSdft, GetDrho
    <3> QED
      BY <2>2, <3>3, <3>4, AlikeRefl
  <2>4. ASSUME name \in {"WORLD", "PARAPW_WORLD"}
        PROVE  /\ Alike(name, Orbitals(r), Orbitals(m))
               /\ Alike(name, PsiToRhoSdft(r), PsiToRhoSdft(m))
               /\ Alike(name, SymmetryRhoSdft(r), SymmetryRhoSdft(m))
               /\ Alike(name, GetDrho(r), GetDrho(m))
    <3>1. Alike(name, Orbitals(r), Orbitals(m))
      <4>1. CASE name = "WORLD"
        <5>1. Silent(name, Orbitals(r)) /\ Silent(name, Orbitals(m))
          <6>1. \A a \in Seq(ParapwOp) : Silent(name, a)
            BY <4>1, SeqSilent DEF ParapwOp
          <6> QED
            BY <1>1, <2>2, <6>1
        <5> QED
          BY <1>1, <2>2, <5>1, AlikeSilent
      <4>2. CASE name = "PARAPW_WORLD"
        <5>1. Orbitals(m) = Orbitals(r)
          BY <4>2, Comembers DEF Orbitals
        <5> QED
          BY <2>2, <5>1, AlikeRefl
      <4> QED
        BY <2>4, <4>1, <4>2
    <3>2. \A a \in Seq(GroupOp) : Silent(name, a)
      BY <2>4, SeqSilent DEF GroupOp
    <3>3. Alike(name, PsiToRhoSdft(r), PsiToRhoSdft(m))
      <4>1. Alike(name, When(Group(r) = 0, own), When(Group(m) = 0, own))
        BY <1>1, <2>2, <3>2, AlikeSilent
      <4>2. Alike(name, When(Group(r) = 0, own) \o Bcast("eband"),
                        When(Group(m) = 0, own) \o Bcast("eband"))
        BY <1>1, <2>2, <4>1, AlikeAppend
      <4> QED
        BY <1>1, <2>2, <4>2
    <3>4. Alike(name, SymmetryRhoSdft(r), SymmetryRhoSdft(m))
      BY <1>1, <1>4, <2>4, SymmetryAlike
    <3>5. Alike(name, GetDrho(r), GetDrho(m))
      BY <1>1, <2>2, <3>2, AlikeSilent
    <3> QED
      BY <3>1, <3>3, <3>4, <3>5
  <2>5. /\ Alike(name, Orbitals(r), Orbitals(m))
        /\ Alike(name, PsiToRhoSdft(r), PsiToRhoSdft(m))
        /\ Alike(name, SymmetryRhoSdft(r), SymmetryRhoSdft(m))
        /\ Alike(name, GetDrho(r), GetDrho(m))
    BY <2>3, <2>4 DEF Names
  <2>6. /\ Hamilt2DensitySdft(r) \in Seq(BodyOp) /\ Hamilt2DensitySdft(m) \in Seq(BodyOp)
        /\ Alike(name, Hamilt2DensitySdft(r), Hamilt2DensitySdft(m))
    BY <1>1, <2>2, <2>5, FrameAlike
  <2>7. /\ Hamilt2DensitySdft(r) \o GetDrho(r) \in Seq(BodyOp)
        /\ Hamilt2DensitySdft(m) \o GetDrho(m) \in Seq(BodyOp)
        /\ Alike(name, Hamilt2DensitySdft(r) \o GetDrho(r), Hamilt2DensitySdft(m) \o GetDrho(m))
    BY <1>1, <2>2, <2>5, <2>6, AlikeConcat
  <2>8. \A p \in Procs : Hamilt2DensitySdft(p) \o GetDrho(p) \in Seq(BodyOp)
            => Body(p, i) = Hamilt2DensitySdft(p) \o GetDrho(p)
    BY <2>1, ConcatEmptySeq
  <2>9. Alike(name, Body(r, i), Body(m, i))
    BY <1>1, <2>7, <2>8
  <2> QED
    BY <1>2, <2>9, AlikeAppend DEF Script
<1> QED
  BY <1>3, <1>4, Layout

\* The calls of the iterations follow each other.
LEMMA BeforeNext ==
    ASSUME SettingsInv, NEW r \in Procs, NEW name, NEW i \in Nat \ {0}
    PROVE  /\ Before(name, r, i) \in Nat
           /\ CountAll(name, Script(r, i)) \in Nat
           /\ Before(name, r, i + 1) = Before(name, r, i) + CountAll(name, Script(r, i))
           /\ \A k \in Nat : i < k => Before(name, r, i + 1) <= Before(name, r, k)
<1> DEFINE first == CountAll(name, Script(r, 1))
           later == CountAll(name, Script(r, 2))
<1>1. \A k \in Nat \ {0} : CountAll(name, Script(r, k)) \in Nat
  <2> TAKE k \in Nat \ {0}
  <2>1. Script(r, k) \in Seq(Operation)
    BY ScriptShape
  <2>2. Len(Script(r, k)) \in Nat
    BY <2>1
  <2> QED
    BY <2>1, <2>2, CountStep DEF CountAll
<1>2. i > 1 => Script(r, i) = Script(r, 2)
  <2>1. SUFFICES ASSUME i > 1 PROVE Body(r, i) = Body(r, 2)
    BY DEF Script
  <2>2. i # 1 /\ 2 # 1
    BY <2>1
  <2>3. ASSUME NEW k, k # 1
        PROVE  Body(r, k) = (Hamilt2Density(r) \o GetDrho(r)) \o <<>>
    BY <2>3 DEF Body, When, None
  <2> QED
    BY <2>2, <2>3
<1>3. /\ first \in Nat /\ later \in Nat
      /\ CountAll(name, Script(r, i)) = IF i = 1 THEN first ELSE later
  <2>1. CountAll(name, Script(r, i)) = IF i = 1 THEN first ELSE later
    <3>1. CASE i = 1
      BY <3>1
    <3>2. CASE i # 1
      BY <1>2, <3>2
    <3> QED
      BY <3>1, <3>2
  <2>2. 1 \in Nat \ {0} /\ 2 \in Nat \ {0}
    OBVIOUS
  <2> QED
    BY <1>1, <2>1, <2>2
<1>4. \A k \in Nat \ {0} : Before(name, r, k) = IF k = 1 THEN 0 ELSE first + (k - 2) * later
  BY DEF Before
<1> HIDE DEF first, later
<1>5. \A k \in Nat : k >= 2 => (k - 2) * later \in Nat /\ ((k + 1) - 2) * later = (k - 2) * later + later
  BY <1>3
<1>6. /\ Before(name, r, i) \in Nat
      /\ Before(name, r, i + 1) = Before(name, r, i) + CountAll(name, Script(r, i))
  <2>1. CASE i = 1
    <3>1. (2 - 2) * later = 0
      BY <1>3
    <3> QED
      BY <1>3, <1>4, <2>1, <3>1
  <2>2. CASE i # 1
    BY <1>3, <1>4, <1>5, <2>2
  <2> QED
    BY <2>1, <2>2
<1>7. ASSUME NEW k \in Nat, i < k PROVE Before(name, r, i + 1) <= Before(name, r, k)
  <2>1. /\ Before(name, r, i + 1) = first + ((i + 1) - 2) * later
        /\ Before(name, r, k) = first + (k - 2) * later
    BY <1>4, <1>7
  <2>2. PICK d \in Nat : k = i + 1 + d
    <3>1. k - (i + 1) \in Nat /\ k = i + 1 + (k - (i + 1))
      BY <1>7
    <3> QED
      BY <3>1
  <2>3. i - 1 \in Nat /\ k - 2 = (i - 1) + d /\ (i + 1) - 2 = i - 1
    BY <2>2
  <2>4. ((i - 1) + d) * later = (i - 1) * later + d * later
    BY <1>3, <2>2, <2>3
  <2>5. d * later \in Nat /\ (i - 1) * later \in Nat
    BY <1>3, <2>2, <2>3
  <2> QED
    BY <1>3, <2>1, <2>3, <2>4, <2>5
<1> QED
  BY <1>1, <1>6, <1>7

\* The n-th call on a communicator is the same operation for its members.
LEMMA SameCall ==
    ASSUME SettingsInv, GroupsSymmetrizeAlike(case),
           NEW r \in Procs, NEW name \in Names, NEW m \in Members(name, r),
           NEW i \in Nat \ {0}, NEW j \in 1 .. Len(Script(r, i)),
           NEW k \in Nat \ {0}, NEW l \in 1 .. Len(Script(m, k)),
           Script(r, i)[j].comm = name, Script(m, k)[l].comm = name,
           Before(name, r, i) + Count(name, Script(r, i), j)
             = Before(name, m, k) + Count(name, Script(m, k), l)
    PROVE  i = k /\ Script(r, i)[j] = Script(m, k)[l]
<1>1. m \in Procs
  BY Comembers
<1>2. ASSUME NEW p \in Procs, NEW n \in Nat \ {0}, NEW x \in 1 .. Len(Script(p, n)),
             Script(p, n)[x].comm = name
      PROVE  /\ Count(name, Script(p, n), x) \in Nat
             /\ 0 < Count(name, Script(p, n), x)
             /\ Count(name, Script(p, n), x) <= CountAll(name, Script(p, n))
  <2>1. Script(p, n) \in Seq(Operation)
    BY ScriptShape
  <2> DEFINE s == Script(p, n)
  <2> HIDE DEF s
  <2>2. s \in Seq(Operation) /\ x \in Nat \ {0} /\ Len(s) \in Nat /\ x <= Len(s) /\ s[x].comm = name
    BY <1>2, <2>1 DEF s
  <2>3. Count(name, s, x) \in Nat /\ Count(name, s, 0) = 0
    BY <2>2, CountStep
  <2>4. Count(name, s, 0) < Count(name, s, x)
    <3>1. 0 \in Nat /\ x \in Nat /\ 0 < x /\ s[x].comm = name
      BY <2>2
    <3> QED
      BY <2>2, <3>1, CountGrows
  <2>5. x < Len(s) => Count(name, s, x) <= Count(name, s, Len(s))
    BY <2>2, CountGrows
  <2> QED
    BY <2>2, <2>3, <2>4, <2>5 DEF s, CountAll
<1>3. /\ CountAll(name, Script(r, 1)) = CountAll(name, Script(m, 1))
      /\ CountAll(name, Script(r, 2)) = CountAll(name, Script(m, 2))
  BY ScriptsAlike DEF Alike
<1>4. \A n \in Nat \ {0} : Before(name, r, n) = Before(name, m, n)
  BY <1>3 DEF Before
<1> DEFINE x == Count(name, Script(r, i), j)
           y == Count(name, Script(m, k), l)
<1>5. /\ x \in Nat /\ 0 < x /\ x <= CountAll(name, Script(r, i))
      /\ y \in Nat /\ 0 < y /\ y <= CountAll(name, Script(m, k))
  BY <1>1, <1>2
<1>6. /\ Before(name, r, i) \in Nat /\ Before(name, r, k) \in Nat
      /\ CountAll(name, Script(r, i)) \in Nat /\ CountAll(name, Script(m, k)) \in Nat
      /\ Before(name, r, i + 1) = Before(name, r, i) + CountAll(name, Script(r, i))
      /\ Before(name, m, k + 1) = Before(name, m, k) + CountAll(name, Script(m, k))
      /\ i < k => Before(name, r, i + 1) <= Before(name, r, k)
      /\ k < i => Before(name, m, k + 1) <= Before(name, m, i)
  BY <1>1, BeforeNext
<1>7. Before(name, r, i) = Before(name, m, i) /\ Before(name, r, k) = Before(name, m, k)
  BY <1>4
<1>8. Before(name, r, i) + x = Before(name, m, k) + y
  OBVIOUS
<1> HIDE DEF x, y
<1>9. ~(i < k) /\ ~(k < i)
  <2> DEFINE bi == Before(name, r, i)
             bk == Before(name, r, k)
             ci == CountAll(name, Script(r, i))
             ck == CountAll(name, Script(m, k))
  <2>1. /\ bi \in Nat /\ bk \in Nat /\ ci \in Nat /\ ck \in Nat
        /\ i < k => bi + ci <= bk
        /\ k < i => bk + ck <= bi
    BY <1>6, <1>7
  <2>2. bi + x = bk + y
    BY <1>7, <1>8
  <2>3. x \in Nat /\ 0 < x /\ x <= ci /\ y \in Nat /\ 0 < y /\ y <= ck
    BY <1>5
  <2> HIDE DEF bi, bk, ci, ck
  <2> QED
    BY <2>1, <2>2, <2>3
<1>10. i = k
  BY <1>9
<1>11. x = y
  BY <1>5, <1>6, <1>7, <1>8, <1>10
<1> QED
  BY <1>10, <1>11, ScriptsAlike DEF Alike, x, y

-----------------------------------------------------------------------------
(* Steps *)

\* Layout, settings and what follows from them do not change.
LEMMA Kept ==
    ASSUME case' = case, comm' = comm, redo' = redo
    PROVE  /\ Procs' = Procs /\ Operation' = Operation /\ Densities' = Densities
           /\ Entry' = Entry
           /\ SettingsInv => SettingsInv'
           /\ \A r : Group(r)' = Group(r)
           /\ \A r, i : OwnRho(r, i)' = OwnRho(r, i)
           /\ \A r, i : Script(r, i)' = Script(r, i)
           /\ \A name, r, i : Before(name, r, i)' = Before(name, r, i)
<1>1. Procs' = Procs
  BY DEF Procs
<1>2. Operation' = Operation
  BY DEF Operation
<1>3. Densities' = Densities
  BY <1>1 DEF Densities
<1>4. Entry' = Entry
  BY <1>3 DEF Entry
<1>5. ASSUME NEW r PROVE Group(r)' = Group(r) /\ Pool(r)' = Pool(r) /\ nks(r)' = nks(r)
  BY DEF Group, Pool, nks
<1>6. SettingsInv => SettingsInv'
  BY <1>1 DEF SettingsInv, Pools, Agree, Split, Procs
<1>7. ASSUME NEW r, NEW i PROVE OwnRho(r, i)' = OwnRho(r, i)
  BY <1>5 DEF OwnRho
<1>8. ASSUME NEW r, NEW i PROVE Script(r, i)' = Script(r, i)
  <2>1. rho_mpi' = rho_mpi /\ SymmetryRho' = SymmetryRho
    BY DEF rho_mpi, reduce_diff_pools, SymmetryRho
  <2>2. SymmetryRhoSdft(r)' = SymmetryRhoSdft(r) /\ PsiToRhoSdft(r)' = PsiToRhoSdft(r)
    BY <1>5, <2>1 DEF SymmetryRhoSdft, PsiToRhoSdft
  <2>3. Hamilt2DensitySdft(r)' = Hamilt2DensitySdft(r) /\ Hamilt2DensityKs' = Hamilt2DensityKs
    BY <1>5, <2>1, <2>2 DEF Hamilt2DensitySdft, Hamilt2DensityKs
  <2>4. Hamilt2Density(r)' = Hamilt2Density(r) /\ GetDrho(r)' = GetDrho(r)
    BY <1>5, <2>3 DEF Hamilt2Density, GetDrho
  <2>5. Body(r, i)' = Body(r, i)
    BY <1>5, <2>4 DEF Body
  <2> QED
    BY <2>5 DEF Script
<1>9. ASSUME NEW name, NEW r, NEW i PROVE Before(name, r, i)' = Before(name, r, i)
  BY <1>8 DEF Before
<1> QED
  BY <1>1, <1>2, <1>3, <1>4, <1>5, <1>6, <1>7, <1>8, <1>9

\* What is being called: its place among the operations, and that it was logged.
LEMMA Calling ==
    ASSUME IInv, NEW r \in Procs, todo[r] # <<>>
    PROVE  LET i    == iter[r]
               left1 == Len(todo[r])
               j    == Len(Script(r, i)) - left1 + 1
           IN  /\ i \in 1 .. case.SCF_NMAX
               /\ left1 \in 1 .. Len(Script(r, i)) /\ j \in 1 .. Len(Script(r, i))
               /\ Op(r) = Script(r, i)[j] /\ Op(r) \in Operation
               /\ Op(r) = todo[r][1]
               /\ Number(r) = Before(Op(r).comm, r, i) + Count(Op(r).comm, Script(r, i), j)
               /\ Number(r) \in Nat \ {0}
               /\ InIteration(r, i)
<1>1. /\ SettingsInv /\ ControlInv /\ CallsInv
      /\ case.SCF_NMAX \in Nat \ {0}
  BY Layout DEF IInv
<1>2. /\ iter[r] \in 1 .. case.SCF_NMAX
      /\ todo[r] \in Seq(Operation)
  BY <1>1 DEF ControlInv
<1>3. PICK i \in 1 .. case.SCF_NMAX : iter[r] = i
  BY <1>2
<1>4. InIteration(r, i)
  BY <1>1, <1>3 DEF CallsInv
<1>5. PICK ops \in Seq(Operation) : ops = Script(r, i)
  BY <1>1, ScriptShape
<1>6. PICK t : t = todo[r]
  OBVIOUS
<1>7. t \in Seq(Operation) /\ t # <<>>
  BY <1>2, <1>6
<1> DEFINE j == Len(ops) - Len(t) + 1
<1>8. /\ Len(t) <= Len(ops)
      /\ \A q \in 1 .. Len(t) : t[q] = ops[j - 1 + q]
      /\ Logged(r, i, j)
  <2>1. PICK k \in 1 .. Len(ops) :
            /\ Logged(r, i, k)
            /\ Len(t) = Len(ops) - k + 1
            /\ \A q \in 1 .. Len(t) : t[q] = ops[k - 1 + q]
    BY <1>4, <1>5, <1>6, <1>7 DEF InIteration
  <2>2. k = j /\ Len(t) <= Len(ops)
    BY <2>1
  <2> QED
    BY <2>1, <2>2
<1>9. Len(t) \in 1 .. Len(ops) /\ j \in 1 .. Len(ops) /\ Len(ops) \in Nat /\ Head(t) = t[1]
  BY <1>7, <1>8
<1>10. t[1] = ops[j] /\ t[1] \in Operation
  BY <1>7, <1>8, <1>9
<1>11. Op(r) = t[1]
  BY <1>6, <1>9 DEF Op
<1> DEFINE name == ops[j].comm
<1>12. name \in Names
  BY <1>10 DEF Operation
<1>13. Len(called[r][name]) = Before(name, r, i) + Count(name, ops, j)
  BY <1>5, <1>8, <1>12 DEF Logged
<1>14. Before(name, r, i) \in Nat
  BY <1>1, BeforeNext
<1>15. Count(name, ops, j) \in Nat \ {0}
  <2> HIDE DEF j
  <2> DEFINE n == ops[j].comm
  <2>1. j \in Nat /\ 0 \in Nat /\ 0 < j
    BY <1>9
  <2>2. Count(n, ops, 0) = 0 /\ Count(n, ops, j) \in Nat
    BY <2>1, CountStep
  <2>3. Count(n, ops, 0) < Count(n, ops, j)
    BY <2>1, CountGrows
  <2> QED
    BY <2>2, <2>3
<1>16. Number(r) = Before(name, r, i) + Count(name, ops, j) /\ Number(r) \in Nat \ {0}
  <2>1. Number(r) = Len(called[r][name])
    BY <1>10, <1>11 DEF Number
  <2> HIDE DEF name, j
  <2> QED
    BY <1>13, <1>14, <1>15, <2>1
<1> QED
  BY <1>3, <1>4, <1>5, <1>6, <1>9, <1>10, <1>11, <1>16

\* An entry of a member's calls stands for the operation with its number.
LEMMA CallOfMember ==
    ASSUME IInv, GroupsSymmetrizeAlike(case),
           NEW r \in Procs, NEW name \in Names, NEW m \in Members(name, r),
           NEW i \in Nat \ {0}, NEW j \in 1 .. Len(Script(r, i)),
           Script(r, i)[j].comm = name,
           NEW n \in Nat \ {0},
           n = Before(name, r, i) + Count(name, Script(r, i), j),
           n <= Len(called[m][name])
    PROVE  \E l \in 1 .. Len(Script(m, i)) : CalledAt(m, name, n, i, l)
                                            /\ Script(m, i)[l] = Script(r, i)[j]
<1>1. /\ SettingsInv /\ ControlInv /\ CallsInv /\ m \in Procs
      /\ case.SCF_NMAX \in Nat \ {0}
  BY Comembers, Layout DEF IInv
<1>2. called[m][name] \in Seq(Entry) /\ iter[m] \in 0 .. case.SCF_NMAX
  BY <1>1 DEF ControlInv
<1>3. Len(called[m][name]) > 0
  BY <1>2
<1>4. iter[m] # 0
  BY <1>1, <1>3 DEF ControlInv
<1>5. PICK k \in 1 .. case.SCF_NMAX : iter[m] = k
  BY <1>1, <1>2, <1>4
<1>6. InIteration(m, k)
  BY <1>1, <1>5 DEF CallsInv
<1>7. PICK x : Logged(m, k, x)
  BY <1>6 DEF InIteration
<1>8. n \in 1 .. Len(called[m][name])
  BY <1>2
<1>9. PICK i1 \in 1 .. k : \E l \in 1 .. Len(Script(m, i1)) : CalledAt(m, name, n, i1, l)
  BY <1>7, <1>8 DEF Logged
<1>10. PICK l \in 1 .. Len(Script(m, i1)) : CalledAt(m, name, n, i1, l)
  BY <1>9
<1>11. i1 \in Nat \ {0} /\ Script(m, i1)[l].comm = name
       /\ n = Before(name, m, i1) + Count(name, Script(m, i1), l)
  BY <1>5, <1>9, <1>10 DEF CalledAt
<1>12. i = i1 /\ Script(r, i)[j] = Script(m, i1)[l]
  BY <1>1, <1>11, SameCall
<1> QED
  BY <1>10, <1>12

\* What a process receives: a truth value, or the part of the density of its
\* iteration that is on its planes.
LEMMA Received ==
    ASSUME IInv, GroupsSymmetrizeAlike(case), NEW r \in Procs, todo[r] # <<>>,
           Returns(r), Op(r).bcast
    PROVE  /\ Op(r).what = "conv_elec" => Sent(r) \in BOOLEAN
           /\ Op(r).what = "rho" =>
                 Sent(r) = [iter |-> iter[r], part |-> RANK_IN_STOGROUP(case, r)]
<1>1. SettingsInv
  BY DEF IInv
<1>2. PICK i \in Nat \ {0} : iter[r] = i
  <2>1. iter[r] \in 1 .. case.SCF_NMAX
    BY Calling
  <2>2. case.SCF_NMAX \in Nat
    BY <1>1, Layout
  <2> QED
    BY <2>1, <2>2
<1>3. PICK j \in 1 .. Len(Script(r, i)) :
          /\ Op(r) = Script(r, i)[j] /\ Op(r) \in Operation
          /\ Number(r) = Before(Op(r).comm, r, i) + Count(Op(r).comm, Script(r, i), j)
          /\ Number(r) \in Nat \ {0}
  BY <1>2, Calling
<1> DEFINE name == "PARAPW_WORLD"
<1>4. Op(r).comm = name /\ name \in Names
  BY <1>3 DEF Operation, Names
<1>5. Root(r) \in Members(name, r) /\ Group(Root(r)) = 0
  BY <1>1, <1>4, OwnCommunicators DEF Root
<1>6. PICK m : m = Root(r)
  OBVIOUS
<1>7. PICK n \in Nat \ {0} : n = Number(r)
  BY <1>3
<1>8. n <= Len(called[m][name])
  <2>1. Len(called[Root(r)][Op(r).comm]) >= Number(r)
    BY DEF Returns
  <2>2. Len(called[m][name]) >= n
    BY <1>4, <1>6, <1>7, <2>1
  <2>3. Len(called[m][name]) \in Nat
    <3>1. m \in Procs
      BY <1>1, <1>4, <1>5, <1>6, Comembers
    <3>2. called[m][name] \in Seq(Entry)
      BY <1>4, <3>1 DEF IInv, ControlInv
    <3> QED
      BY <3>2
  <2> QED
    BY <2>2, <2>3
<1>9. PICK l \in 1 .. Len(Script(m, i)) : CalledAt(m, name, n, i, l)
                                         /\ Script(m, i)[l] = Script(r, i)[j]
  <2>1. Script(r, i)[j].comm = name /\ n = Before(name, r, i) + Count(name, Script(r, i), j)
    BY <1>3, <1>4, <1>7
  <2> QED
    BY <1>4, <1>5, <1>6, <1>8, <2>1, CallOfMember
<1>10. Sent(r) = called[m][name][n].content
  BY <1>4, <1>6, <1>7 DEF Sent
<1>11. called[m][name][n].what = Op(r).what
  BY <1>3, <1>9 DEF CalledAt
<1>12. Op(r).what = "conv_elec" => Sent(r) \in BOOLEAN
  BY <1>9, <1>10, <1>11 DEF CalledAt
<1>13. Op(r).what = "rho" => Sent(r) = OwnRho(m, i)
  BY <1>3, <1>5, <1>6, <1>9, <1>10, <1>11 DEF CalledAt
<1>14. OwnRho(m, i) = [iter |-> i, part |-> RANK_IN_STOGROUP(case, r)]
  BY <1>1, <1>4, <1>5, <1>6, Comembers DEF OwnRho
<1> QED
  BY <1>2, <1>12, <1>13, <1>14

Same == case' = case /\ comm' = comm /\ redo' = redo

\* Entries stand.
LEMMA CalledAtKept ==
    ASSUME Same, NEW r, NEW name, NEW n, NEW i, NEW j, CalledAt(r, name, n, i, j),
           called'[r][name][n] = called[r][name][n]
    PROVE  CalledAt(r, name, n, i, j)'
<1>1. /\ Densities' = Densities
      /\ \A p : Group(p)' = Group(p)
      /\ \A p, k : OwnRho(p, k)' = OwnRho(p, k)
      /\ \A p, k : Script(p, k)' = Script(p, k)
      /\ \A c, p, k : Before(c, p, k)' = Before(c, p, k)
  BY Kept DEF Same
<1> QED
  BY <1>1 DEF CalledAt

\* What a process has called stands as long as it calls nothing.
LEMMA LoggedKept ==
    ASSUME Same, NEW r, called'[r] = called[r], NEW i, NEW k, Logged(r, i, k)
    PROVE  Logged(r, i, k)'
<1>1. /\ Densities' = Densities
      /\ \A p : Group(p)' = Group(p)
      /\ \A p, n : OwnRho(p, n)' = OwnRho(p, n)
      /\ \A p, n : Script(p, n)' = Script(p, n)
      /\ \A name, p, n : Before(name, p, n)' = Before(name, p, n)
  BY Kept DEF Same
<1>2. \A name, n, i1, j1 : CalledAt(r, name, n, i1, j1) => CalledAt(r, name, n, i1, j1)'
  BY <1>1 DEF CalledAt
<1> QED
  BY <1>1, <1>2 DEF Logged

\* A call of the next operation.
LEMMA CallNext ==
    ASSUME SettingsInv, ControlInv, Same, NEW r \in Procs, NEW i \in 1 .. case.SCF_NMAX,
           NEW k \in 0 .. Len(Script(r, i)) - 1, Logged(r, i, k),
           NEW op, op = Script(r, i)[k + 1],
           called' = [called EXCEPT ![r][op.comm] =
                        Append(@, [what |-> op.what, content |-> Content(r, op)])],
           conv_elec'[r] \in BOOLEAN, rho'[r][1] \in Densities,
           Group(r) = 0 /\ op.bcast /\ op.what = "rho" => rho'[r][1] = OwnRho(r, i)
    PROVE  /\ called' \in [Procs -> [Names -> Seq(Entry)]]
           /\ \A p \in Procs \ {r} : called'[p] = called[p]
           /\ Logged(r, i, k + 1)'
<1>1. /\ Densities' = Densities
      /\ \A p : Group(p)' = Group(p)
      /\ \A p, n : OwnRho(p, n)' = OwnRho(p, n)
      /\ \A p, n : Script(p, n)' = Script(p, n)
      /\ \A name, p, n : Before(name, p, n)' = Before(name, p, n)
  BY Kept DEF Same
<1>2. PICK ops \in Seq(Operation) : ops = Script(r, i)
  BY ScriptShape
<1>3. /\ k + 1 \in 1 .. Len(ops) /\ k \in Nat /\ Len(ops) \in Nat
      /\ op = ops[k + 1] /\ op \in Operation
  BY <1>2
<1>4. op.comm \in Names /\ op.what \in Whats /\ op.bcast \in BOOLEAN
  BY <1>3 DEF Operation
<1> DEFINE e == [what |-> op.what, content |-> Content(r, op)]
           old == called[r][op.comm]
<1>5. /\ e.what = op.what
      /\ op.what = "conv_elec" => e.content = conv_elec'[r]
      /\ op.what = "rho" => e.content = rho'[r][1]
      /\ op.what \notin {"conv_elec", "rho"} => e.content = {}
  BY DEF Content
<1>6. e \in Entry
  <2>1. e.content \in BOOLEAN \cup Densities \cup {{}}
    BY <1>5
  <2> QED
    BY <1>4, <2>1 DEF Entry
<1> HIDE DEF e
<1>7. called \in [Procs -> [Names -> Seq(Entry)]]
  BY DEF ControlInv
<1>8. /\ called'[r][op.comm] = Append(old, e)
      /\ \A name \in Names \ {op.comm} : called'[r][name] = called[r][name]
      /\ \A p \in Procs \ {r} : called'[p] = called[p]
  BY <1>4, <1>7 DEF e
<1>9. /\ old \in Seq(Entry) /\ Append(old, e) \in Seq(Entry)
      /\ Len(Append(old, e)) = Len(old) + 1
      /\ \A n \in 1 .. Len(old) : Append(old, e)[n] = old[n]
      /\ Append(old, e)[Len(old) + 1] = e
  BY <1>4, <1>6, <1>7, AppendProperties
<1>10. called' \in [Procs -> [Names -> Seq(Entry)]]
  BY <1>4, <1>7, <1>9 DEF e
<1>11. /\ \A name \in Names : Count(name, ops, k + 1)
             = IF op.comm = name THEN Count(name, ops, k) + 1 ELSE Count(name, ops, k)
       /\ \A name \in Names : Count(name, ops, k) \in Nat
       /\ \A name \in Names : Before(name, r, i) \in Nat
  <2>1. \A name \in Names : Count(name, ops, k) \in Nat /\ Count(name, ops, k + 1)
             = IF op.comm = name THEN Count(name, ops, k) + 1 ELSE Count(name, ops, k)
    BY <1>3, CountStep
  <2>2. i \in Nat \ {0}
    BY Layout
  <2>3. \A name \in Names : Before(name, r, i) \in Nat
    BY <2>2, BeforeNext
  <2> QED
    BY <2>1, <2>3
<1> HIDE DEF old
<1>12. ASSUME NEW name, NEW n, NEW i1, NEW j1, CalledAt(r, name, n, i1, j1),
              called'[r][name][n] = called[r][name][n]
       PROVE  CalledAt(r, name, n, i1, j1)'
  BY <1>12, CalledAtKept
<1>13. ASSUME NEW name \in Names
       PROVE  /\ Len(called'[r][name]) = Before(name, r, i) + Count(name, ops, k + 1)
              /\ \A n \in 1 .. Len(called'[r][name]) :
                    \E i1 \in 1 .. i : \E j1 \in 1 .. Len(Script(r, i1)) :
                       CalledAt(r, name, n, i1, j1)'
  <2>1. /\ Len(called[r][name]) = Before(name, r, i) + Count(name, ops, k)
        /\ \A n \in 1 .. Len(called[r][name]) :
              \E i1 \in 1 .. i : \E j1 \in 1 .. Len(Script(r, i1)) :
                 CalledAt(r, name, n, i1, j1)
    BY <1>2 DEF Logged
  <2>2. CASE name # op.comm
    <3>1. called'[r][name] = called[r][name]
      BY <1>8, <2>2
    <3>2. Count(name, ops, k + 1) = Count(name, ops, k)
      BY <1>11, <2>2
    <3> QED
      BY <1>12, <2>1, <3>1, <3>2
  <2>3. CASE name = op.comm
    <3>0. PICK l \in Nat : l = Len(old)
      BY <1>9
    <3>1. called'[r][name] = Append(old, e)
      BY <1>8, <2>3
    <3>2. l = Before(name, r, i) + Count(name, ops, k)
      BY <2>1, <2>3, <3>0 DEF old
    <3>3. Len(called'[r][name]) = Before(name, r, i) + Count(name, ops, k + 1)
      <4>1. /\ Count(name, ops, k + 1) = Count(name, ops, k) + 1
            /\ Count(name, ops, k) \in Nat /\ Before(name, r, i) \in Nat
        BY <1>11, <2>3
      <4>2. Len(called'[r][name]) = l + 1
        BY <1>9, <3>0, <3>1
      <4> QED
        BY <3>2, <4>1, <4>2
    <3>4. ASSUME NEW n \in 1 .. l
          PROVE  \E i1 \in 1 .. i : \E j1 \in 1 .. Len(Script(r, i1)) :
                    CalledAt(r, name, n, i1, j1)'
      <4>1. called'[r][name][n] = called[r][name][n]
        BY <1>9, <2>3, <3>0, <3>1 DEF old
      <4>2. PICK i1 \in 1 .. i : \E j1 \in 1 .. Len(Script(r, i1)) : CalledAt(r, name, n, i1, j1)
        BY <2>1, <2>3, <3>0 DEF old
      <4> QED
        BY <1>12, <4>1, <4>2
    <3>5. CalledAt(r, name, l + 1, i, k + 1)'
      <4>1. called'[r][name][l + 1] = e
        BY <1>9, <3>0, <3>1
      <4>2. l + 1 = Before(name, r, i) + Count(name, ops, k + 1)
        <5>1. /\ Count(name, ops, k + 1) = Count(name, ops, k) + 1
              /\ Count(name, ops, k) \in Nat /\ Before(name, r, i) \in Nat
          BY <1>11, <2>3
        <5> QED
          BY <3>2, <5>1
      <4>3. /\ ops[k + 1].comm = name
            /\ e.what = ops[k + 1].what
            /\ e.what = "conv_elec" => e.content \in BOOLEAN
            /\ e.what = "rho" => e.content \in Densities
            /\ ops[k + 1].bcast /\ e.what = "rho" /\ Group(r) = 0 => e.content = OwnRho(r, i)
        BY <1>3, <1>5, <2>3
      <4> QED
        BY <1>1, <1>2, <4>1, <4>2, <4>3 DEF CalledAt
    <3>6. \A n \in 1 .. Len(called'[r][name]) : n \in 1 .. l \/ n = l + 1
      BY <1>9, <3>0, <3>1
    <3>7. i \in 1 .. i /\ k + 1 \in 1 .. Len(Script(r, i))
      BY <1>2, <1>3
    <3>8. ASSUME NEW n \in 1 .. Len(called'[r][name])
          PROVE  \E i1 \in 1 .. i : \E j1 \in 1 .. Len(Script(r, i1)) :
                    CalledAt(r, name, n, i1, j1)'
      <4>1. CASE n \in 1 .. l
        BY <3>4, <4>1
      <4>2. CASE n = l + 1
        BY <3>5, <3>7, <4>2
      <4> QED
        BY <3>6, <4>1, <4>2
    <3> QED
      BY <3>3, <3>8
  <2> QED
    BY <2>2, <2>3
<1>14. Logged(r, i, k + 1)'
  BY <1>1, <1>2, <1>13 DEF Logged
<1> QED
  BY <1>8, <1>10, <1>14

\* The other processes stay where they are.
LEMMA OthersKept ==
    ASSUME Same, NEW p, NEW i, InIteration(p, i),
           todo'[p] = todo[p], called'[p] = called[p]
    PROVE  InIteration(p, i)'
<1>1. PICK k \in 1 .. Len(Script(p, i)) :
          /\ Logged(p, i, k)
          /\ \/ todo[p] = <<>> /\ k = Len(Script(p, i))
             \/ /\ Len(todo[p]) = Len(Script(p, i)) - k + 1
                /\ \A q \in 1 .. Len(todo[p]) : todo[p][q] = Script(p, i)[k - 1 + q]
  BY DEF InIteration
<1>2. Script(p, i)' = Script(p, i)
  BY Kept DEF Same
<1>3. Logged(p, i, k)'
  BY <1>1, LoggedKept
<1>4. /\ k \in 1 .. Len(Script(p, i)')
      /\ \/ todo'[p] = <<>> /\ k = Len(Script(p, i)')
         \/ /\ Len(todo'[p]) = Len(Script(p, i)') - k + 1
            /\ \A q \in 1 .. Len(todo'[p]) : todo'[p][q] = Script(p, i)'[k - 1 + q]
  BY <1>1, <1>2
<1> QED
  BY <1>3, <1>4 DEF InIteration

\* A process that calls the next operation of its iteration i
LEMMA Advance ==
    ASSUME IInv, Same, NEW r \in Procs, NEW i \in 1 .. case.SCF_NMAX,
           NEW k \in 0 .. Len(Script(r, i)) - 1, Logged(r, i, k),
           NEW ops \in Seq(Operation), Len(ops) = Len(Script(r, i)) - k,
           \A q \in 1 .. Len(ops) : ops[q] = Script(r, i)[k + q],
           Call(r, ops),
           iter' = [iter EXCEPT ![r] = i], left' = left,
           conv_elec' \in [Procs -> BOOLEAN],
           rho' \in [Procs -> [1 .. case.NSPIN -> Densities]],
           Group(r) = 0 => \A is \in 1 .. case.NSPIN : rho'[r][is] = OwnRho(r, i),
           \A p \in Procs \ {r} : rho'[p] = rho[p]
    PROVE  IInv'
<1>1. /\ Procs' = Procs /\ Operation' = Operation /\ Densities' = Densities
      /\ Entry' = Entry /\ SettingsInv'
      /\ \A p : Group(p)' = Group(p)
      /\ \A p, n : OwnRho(p, n)' = OwnRho(p, n)
      /\ \A p, n : Script(p, n)' = Script(p, n)
      /\ case' = case
  BY Kept DEF IInv, Same
<1>2. /\ SettingsInv /\ ControlInv /\ CallsInv /\ RhoInv
      /\ case.SCF_NMAX \in Nat \ {0} /\ case.NSPIN \in Nat \ {0}
  BY Layout DEF IInv
<1>3. /\ ops # <<>> /\ Len(ops) \in Nat \ {0} /\ Head(ops) = ops[1]
      /\ ops[1] \in Operation /\ Len(Script(r, i)) \in Nat
  <2>1. Len(Script(r, i)) \in Nat
    BY <1>2, ScriptShape
  <2> QED
    BY <2>1
<1>4. PICK op : op = ops[1]
  OBVIOUS
<1>5. op = Script(r, i)[k + 1]
  BY <1>3, <1>4
<1>6. /\ todo' = [todo EXCEPT ![r] = ops]
      /\ called' = [called EXCEPT ![r][op.comm] =
                        Append(@, [what |-> op.what, content |-> Content(r, op)])]
  BY <1>3, <1>4 DEF Call
<1>7. /\ conv_elec'[r] \in BOOLEAN
      /\ rho'[r][1] \in Densities
      /\ Group(r) = 0 /\ op.bcast /\ op.what = "rho" => rho'[r][1] = OwnRho(r, i)
  <2>1. 1 \in 1 .. case.NSPIN
    BY <1>2
  <2>2. conv_elec'[r] \in BOOLEAN
    OBVIOUS
  <2>3. rho'[r][1] \in Densities
    BY <2>1
  <2> QED
    BY <2>1, <2>2, <2>3
<1>8. /\ called' \in [Procs -> [Names -> Seq(Entry)]]
      /\ \A p \in Procs \ {r} : called'[p] = called[p]
      /\ Logged(r, i, k + 1)'
  BY <1>2, <1>5, <1>6, <1>7, CallNext
<1>9. /\ todo' \in [Procs -> Seq(Operation)] /\ todo'[r] = ops
      /\ \A p \in Procs \ {r} : todo'[p] = todo[p]
      /\ iter' \in [Procs -> 0 .. case.SCF_NMAX] /\ iter'[r] = i
      /\ \A p \in Procs \ {r} : iter'[p] = iter[p]
  BY <1>2, <1>6 DEF ControlInv
<1>10. ControlInv'
  <2>1. ASSUME NEW p \in Procs
        PROVE  /\ iter'[p] = case.SCF_NMAX /\ todo'[p] = <<>> => p \in left'
               /\ iter'[p] = 0 => /\ todo'[p] = <<>>
                                  /\ \A name \in Names : called'[p][name] = <<>>
    BY <1>2, <1>3, <1>8, <1>9 DEF ControlInv
  <2> QED
    BY <1>1, <1>2, <1>8, <1>9, <2>1 DEF ControlInv
<1>11. InIteration(r, i)'
  <2>1. k + 1 \in 1 .. Len(Script(r, i))
    BY <1>3
  <2>2. Len(ops) = Len(Script(r, i)) - (k + 1) + 1
    BY <1>3
  <2>3. \A q \in 1 .. Len(ops) : ops[q] = Script(r, i)[(k + 1) - 1 + q]
    BY <1>3
  <2>4. PICK n : n = k + 1
    OBVIOUS
  <2>5. /\ n \in 1 .. Len(Script(r, i)')
        /\ Len(todo'[r]) = Len(Script(r, i)') - n + 1
        /\ \A q \in 1 .. Len(todo'[r]) : todo'[r][q] = Script(r, i)'[n - 1 + q]
    BY <1>1, <1>9, <2>1, <2>2, <2>3, <2>4
  <2>6. Logged(r, i, n)'
    BY <1>8, <2>4
  <2> QED
    BY <2>5, <2>6 DEF InIteration
<1>12. CallsInv'
  <2>1. ASSUME NEW p \in Procs, NEW n \in 1 .. case.SCF_NMAX, iter'[p] = n
        PROVE  InIteration(p, n)'
    <3>1. CASE p = r
      BY <1>9, <1>11, <2>1, <3>1
    <3>2. CASE p # r
      <4>1. InIteration(p, n)
        BY <1>2, <1>9, <2>1, <3>2 DEF CallsInv
      <4> QED
        BY <1>8, <1>9, <3>2, <4>1, OthersKept
    <3> QED
      BY <3>1, <3>2
  <2> QED
    BY <1>1, <2>1 DEF CallsInv
<1>13. RhoInv'
  <2>1. ASSUME NEW p \in Procs, NEW n \in 1 .. case.SCF_NMAX, iter'[p] = n
        PROVE  /\ Group(p) = 0 => \A is \in 1 .. case.NSPIN : rho'[p][is] = OwnRho(p, n)
               /\ todo'[p] = <<>> =>
                     rho'[p][1] = [iter |-> n, part |-> RANK_IN_STOGROUP(case, p)]
    <3>1. CASE p = r
      <4>1. n = i /\ todo'[p] # <<>>
        BY <1>3, <1>9, <2>1, <3>1
      <4> QED
        BY <3>1, <4>1
    <3>2. CASE p # r
      <4>1. iter[p] = n /\ todo'[p] = todo[p] /\ rho'[p] = rho[p]
        BY <1>9, <2>1, <3>2
      <4>2. /\ Group(p) = 0 => \A is \in 1 .. case.NSPIN : rho[p][is] = OwnRho(p, n)
            /\ todo[p] = <<>> =>
                  rho[p][1] = [iter |-> n, part |-> RANK_IN_STOGROUP(case, p)]
        BY <1>2, <4>1 DEF RhoInv
      <4> QED
        BY <4>1, <4>2
    <3> QED
      BY <3>1, <3>2
  <2> QED
    BY <1>1, <2>1 DEF RhoInv
<1> QED
  BY <1>1, <1>10, <1>12, <1>13 DEF IInv

\* The first iteration begins with nothing called, the others after the one
\* before.
LEMMA BeginInv ==
    ASSUME IInv, NEW r \in Procs, BeginIteration(r)
    PROVE  IInv'
<1>1. /\ SettingsInv /\ ControlInv /\ CallsInv /\ RhoInv
      /\ case.SCF_NMAX \in Nat \ {0} /\ case.NSPIN \in Nat \ {0}
      /\ RANK_IN_STOGROUP(case, r) \in Procs
  BY Layout DEF IInv
<1>2. /\ r \notin left /\ todo[r] = <<>>
      /\ iter' = [iter EXCEPT ![r] = @ + 1]
      /\ rho' = [rho EXCEPT ![r] = [is \in 1 .. case.NSPIN |-> OwnRho(r, iter[r] + 1)]]
      /\ Call(r, Iteration(r))
      /\ conv_elec' = conv_elec /\ left' = left /\ Same
  BY DEF BeginIteration, Same
<1>3. iter[r] \in 0 .. case.SCF_NMAX /\ iter[r] # case.SCF_NMAX
  BY <1>1, <1>2 DEF ControlInv
<1>4. PICK i \in 1 .. case.SCF_NMAX : i = iter[r] + 1
  BY <1>1, <1>3
<1>5. Iteration(r) = Script(r, i)
  <2>1. (iter[r] = 0) <=> (i = 1)
    BY <1>3, <1>4
  <2> QED
    BY <2>1 DEF Iteration, Script, Body, Redo
<1>6. /\ Script(r, i) \in Seq(Operation) /\ Len(Script(r, i)) \in Nat /\ Len(Script(r, i)) >= 3
  <2>1. /\ Script(r, i) \in Seq(Operation) /\ Len(Script(r, i)) = Len(Body(r, i)) + 3
        /\ Len(Body(r, i)) \in Nat
    BY <1>1, ScriptShape
  <2> QED
    BY <2>1
<1>7. Logged(r, i, 0)
  <2>1. \A name : Count(name, Script(r, i), 0) = 0
    BY <1>6, CountStep
  <2>2. CASE i = 1
    <3>1. \A name \in Names : called[r][name] = <<>> /\ Before(name, r, i) = 0
      BY <1>1, <1>3, <1>4, <2>2 DEF ControlInv, Before
    <3> QED
      BY <2>1, <3>1 DEF Logged
  <2>3. CASE i > 1
    <3>1. PICK h \in 1 .. case.SCF_NMAX : iter[r] = h /\ i = h + 1 /\ h \in Nat \ {0}
      BY <1>1, <1>3, <1>4, <2>3
    <3>2. InIteration(r, h)
      BY <1>1, <3>1 DEF CallsInv
    <3>3. Script(r, h) \in Seq(Operation) /\ Len(Script(r, h)) \in Nat
      <4>1. Script(r, h) \in Seq(Operation)
        BY <1>1, ScriptShape
      <4> QED
        BY <4>1
    <3>4. Logged(r, h, Len(Script(r, h)))
      <4>1. PICK k \in 1 .. Len(Script(r, h)) :
                /\ Logged(r, h, k)
                /\ \/ k = Len(Script(r, h))
                   \/ Len(todo[r]) = Len(Script(r, h)) - k + 1
        BY <3>2 DEF InIteration
      <4>2. k = Len(Script(r, h))
        <5>1. Len(todo[r]) = 0
          BY <1>2
        <5> QED
          BY <3>3, <4>1, <5>1
      <4> QED
        BY <4>1, <4>2
    <3>5. \A name : Before(name, r, i) = Before(name, r, h) + Count(name, Script(r, h), Len(Script(r, h)))
                    /\ Before(name, r, i) \in Nat
      <4>1. i \in Nat \ {0}
        BY <1>1
      <4> QED
        BY <1>1, <3>1, <4>1, BeforeNext DEF CountAll
    <3>6. 1 .. h \subseteq 1 .. i
      BY <3>1
    <3>7. ASSUME NEW name \in Names
          PROVE  /\ Len(called[r][name]) = Before(name, r, i) + Count(name, Script(r, i), 0)
                 /\ \A n \in 1 .. Len(called[r][name]) :
                       \E i1 \in 1 .. i : \E j1 \in 1 .. Len(Script(r, i1)) :
                          CalledAt(r, name, n, i1, j1)
      <4>1. /\ Len(called[r][name]) = Before(name, r, i)
            /\ \A n \in 1 .. Len(called[r][name]) :
                  \E i1 \in 1 .. h : \E j1 \in 1 .. Len(Script(r, i1)) :
                     CalledAt(r, name, n, i1, j1)
        BY <3>4, <3>5 DEF Logged
      <4>2. Len(called[r][name]) = Before(name, r, i) + Count(name, Script(r, i), 0)
        BY <2>1, <3>5, <4>1
      <4>3. ASSUME NEW n \in 1 .. Len(called[r][name])
            PROVE  \E i1 \in 1 .. i : \E j1 \in 1 .. Len(Script(r, i1)) :
                      CalledAt(r, name, n, i1, j1)
        BY <3>6, <4>1
      <4> QED
        BY <4>2, <4>3
    <3> QED
      BY <3>7 DEF Logged
  <2> QED
    BY <1>1, <2>2, <2>3
<1>8. OwnRho(r, i) \in Densities
  <2>1. Group(r) \in Int
    BY <1>1, Layout DEF Groups
  <2> QED
    BY <1>1 DEF OwnRho, Densities
<1>9. /\ rho' \in [Procs -> [1 .. case.NSPIN -> Densities]]
      /\ \A is \in 1 .. case.NSPIN : rho'[r][is] = OwnRho(r, i)
      /\ \A p \in Procs \ {r} : rho'[p] = rho[p]
  <2> DEFINE own == [is \in 1 .. case.NSPIN |-> OwnRho(r, i)]
  <2>1. rho' = [rho EXCEPT ![r] = own] /\ own \in [1 .. case.NSPIN -> Densities]
    BY <1>2, <1>4, <1>8
  <2>2. rho \in [Procs -> [1 .. case.NSPIN -> Densities]]
    BY <1>1 DEF RhoInv
  <2>3. \A is \in 1 .. case.NSPIN : own[is] = OwnRho(r, i)
    OBVIOUS
  <2> HIDE DEF own
  <2> QED
    BY <2>1, <2>2, <2>3
<1>10. /\ 0 \in 0 .. Len(Script(r, i)) - 1
       /\ Len(Script(r, i)) = Len(Script(r, i)) - 0
       /\ \A q \in 1 .. Len(Script(r, i)) : Script(r, i)[q] = Script(r, i)[0 + q]
  BY <1>6
<1>11. Call(r, Script(r, i)) /\ iter' = [iter EXCEPT ![r] = i]
  BY <1>1, <1>2, <1>4, <1>5 DEF ControlInv
<1>12. conv_elec' \in [Procs -> BOOLEAN]
  BY <1>1, <1>2 DEF ControlInv
<1> QED
  BY <1>2, <1>6, <1>7, <1>9, <1>10, <1>11, <1>12, Advance

\* A process in one of its operations goes on to the next.
LEMMA NextOfIteration ==
    ASSUME IInv, NEW r \in Procs, todo[r] # <<>>, Len(todo[r]) > 1, Same,
           Call(r, Tail(todo[r])), iter' = iter, left' = left,
           conv_elec' \in [Procs -> BOOLEAN], rho' = rho
    PROVE  IInv'
<1>1. /\ SettingsInv /\ ControlInv /\ CallsInv /\ RhoInv
      /\ case.SCF_NMAX \in Nat \ {0}
  BY Layout DEF IInv
<1>2. PICK i \in 1 .. case.SCF_NMAX : iter[r] = i
  BY Calling
<1>3. InIteration(r, i)
  BY <1>1, <1>2 DEF CallsInv
<1>4. PICK t \in Seq(Operation) : t = todo[r]
  BY <1>1 DEF ControlInv
<1>5. PICK ops \in Seq(Operation) : ops = Script(r, i)
  BY <1>1, ScriptShape
<1>6. PICK k \in 1 .. Len(ops) :
          /\ Logged(r, i, k)
          /\ Len(t) = Len(ops) - k + 1
          /\ \A q \in 1 .. Len(t) : t[q] = ops[k - 1 + q]
  BY <1>3, <1>4, <1>5 DEF InIteration
<1>7. /\ Len(t) > 1 /\ t # <<>> /\ Len(ops) \in Nat
      /\ Tail(t) \in Seq(Operation) /\ Len(Tail(t)) = Len(t) - 1
      /\ \A q \in 1 .. Len(t) - 1 : Tail(t)[q] = t[q + 1]
  BY <1>4
<1>8. /\ k \in 0 .. Len(ops) - 1
      /\ Len(Tail(t)) = Len(ops) - k
      /\ \A q \in 1 .. Len(Tail(t)) : Tail(t)[q] = ops[k + q]
  <2>1. k \in 0 .. Len(ops) - 1 /\ Len(Tail(t)) = Len(ops) - k
    BY <1>6, <1>7
  <2>2. ASSUME NEW q \in 1 .. Len(Tail(t)) PROVE Tail(t)[q] = ops[k + q]
    <3>1. q \in 1 .. Len(t) - 1 /\ q + 1 \in 1 .. Len(t) /\ k - 1 + (q + 1) = k + q
      BY <1>6, <1>7
    <3>2. Tail(t)[q] = t[q + 1] /\ t[q + 1] = ops[k - 1 + (q + 1)]
      BY <1>6, <1>7, <3>1
    <3> QED
      BY <3>1, <3>2
  <2> QED
    BY <2>1, <2>2
<1>9. iter' = [iter EXCEPT ![r] = i]
  BY <1>1, <1>2 DEF ControlInv
<1>10. /\ rho' \in [Procs -> [1 .. case.NSPIN -> Densities]]
       /\ Group(r) = 0 => \A is \in 1 .. case.NSPIN : rho'[r][is] = OwnRho(r, i)
       /\ \A p \in Procs \ {r} : rho'[p] = rho[p]
  BY <1>1, <1>2 DEF RhoInv
<1>11. PICK rest \in Seq(Operation) : rest = Tail(t)
  BY <1>7
<1>12. /\ k \in 0 .. Len(Script(r, i)) - 1
       /\ Logged(r, i, k)
       /\ Len(rest) = Len(Script(r, i)) - k
       /\ \A q \in 1 .. Len(rest) : rest[q] = Script(r, i)[k + q]
       /\ Call(r, rest)
  BY <1>4, <1>5, <1>6, <1>8, <1>11
<1> QED
  BY <1>9, <1>10, <1>12, Advance

LEMMA ReturnInv ==
    ASSUME IInv, GroupsSymmetrizeAlike(case), NEW r \in Procs, Return(r)
    PROVE  IInv'
<1>1. /\ SettingsInv /\ ControlInv
  BY DEF IInv
<1>2. /\ todo[r] # <<>> /\ Len(todo[r]) > 1 /\ Returns(r) /\ Receive(r)
      /\ Call(r, Tail(todo[r])) /\ iter' = iter /\ left' = left /\ Same
  BY DEF Return, Same
<1>3. ~(Op(r).bcast /\ Op(r).what = "rho")
  <2>1. PICK i, j, l : /\ i = iter[r] /\ l = Len(Script(r, i))
                       /\ j = l - Len(todo[r]) + 1
    OBVIOUS
  <2>2. Len(todo[r]) \in 1 .. l /\ Op(r) = Script(r, i)[j]
    BY <1>2, <2>1, Calling
  <2> DEFINE b == Len(Body(r, i))
  <2>3. /\ b \in Nat /\ l = b + 3 /\ Body(r, i) \in Seq(BodyOp)
        /\ \A k \in 1 .. b + 3 :
              Script(r, i)[k] = IF k <= b THEN Body(r, i)[k] ELSE Results[k - b]
        /\ Results[1].what = "drho" /\ Results[2].what = "conv_elec"
    <3>1. /\ b \in Nat /\ Len(Script(r, i)) = b + 3 /\ Body(r, i) \in Seq(BodyOp)
          /\ Results[1] = [comm |-> "PARAPW_WORLD", what |-> "drho", bcast |-> TRUE]
          /\ Results[2] = [comm |-> "PARAPW_WORLD", what |-> "conv_elec", bcast |-> TRUE]
      BY <1>1, ScriptShape
    <3>2. \A k \in 1 .. b + 3 :
             Script(r, i)[k] = IF k <= b THEN Body(r, i)[k] ELSE Results[k - b]
      BY <1>1, ScriptShape
    <3> QED  BY <2>1, <3>1, <3>2
  <2>4. \A k \in 1 .. b : Body(r, i)[k] \in BodyOp
    BY <2>3
  <2> HIDE DEF b
  <2>5. j \in 1 .. b + 2
    <3>1. PICK n : n = Len(todo[r])
      OBVIOUS
    <3>2. n \in 1 .. l /\ n > 1 /\ j = l - n + 1
      BY <1>2, <2>1, <2>2, <3>1
    <3> QED
      BY <2>3, <3>2
  <2>6. CASE j <= b
    <3>1. Op(r) \in BodyOp
      BY <2>2, <2>3, <2>4, <2>5, <2>6
    <3> QED
      BY <3>1 DEF BodyOp
  <2>7. CASE j > b
    <3>1. j = b + 1 \/ j = b + 2
      BY <2>3, <2>5, <2>7
    <3>2. (b + 1) - b = 1 /\ (b + 2) - b = 2 /\ ~(b + 1 <= b) /\ ~(b + 2 <= b)
      BY <2>3
    <3>3. Op(r) = Results[1] \/ Op(r) = Results[2]
      BY <2>2, <2>3, <2>5, <3>1, <3>2
    <3> QED
      BY <2>3, <3>3
  <2> QED
    BY <2>3, <2>5, <2>6, <2>7
<1>4. rho' = rho
  BY <1>2, <1>3 DEF Receive
<1>5. conv_elec' \in [Procs -> BOOLEAN]
  <2>1. conv_elec \in [Procs -> BOOLEAN]
    BY <1>1 DEF ControlInv
  <2>2. CASE Op(r).what = "conv_elec" /\ Op(r).bcast
    <3>1. Sent(r) \in BOOLEAN
      BY <1>2, <2>2, Received
    <3>2. conv_elec' = [conv_elec EXCEPT ![r] = Sent(r)]
      BY <1>2, <2>2 DEF Receive
    <3> QED
      BY <2>1, <3>1, <3>2
  <2>3. CASE ~(Op(r).what = "conv_elec" /\ Op(r).bcast)
    BY <1>2, <2>1, <2>3 DEF Receive
  <2> QED
    BY <2>2, <2>3
<1> QED
  BY <1>2, <1>4, <1>5, NextOfIteration

LEMMA DecideInv ==
    ASSUME IInv, NEW r \in Procs, Decide(r)
    PROVE  IInv'
<1>1. /\ SettingsInv /\ ControlInv
  BY DEF IInv
<1>2. /\ todo[r] # <<>> /\ Tail(todo[r]) = Results /\ rho' = rho
      /\ Call(r, Tail(todo[r])) /\ iter' = iter /\ left' = left /\ Same
  BY DEF Decide, Same
<1>3. Len(todo[r]) > 1
  <2>1. PICK t \in Seq(Operation) : t = todo[r]
    BY <1>1 DEF ControlInv
  <2>2. Len(Results) = 3
    BY <1>1, ScriptShape
  <2>3. t # <<>> /\ Len(Tail(t)) = 3
    BY <1>2, <2>1, <2>2
  <2>4. PICK n \in Nat : n = Len(t)
    BY <2>1
  <2>5. n - 1 = 3
    BY <2>1, <2>3, <2>4
  <2>6. n > 1
    <3>1. \A k \in Nat : k - 1 = 3 => k > 1
      OBVIOUS
    <3> QED
      BY <2>5, <3>1
  <2>7. Len(todo[r]) = n
    BY <2>1, <2>4
  <2> QED
    BY <2>6, <2>7
<1>4. conv_elec' \in [Procs -> BOOLEAN]
  <2> DEFINE c == ConvergedByDensity(r)
  <2>1. c \in BOOLEAN
    BY DEF ConvergedByDensity
  <2>2. conv_elec \in [Procs -> BOOLEAN]
    BY <1>1 DEF ControlInv
  <2>3. conv_elec' = IF Group(r) = 0 THEN [conv_elec EXCEPT ![r] = c] ELSE conv_elec
    BY DEF Decide
  <2> HIDE DEF c
  <2> QED
    BY <2>1, <2>2, <2>3
<1> QED
  BY <1>2, <1>3, <1>4, NextOfIteration

LEMMA EndInv ==
    ASSUME IInv, GroupsSymmetrizeAlike(case), NEW r \in Procs, EndIteration(r)
    PROVE  IInv'
<1>1. /\ SettingsInv /\ ControlInv /\ CallsInv /\ RhoInv
      /\ case.SCF_NMAX \in Nat \ {0} /\ case.NSPIN \in Nat \ {0}
      /\ RANK_IN_STOGROUP(case, r) \in Procs
  BY Layout DEF IInv
<1>2. /\ Len(todo[r]) = 1 /\ Returns(r) /\ rho' = [rho EXCEPT ![r][1] = Sent(r)]
      /\ todo' = [todo EXCEPT ![r] = <<>>] /\ called' = called /\ iter' = iter /\ Same
  BY DEF EndIteration, Call, Same
<1>3. todo[r] # <<>>
  <2>1. Len(<<>>) = 0
    OBVIOUS
  <2> QED
    BY <1>2, <2>1
<1>4. PICK i \in 1 .. case.SCF_NMAX : iter[r] = i
  BY <1>3, Calling
<1>5. PICK l \in Nat \ {0} : l = Len(Script(r, i)) /\ Script(r, i)[l] = Results[3]
  <2> DEFINE b == Len(Body(r, i))
  <2>1. /\ b \in Nat /\ Len(Script(r, i)) = b + 3
        /\ \A k \in 1 .. b + 3 :
              Script(r, i)[k] = IF k <= b THEN Body(r, i)[k] ELSE Results[k - b]
    BY <1>1, ScriptShape
  <2> HIDE DEF b
  <2>2. b + 3 \in 1 .. b + 3 /\ ~(b + 3 <= b) /\ (b + 3) - b = 3
    BY <2>1
  <2> QED
    BY <2>1, <2>2
<1>6. Logged(r, i, l)
  <2>1. PICK k \in 1 .. Len(Script(r, i)) :
            Logged(r, i, k) /\ Len(todo[r]) = Len(Script(r, i)) - k + 1
    BY <1>1, <1>3, <1>4 DEF CallsInv, InIteration
  <2>2. k \in 1 .. l /\ 1 = l - k + 1
    BY <1>2, <1>5, <2>1
  <2>3. k = l
    BY <2>2
  <2> QED
    BY <2>1, <2>3
<1>7. Op(r).bcast /\ Op(r).what = "rho"
  <2>1. Op(r) = Script(r, i)[Len(Script(r, i)) - 1 + 1]
    BY <1>2, <1>3, <1>4, Calling
  <2>2. Len(Script(r, i)) - 1 + 1 = l
    BY <1>5
  <2>3. Op(r) = Results[3]
    BY <1>5, <2>1, <2>2
  <2>4. Results[3] = [comm |-> "PARAPW_WORLD", what |-> "rho", bcast |-> TRUE]
    BY <1>1, ScriptShape
  <2> QED
    BY <2>3, <2>4
<1>8. Sent(r) = [iter |-> i, part |-> RANK_IN_STOGROUP(case, r)]
  BY <1>2, <1>3, <1>4, <1>7, Received
<1> DEFINE d == [iter |-> i, part |-> RANK_IN_STOGROUP(case, r)]
<1>9. d \in Densities
  BY <1>1 DEF Densities
<1>10. /\ rho' \in [Procs -> [1 .. case.NSPIN -> Densities]]
       /\ rho'[r][1] = d
       /\ \A is \in 1 .. case.NSPIN : is # 1 => rho'[r][is] = rho[r][is]
       /\ \A p \in Procs \ {r} : rho'[p] = rho[p]
  <2>1. rho \in [Procs -> [1 .. case.NSPIN -> Densities]] /\ 1 \in 1 .. case.NSPIN
    BY <1>1 DEF RhoInv
  <2>2. rho' = [rho EXCEPT ![r][1] = d]
    BY <1>2, <1>8
  <2> HIDE DEF d
  <2> QED
    BY <1>9, <2>1, <2>2
<1>11. Group(r) = 0 => d = OwnRho(r, i)
  BY DEF OwnRho
<1> HIDE DEF d
<1>12. /\ Procs' = Procs /\ Operation' = Operation /\ Densities' = Densities
       /\ Entry' = Entry /\ SettingsInv' /\ case' = case
       /\ \A p : Group(p)' = Group(p)
       /\ \A p, n : OwnRho(p, n)' = OwnRho(p, n)
       /\ \A p, n : Script(p, n)' = Script(p, n)
  BY <1>1, <1>2, Kept DEF Same
<1>13. /\ todo' \in [Procs -> Seq(Operation)] /\ todo'[r] = <<>>
       /\ \A p \in Procs \ {r} : todo'[p] = todo[p]
  BY <1>1, <1>2 DEF ControlInv
<1>14. conv_elec' \in [Procs -> BOOLEAN]
  <2> DEFINE c == conv_elec[r] \/ ConvergedByEnergy(r)
  <2>1. c \in BOOLEAN
    OBVIOUS
  <2>2. conv_elec \in [Procs -> BOOLEAN]
    BY <1>1 DEF ControlInv
  <2>3. conv_elec' = [conv_elec EXCEPT ![r] = c]
    BY DEF EndIteration
  <2> HIDE DEF c
  <2> QED
    BY <2>1, <2>2, <2>3
<1>15. /\ left' \in SUBSET Procs /\ left \subseteq left'
       /\ iter[r] = case.SCF_NMAX => r \in left'
  <2> DEFINE c == conv_elec'[r]
  <2>1. left' = IF c \/ iter[r] = case.SCF_NMAX THEN left \cup {r} ELSE left
    BY DEF EndIteration
  <2>2. left \subseteq Procs
    BY <1>1 DEF ControlInv
  <2> HIDE DEF c
  <2> QED
    BY <2>1, <2>2
<1>16. ControlInv'
  <2>1. ASSUME NEW p \in Procs
        PROVE  /\ iter'[p] = case.SCF_NMAX /\ todo'[p] = <<>> => p \in left'
               /\ iter'[p] = 0 => /\ todo'[p] = <<>>
                                  /\ \A name \in Names : called'[p][name] = <<>>
    BY <1>1, <1>2, <1>13, <1>15 DEF ControlInv
  <2>2. iter' \in [Procs -> 0 .. case.SCF_NMAX] /\ called' \in [Procs -> [Names -> Seq(Entry)]]
    BY <1>1, <1>2 DEF ControlInv
  <2> QED
    BY <1>12, <1>13, <1>14, <1>15, <2>1, <2>2 DEF ControlInv
<1>17. InIteration(r, i)'
  <2>1. Logged(r, i, l)'
    BY <1>2, <1>6, LoggedKept
  <2>2. l \in 1 .. Len(Script(r, i)') /\ todo'[r] = <<>> /\ l = Len(Script(r, i)')
    BY <1>5, <1>12, <1>13
  <2> QED
    BY <2>1, <2>2 DEF InIteration
<1>18. CallsInv'
  <2>1. ASSUME NEW p \in Procs, NEW n \in 1 .. case.SCF_NMAX, iter'[p] = n
        PROVE  InIteration(p, n)'
    <3>1. CASE p = r
      BY <1>2, <1>4, <1>17, <2>1, <3>1
    <3>2. CASE p # r
      <4>1. InIteration(p, n)
        BY <1>1, <1>2, <2>1 DEF CallsInv
      <4> QED
        BY <1>2, <1>13, <3>2, <4>1, OthersKept
    <3> QED
      BY <3>1, <3>2
  <2> QED
    BY <1>12, <2>1 DEF CallsInv
<1>19. RhoInv'
  <2>1. ASSUME NEW p \in Procs, NEW n \in 1 .. case.SCF_NMAX, iter'[p] = n
        PROVE  /\ Group(p) = 0 => \A is \in 1 .. case.NSPIN : rho'[p][is] = OwnRho(p, n)
               /\ todo'[p] = <<>> =>
                     rho'[p][1] = [iter |-> n, part |-> RANK_IN_STOGROUP(case, p)]
    <3>1. /\ Group(p) = 0 => \A is \in 1 .. case.NSPIN : rho[p][is] = OwnRho(p, n)
          /\ todo[p] = <<>> =>
                rho[p][1] = [iter |-> n, part |-> RANK_IN_STOGROUP(case, p)]
      BY <1>1, <1>2, <2>1 DEF RhoInv
    <3>2. CASE p = r
      <4>1. n = i
        BY <1>2, <1>4, <2>1, <3>2
      <4>2. d = [iter |-> i, part |-> RANK_IN_STOGROUP(case, r)]
        BY DEF d
      <4> QED
        BY <1>10, <1>11, <3>1, <3>2, <4>1, <4>2
    <3>3. CASE p # r
      <4>1. rho'[p] = rho[p] /\ todo'[p] = todo[p]
        BY <1>10, <1>13, <3>3
      <4> QED
        BY <3>1, <4>1
    <3> QED
      BY <3>2, <3>3
  <2> QED
    BY <1>10, <1>12, <2>1 DEF RhoInv
<1> QED
  BY <1>12, <1>16, <1>18, <1>19 DEF IInv

-----------------------------------------------------------------------------
(* Theorems *)

LEMMA InitInv ==
    ASSUME Init
    PROVE  IInv
<1>1. SettingsInv
  BY Zenon DEF Init, SettingsInv
<1>2. case.SCF_NMAX \in Nat \ {0}
  <2>1. case \in Cases
    BY <1>1 DEF SettingsInv
  <2> QED
    BY <2>1, CasesAssumption DEF Settings
<1>3. /\ iter = [r \in Procs |-> 0] /\ todo = [r \in Procs |-> <<>>]
      /\ called = [r \in Procs |-> [n \in Names |-> <<>>]]
      /\ conv_elec = [r \in Procs |-> FALSE]
      /\ rho = [r \in Procs |-> [is \in 1 .. case.NSPIN |-> <<>>]]
      /\ left = {}
  BY Zenon DEF Init
<1>4. ControlInv
  <2>1. <<>> \in Seq(Operation) /\ <<>> \in Seq(Entry)
    OBVIOUS
  <2>2. iter \in [Procs -> 0 .. case.SCF_NMAX] /\ \A r \in Procs : iter[r] # case.SCF_NMAX
    BY <1>2, <1>3
  <2> QED
    BY <1>3, <2>1, <2>2 DEF ControlInv
<1>5. CallsInv
  BY <1>3 DEF CallsInv
<1>6. RhoInv
  BY <1>3 DEF RhoInv, Densities
<1> QED
  BY <1>1, <1>4, <1>5, <1>6 DEF IInv

LEMMA StutterInv ==
    ASSUME IInv, UNCHANGED vars
    PROVE  IInv'
<1>1. /\ case' = case /\ comm' = comm /\ redo' = redo /\ iter' = iter /\ todo' = todo
      /\ called' = called /\ conv_elec' = conv_elec /\ rho' = rho /\ left' = left /\ Same
  BY DEF vars, Same
<1>2. /\ Procs' = Procs /\ Operation' = Operation /\ Densities' = Densities
      /\ Entry' = Entry /\ SettingsInv'
      /\ \A p : Group(p)' = Group(p)
      /\ \A p, n : OwnRho(p, n)' = OwnRho(p, n)
  BY <1>1, Kept DEF IInv
<1>3. ControlInv'
  BY <1>1, <1>2 DEF IInv, ControlInv
<1>4. RhoInv'
  BY <1>1, <1>2 DEF IInv, RhoInv
<1>5. CallsInv'
  <2>1. ASSUME NEW p \in Procs, NEW n \in 1 .. case.SCF_NMAX, iter[p] = n
        PROVE  InIteration(p, n)'
    <3>1. InIteration(p, n)
      BY <2>1 DEF IInv, CallsInv
    <3> QED
      BY <1>1, <3>1, OthersKept
  <2> QED
    BY <1>1, <1>2, <2>1 DEF CallsInv
<1> QED
  BY <1>2, <1>3, <1>4, <1>5 DEF IInv

\* Where the groups symmetrize alike, every process is, at every moment, at its
\* place in the operations of its iteration, and what it has called is what
\* the place says.
THEOREM InductiveInvariant ==
    ASSUME \A c \in Cases : GroupsSymmetrizeAlike(c)
    PROVE  Spec => []IInv
<1>1. Init => IInv
  BY InitInv
<1>2. IInv /\ [Next]_vars => IInv'
  <2>1. SUFFICES ASSUME IInv, [Next]_vars PROVE IInv'
    OBVIOUS
  <2>2. GroupsSymmetrizeAlike(case)
    BY <2>1 DEF IInv, SettingsInv
  <2>3. CASE UNCHANGED vars
    BY <2>1, <2>3, StutterInv
  <2>4. ASSUME NEW r \in Procs, BeginIteration(r) PROVE IInv'
    BY <2>1, <2>4, BeginInv
  <2>5. ASSUME NEW r \in Procs, Return(r) PROVE IInv'
    BY <2>1, <2>2, <2>5, ReturnInv
  <2>6. ASSUME NEW r \in Procs, Decide(r) PROVE IInv'
    BY <2>1, <2>6, DecideInv
  <2>7. ASSUME NEW r \in Procs, EndIteration(r) PROVE IInv'
    BY <2>1, <2>2, <2>7, EndInv
  <2> QED
    BY <2>1, <2>3, <2>4, <2>5, <2>6, <2>7 DEF Next
<1> QED
  BY <1>1, <1>2, PTL DEF Spec

\* Type correctness: a process only calls operations on communicators it is a
\* member of, never on an INTER_POOL that uneven pools do not have, and what it
\* receives is of the kind it waits for.
THEOREM TypeCorrect ==
    ASSUME \A c \in Cases : GroupsSymmetrizeAlike(c)
    PROVE  Spec => []TypeOK
<1>1. IInv => TypeOK
  <2>1. SUFFICES ASSUME IInv PROVE TypeOK
    OBVIOUS
  <2>2. ASSUME NEW r \in Procs, todo[r] # <<>>
        PROVE  r \in Members(Op(r).comm, r)
    <3>1. Op(r) \in Operation
      BY <2>1, <2>2, Calling
    <3> QED
      BY <2>1, <3>1, OwnCommunicators DEF IInv
  <2> QED
    BY <2>1, <2>2 DEF IInv, ControlInv, RhoInv, TypeOK
<1> QED
  BY <1>1, InductiveInvariant, PTL

\* For any number of processes, groups, pools and k points, however far some
\* are ahead: the members of a communicator call the same collectives on it, in
\* the same order, as long as a stochastic run of several groups does not
\* symmetrize more than one density.
THEOREM CollectivesAlwaysMatch ==
    ASSUME \A c \in Cases : GroupsSymmetrizeAlike(c)
    PROVE  Spec => []CollectivesMatch
<1>1. IInv => CollectivesMatch
  <2>1. SUFFICES ASSUME IInv, NEW r \in Procs, NEW name \in Names, NEW m \in Members(name, r),
                        Len(called[r][name]) > 0,
                        Len(called[r][name]) <= Len(called[m][name])
                 PROVE  called[m][name][Len(called[r][name])].what
                          = called[r][name][Len(called[r][name])].what
    BY DEF CollectivesMatch
  <2>2. /\ GroupsSymmetrizeAlike(case) /\ SettingsInv /\ ControlInv /\ CallsInv
        /\ case.SCF_NMAX \in Nat \ {0}
    BY <2>1, Layout DEF IInv, SettingsInv
  <2>3. called[r][name] \in Seq(Entry) /\ iter[r] \in 0 .. case.SCF_NMAX
    BY <2>2 DEF ControlInv
  <2>4. PICK n \in Nat \ {0} : n = Len(called[r][name])
    BY <2>1, <2>3
  <2>5. iter[r] # 0
    BY <2>1, <2>2 DEF ControlInv
  <2>6. PICK h \in 1 .. case.SCF_NMAX : iter[r] = h
    BY <2>2, <2>3, <2>5
  <2>7. PICK k : Logged(r, h, k)
    BY <2>2, <2>6 DEF CallsInv, InIteration
  <2>8. n \in 1 .. Len(called[r][name])
    BY <2>4
  <2>9. PICK i \in 1 .. h : \E j \in 1 .. Len(Script(r, i)) : CalledAt(r, name, n, i, j)
    BY <2>7, <2>8 DEF Logged
  <2>10. PICK j \in 1 .. Len(Script(r, i)) : CalledAt(r, name, n, i, j)
    BY <2>9
  <2>11. /\ i \in Nat \ {0} /\ Script(r, i)[j].comm = name
         /\ n = Before(name, r, i) + Count(name, Script(r, i), j)
         /\ called[r][name][n].what = Script(r, i)[j].what
    BY <2>10 DEF CalledAt
  <2>12. n <= Len(called[m][name])
    BY <2>1, <2>4
  <2>13. PICK l \in 1 .. Len(Script(m, i)) : CalledAt(m, name, n, i, l)
                                            /\ Script(m, i)[l] = Script(r, i)[j]
    <3>1. /\ IInv /\ GroupsSymmetrizeAlike(case)
          /\ r \in Procs /\ name \in Names /\ m \in Members(name, r)
      BY <2>1, <2>2
    <3>2. /\ i \in Nat \ {0} /\ j \in 1 .. Len(Script(r, i)) /\ n \in Nat \ {0}
          /\ Script(r, i)[j].comm = name
          /\ n = Before(name, r, i) + Count(name, Script(r, i), j)
          /\ n <= Len(called[m][name])
      BY <2>4, <2>10, <2>11, <2>12
    <3> QED  BY <3>1, <3>2, CallOfMember
  <2>14. called[m][name][n].what = Script(m, i)[l].what
    BY <2>13 DEF CalledAt
  <2> QED
    BY <2>4, <2>11, <2>13, <2>14
<1> QED
  BY <1>1, InductiveInvariant, PTL

\* For any layout, a process ends an iteration with the density that the first
\* group has computed in it, on its own planes: of every spin in a run of one
\* group, and of the only one in a run of several.
THEOREM DensityIsShared ==
    ASSUME \A c \in Cases : /\ GroupsSymmetrizeAlike(c)
                            /\ c.NSTOGROUP > 1 => c.NSPIN = 1
    PROVE  Spec => []SameDensity
<1>1. IInv => SameDensity
  <2>1. SUFFICES ASSUME IInv, NEW r \in Procs, todo[r] = <<>>, iter[r] > 0,
                        NEW is \in 1 .. case.NSPIN
                 PROVE  rho[r][is] = [iter |-> iter[r], part |-> RANK_IN_STOGROUP(case, r)]
    BY DEF SameDensity, BetweenIterations
  <2>2. /\ SettingsInv /\ ControlInv /\ RhoInv
        /\ case.SCF_NMAX \in Nat \ {0} /\ case.NSTOGROUP \in Nat \ {0}
        /\ Group(r) \in Groups
        /\ case.NSTOGROUP > 1 => case.NSPIN = 1
    BY <2>1, Layout DEF IInv, SettingsInv, EvenLayout
  <2>3. PICK i \in 1 .. case.SCF_NMAX : iter[r] = i
    BY <2>1, <2>2 DEF ControlInv
  <2>4. /\ Group(r) = 0 => \A s \in 1 .. case.NSPIN : rho[r][s] = OwnRho(r, i)
        /\ rho[r][1] = [iter |-> i, part |-> RANK_IN_STOGROUP(case, r)]
    BY <2>1, <2>2, <2>3 DEF RhoInv
  <2>5. CASE Group(r) = 0
    BY <2>3, <2>4, <2>5 DEF OwnRho
  <2>6. CASE Group(r) # 0
    <3>1. case.NSPIN = 1
      BY <2>2, <2>6 DEF Groups
    <3>2. is = 1
      BY <3>1
    <3> QED
      BY <2>3, <2>4, <3>2
  <2> QED
    BY <2>5, <2>6
<1>2. Spec => []IInv
  BY InductiveInvariant
<1> QED
  BY <1>1, <1>2, PTL

-----------------------------------------------------------------------------
(* The sum of the density over the pools: ChargeMpi *)

\* The layouts and grids of a calculation
CMLayout == /\ PoolLayout(layout)
            /\ layout.ESOLVER_TYPE \in {"ksdft", "sdft"}
            /\ layout.ESOLVER_TYPE = "ksdft" => layout.NSTOGROUP = 1
            /\ nz \in Nat \ {0}

\* The group and the pool of a process; the cells of its i-th point and of the
\* j-th point of the whole grid
Origin(r) == <<MY_STOGROUP(layout, r), MY_POOL(layout, r)>>

OwnCell(r, i) == <<i \div numz(r), startz(r) + (i % numz(r))>>

GridCell(j) == <<j \div nz, j % nz>>

GridPoints == 0 .. nz * ncxy - 1

\* A value of one term, which has not been added to another
OneTerm(cell, from, parts) ==
    [cell |-> cell, terms |-> {[from |-> from, parts |-> parts, by |-> <<>>]}]

\* The whole grid of a process before and after the sum
GatheredPoint(r, j) == OneTerm(GridCell(j), Origin(r), NPROC_IN_POOL(layout, r))

\* One term of each of the processes S
TermOfEach(S, from, parts) ==
    {[from |-> from[s], parts |-> parts[s], by |-> <<s>>] : s \in S}

Origins == [s \in World(layout) |-> Origin(s)]

PoolSizes == [s \in World(layout) |-> NPROC_IN_POOL(layout, s)]

SummedPoint(r, j) ==
    [cell |-> GridCell(j), terms |-> TermOfEach(GridWorld(r), Origins, PoolSizes)]

\* What RhoSummed says of the terms of a value of process r
SummedFor(r, v) ==
    \A c \in Contributions :
        LET own == TermsOf(v, c)
        IN  IF c[1] = MY_STOGROUP(layout, r)
            THEN own # {} /\ \A t \in own : t.parts = Cardinality(own)
            ELSE own = {}

\* rho_mpi is over: the density is typed and summed.
Completed ==
    /\ \A r \in World(layout) : array_rho[r] \in [0 .. nrxx(r) - 1 -> Points]
    /\ array_tot # <<>> => array_tot \in [World(layout) -> [GridPoints -> Points]]
    /\ \A r \in World(layout) : \A i \in 0 .. nrxx(r) - 1 :
          array_rho[r][i].cell = OwnCell(r, i) /\ SummedFor(r, array_rho[r][i])

\* The inductive invariant of ChargeMpi: what each step has brought about
CMIInv ==
    /\ CMLayout
    /\ stage \in {"psi", "gathered", "summed", "done"}
    /\ stage # "done" => array_rho = [r \in World(layout) |-> OwnDensity(r)]
    /\ stage = "psi" => array_tot = <<>>
    /\ stage = "gathered" =>
          /\ array_tot \in [World(layout) -> [GridPoints -> Points]]
          /\ \A r \in World(layout) : \A j \in GridPoints :
                ArrayTotAux(r)[j] = GatheredPoint(r, j)
    /\ stage = "summed" =>
          array_tot = [r \in World(layout) |-> [j \in GridPoints |-> SummedPoint(r, j)]]
    /\ stage = "done" => Completed


\* A position below b blocks of c items: its block and its place in it.
LEMMA BlockOf ==
    ASSUME NEW b \in Nat, NEW c \in Nat, NEW x \in 0 .. b * c - 1
    PROVE  /\ c # 0 /\ b # 0
           /\ x \div c \in 0 .. b - 1 /\ x % c \in 0 .. c - 1
           /\ x \div b \in 0 .. c - 1 /\ x % b \in 0 .. b - 1
<1>1. b * c \in Nat /\ b * c = c * b /\ 0 * c = 0 /\ b * 0 = 0
  OBVIOUS
<1>2. x \in Nat /\ x < b * c /\ c # 0 /\ b # 0
  BY <1>1
<1>3. ASSUME NEW m \in Nat, NEW n \in Nat \ {0}, x < m * n
      PROVE  x \div n \in 0 .. m - 1 /\ x % n \in 0 .. n - 1
  <2> DEFINE d == x \div n
             e == x % n
  <2>1. d \in Nat /\ e \in 0 .. n - 1 /\ x = (n * d) + e
    BY <1>2, Division
  <2> HIDE DEF d, e
  <2>2. d < m
    <3>1. SUFFICES ASSUME m <= d PROVE FALSE
      BY <2>1
    <3>2. m * n <= d * n /\ d * n = n * d /\ n * d \in Nat /\ m * n \in Nat
      BY <2>1, <3>1
    <3> QED  BY <1>2, <1>3, <2>1, <3>2
  <2> QED  BY <2>1, <2>2 DEF d, e
<1> QED  BY <1>1, <1>2, <1>3

\* The position at place y of the g-th of c blocks of n items
LEMMA BlockPosition ==
    ASSUME NEW n \in Nat, NEW c \in Nat, NEW g \in 0 .. c - 1, NEW y \in 0 .. n - 1
    PROVE  /\ n * g + y \in 0 .. n * c - 1
           /\ (n * g + y) \div n = g /\ (n * g + y) % n = y
<1>1. n \in Nat \ {0} /\ g \in Nat /\ y \in Nat /\ y < n
  OBVIOUS
<1>2. n * g = g * n /\ n * g \in Nat /\ n * c \in Nat /\ n * (g + 1) = n * g + n
  BY <1>1
<1>3. n * (g + 1) <= n * c
  BY <1>1
<1>4. n * g + y \in 0 .. n * c - 1
  BY <1>1, <1>2, <1>3
<1>5. (g * n + y) \div n = g /\ (g * n + y) % n = y
  BY <1>1, DivMod
<1> QED  BY <1>2, <1>4, <1>5

\* The positions of the blocks s, ..., s + n - 1
LEMMA BlockRange ==
    ASSUME NEW s \in Nat, NEW n \in Nat, NEW c \in Nat \ {0}, NEW x \in Nat
    PROVE  /\ x \in s * c .. s * c + n * c - 1
                 <=> s <= x \div c /\ x \div c < s + n
           /\ s * c \in Nat /\ n * c \in Nat
<1> DEFINE d == x \div c
           e == x % c
<1>1. d \in Nat /\ e \in 0 .. c - 1 /\ x = (c * d) + e
  BY Division
<1> HIDE DEF d, e
<1>2. c * d = d * c /\ d * c \in Nat /\ s * c \in Nat /\ n * c \in Nat
      /\ (s + n) * c = s * c + n * c /\ (d + 1) * c = d * c + c
  BY <1>1
<1>3. d * c <= x /\ x < (d + 1) * c
  BY <1>1, <1>2
<1>4. /\ s <= d => s * c <= d * c
      /\ d + 1 <= s => (d + 1) * c <= s * c
      /\ d + 1 <= s + n => (d + 1) * c <= (s + n) * c
      /\ s + n <= d => (s + n) * c <= d * c
  BY <1>1
<1> DEFINE dc == d * c
           sc == s * c
           nc == n * c
           ec == (d + 1) * c
           tc == (s + n) * c
<1>5. /\ dc \in Nat /\ sc \in Nat /\ nc \in Nat /\ tc = sc + nc /\ ec = dc + c
      /\ dc <= x /\ x < ec
      /\ s <= d => sc <= dc
      /\ d + 1 <= s => ec <= sc
      /\ d + 1 <= s + n => ec <= tc
      /\ s + n <= d => tc <= dc
  BY <1>2, <1>3, <1>4
<1> HIDE DEF dc, sc, nc, ec, tc
<1>6. x \in sc .. sc + nc - 1 <=> s <= d /\ d < s + n
  BY <1>1, <1>5
<1> QED  BY <1>5, <1>6 DEF sc, nc, d

\* The planes of a process, and where its points are in the grid
LEMMA OwnPlanes ==
    ASSUME CMLayout, NEW r \in World(layout)
    PROVE  /\ numz(r) \in Nat /\ startz(r) \in Nat /\ startz(r) + numz(r) <= nz
           /\ nrxx(r) = numz(r) * ncxy
           /\ \A i \in 0 .. nrxx(r) - 1 :
                 /\ i \div numz(r) \in 0 .. ncxy - 1
                 /\ i % numz(r) \in 0 .. numz(r) - 1
                 /\ OwnCell(r, i) \in (0 .. ncxy - 1) \X (0 .. nz - 1)
<1>1. /\ NPROC_IN_POOL(layout, r) \in Nat \ {0}
      /\ RANK_IN_POOL(layout, r) \in 0 .. NPROC_IN_POOL(layout, r) - 1
      /\ nz \in Nat /\ ncxy \in Nat
  BY PlaceOfProcess, BoundAssumption DEF CMLayout
<1>2. numz(r) \in Nat /\ startz(r) \in Nat /\ startz(r) + numz(r) <= nz
  BY <1>1, GroupWithin DEF numz, startz
<1>3. nrxx(r) = numz(r) * ncxy
  BY DEF nrxx
<1>4. ASSUME NEW i \in 0 .. nrxx(r) - 1
      PROVE  /\ i \div numz(r) \in 0 .. ncxy - 1
             /\ i % numz(r) \in 0 .. numz(r) - 1
             /\ startz(r) + (i % numz(r)) \in 0 .. nz - 1
  <2>1. i \div numz(r) \in 0 .. ncxy - 1 /\ i % numz(r) \in 0 .. numz(r) - 1
    BY <1>1, <1>2, <1>3, BlockOf
  <2> QED  BY <1>1, <1>2, <2>1
<1> QED  BY <1>2, <1>3, <1>4 DEF OwnCell

\* The origin of a process is a pool, and a part of its pool's density a term.
LEMMA OriginOfProcess ==
    ASSUME CMLayout, NEW r \in World(layout)
    PROVE  /\ Origin(r) \in Contributions
           /\ NPROC_IN_POOL(layout, r) \in 1 .. layout.NPROC
           /\ r \in 0 .. layout.NPROC - 1 /\ 1 \in 1 .. layout.NPROC
<1>1. Origin(r) \in Contributions
  BY PlaceOfProcess DEF CMLayout, Origin, Contributions
<1>2. layout.NPROC \in Nat \ {0}
  BY DEF CMLayout, PoolLayout, EvenLayout
<1>3. NPROC_IN_POOL(layout, r) <= layout.NPROC
  <2> DEFINE g == MY_STOGROUP(layout, r)
             p == MY_POOL(layout, r)
             a == PoolStart(layout, g, p)
             n == PoolSize(layout, p)
  <2>1. /\ g \in 0 .. layout.NSTOGROUP - 1 /\ p \in 0 .. layout.KPAR - 1
        /\ NPROC_IN_POOL(layout, r) = n
    BY PlaceOfProcess DEF CMLayout
  <2>2. /\ a \in Nat /\ n \in Nat \ {0}
        /\ {s \in World(layout) : MY_STOGROUP(layout, s) = g /\ MY_POOL(layout, s) = p}
             = a .. a + n - 1
    BY <2>1, PoolInterval DEF CMLayout
  <2> HIDE DEF a, n
  <2>3. a + n - 1 \in a .. a + n - 1
    BY <2>2
  <2>4. a + n - 1 \in World(layout)
    BY <2>2, <2>3
  <2> QED  BY <1>2, <2>1, <2>2, <2>4 DEF World
<1>4. NPROC_IN_POOL(layout, r) \in Nat \ {0}
  BY PlaceOfProcess DEF CMLayout
<1> QED  BY <1>1, <1>2, <1>3, <1>4 DEF World

\* A value with one term of the density of a process's pool
LEMMA PointTyped ==
    ASSUME CMLayout, NEW r \in World(layout), NEW parts \in 1 .. layout.NPROC,
           NEW cell \in (0 .. ncxy - 1) \X (0 .. nz - 1)
    PROVE  OneTerm(cell, Origin(r), parts) \in Points
<1>1. <<>> \in Seq(World(layout))
  OBVIOUS
<1>2. [from |-> Origin(r), parts |-> parts, by |-> <<>>] \in Terms
  BY <1>1, OriginOfProcess DEF Terms
<1> QED  BY <1>2 DEF Points, OneTerm

\* The density of a process before the sum
LEMMA OwnValue ==
    ASSUME array_rho = [r \in World(layout) |-> OwnDensity(r)],
           NEW r \in World(layout), NEW i \in 0 .. nrxx(r) - 1
    PROVE  array_rho[r][i] = OneTerm(OwnCell(r, i), Origin(r), 1)
  BY DEF OwnDensity, OwnCell, Origin, OneTerm

\* Those values are values of grid points.
LEMMA OwnDensityTyped ==
    ASSUME CMLayout, NEW r \in World(layout)
    PROVE  OwnDensity(r) \in [0 .. nrxx(r) - 1 -> Points]
<1> SUFFICES ASSUME NEW i \in 0 .. nrxx(r) - 1
             PROVE  OneTerm(OwnCell(r, i), Origin(r), 1) \in Points
  BY DEF OwnDensity, OwnCell, Origin, OneTerm
<1> QED  BY OwnPlanes, OriginOfProcess, PointTyped

\* The sum of one term of each of the processes S, all at the same cell
LEMMA TotalOfTerms ==
    ASSUME NEW S, S # {}, NEW cell, NEW from, NEW parts, NEW vals, DOMAIN vals = S,
           \A s \in S : vals[s] = OneTerm(cell, from[s], parts[s])
    PROVE  Total(vals) = [cell |-> cell, terms |-> TermOfEach(S, from, parts)]
<1> DEFINE cells == {vals[x].cell : x \in DOMAIN vals}
           old(s) == [from |-> from[s], parts |-> parts[s], by |-> <<>>]
           new(s) == [from |-> from[s], parts |-> parts[s], by |-> <<s>>]
<1>1. \A s \in S : vals[s].cell = cell /\ vals[s].terms = {old(s)}
  BY DEF OneTerm
<1>2. cells = {cell}
  BY <1>1
<1>3. Cardinality(cells) = 1 /\ (CHOOSE v \in cells : TRUE) = cell
  BY <1>2, FS_Singleton
<1>4. \A s \in S : [old(s) EXCEPT !.by = Append(@, s)] = new(s)
  <2> SUFFICES ASSUME NEW s \in S PROVE [old(s) EXCEPT !.by = Append(@, s)] = new(s)
    OBVIOUS
  <2>1. Append(<<>>, s) = <<s>>
    OBVIOUS
  <2> QED  BY <2>1
<1> HIDE DEF old, new
<1>5. UNION {{[t EXCEPT !.by = Append(@, x)] : t \in vals[x].terms} : x \in DOMAIN vals}
        = {new(s) : s \in S}
  <2> DEFINE all(x) == {[t EXCEPT !.by = Append(@, x)] : t \in vals[x].terms}
  <2>1. ASSUME NEW x \in S PROVE all(x) = {new(x)}
    <3>1. all(x) = {[t EXCEPT !.by = Append(@, x)] : t \in {old(x)}}
      BY <1>1
    <3>2. all(x) = {[old(x) EXCEPT !.by = Append(@, x)]}
      BY <3>1
    <3> QED  BY <1>4, <3>2
  <2> HIDE DEF all
  <2>2. UNION {all(x) : x \in DOMAIN vals} = {new(s) : s \in S}
    <3>1. UNION {all(x) : x \in S} \subseteq {new(s) : s \in S}
      BY <2>1
    <3>2. {new(s) : s \in S} \subseteq UNION {all(x) : x \in S}
      BY <2>1
    <3> QED  BY <3>1, <3>2
  <2> QED  BY <2>2 DEF all
<1> QED  BY <1>3, <1>5 DEF Total, cells, new, TermOfEach

\* Of a sum with one term of each of the processes S, the terms of pool c are
\* as many as the processes of c in S.
LEMMA TermsCounted ==
    ASSUME NEW S, NEW from, NEW parts, NEW v, NEW c,
           v.terms = TermOfEach(S, from, parts),
           NEW pool \in SUBSET S, \A s \in S : from[s] = c <=> s \in pool,
           IsFiniteSet(pool), \A s \in pool : parts[s] = Cardinality(pool)
    PROVE  /\ \A t \in TermsOf(v, c) : t.parts = Cardinality(TermsOf(v, c))
           /\ TermsOf(v, c) = {} <=> pool = {}
<1> DEFINE term(s) == [from |-> from[s], parts |-> parts[s], by |-> <<s>>]
           own == {term(s) : s \in pool}
           f == [s \in pool |-> term(s)]
<1>1. /\ \A s \in S : term(s).from = from[s] /\ term(s).parts = parts[s]
      /\ \A s, t \in S : term(s) = term(t) => s = t
  <2>1. \A s, t \in S : <<s>> = <<t>> => s = t
    <3> SUFFICES ASSUME NEW s \in S, NEW t \in S, <<s>> = <<t>> PROVE s = t
      OBVIOUS
    <3>1. <<s>>[1] = s /\ <<t>>[1] = t
      OBVIOUS
    <3> QED  BY <3>1
  <2>2. \A s \in S : term(s).by = <<s>>
    OBVIOUS
  <2> QED  BY <2>1, <2>2
<1>2. v.terms = {term(s) : s \in S}
  BY DEF TermOfEach
<1>3. IsFiniteSet(pool) /\ \A s \in pool : s \in S /\ from[s] = c /\ parts[s] = Cardinality(pool)
  OBVIOUS
<1>4. \A s \in S : from[s] = c => s \in pool
  OBVIOUS
<1> HIDE DEF term
<1>5. TermsOf(v, c) = own
  BY <1>1, <1>2, <1>3, <1>4 DEF TermsOf
<1>6. Cardinality(own) = Cardinality(pool)
  <2>1. f \in [pool -> own] /\ \A s \in pool : f[s] = term(s)
    OBVIOUS
  <2>2. \A s, t \in pool : f[s] = f[t] => s = t
    BY <1>1, <1>3, <2>1
  <2>3. \A t \in own : \E s \in pool : f[s] = t
    BY <2>1
  <2> HIDE DEF f, own
  <2>4. f \in Bijection(pool, own)
    BY <2>1, <2>2, <2>3 DEF Bijection, Injection, IsInjective, Surjection
  <2>5. ExistsBijection(pool, own)
    BY <2>4 DEF ExistsBijection
  <2> QED  BY <1>3, <2>5, FS_Bijection
<1>7. \A t \in own : t.parts = Cardinality(pool)
  BY <1>1, <1>3
<1>8. own = {} <=> pool = {}
  OBVIOUS
<1> QED  BY <1>5, <1>6, <1>7, <1>8

\* The processes of a pool are as many as the parts of its density.
LEMMA PoolCounted ==
    ASSUME CMLayout, NEW c \in Contributions
    PROVE  LET pool == {s \in World(layout) : Origin(s) = c}
           IN  /\ pool # {} /\ IsFiniteSet(pool)
               /\ \A s \in pool : NPROC_IN_POOL(layout, s) = Cardinality(pool)
<1> DEFINE pool == {s \in World(layout) : Origin(s) = c}
           g == c[1]
           p == c[2]
           a == PoolStart(layout, g, p)
           n == PoolSize(layout, p)
<1>1. g \in 0 .. layout.NSTOGROUP - 1 /\ p \in 0 .. layout.KPAR - 1 /\ c = <<g, p>>
  BY DEF Contributions
<1>2. \A s \in World(layout) :
         Origin(s) = c <=> MY_STOGROUP(layout, s) = g /\ MY_POOL(layout, s) = p
  BY <1>1 DEF Origin
<1>3. pool = {s \in World(layout) : MY_STOGROUP(layout, s) = g /\ MY_POOL(layout, s) = p}
  BY <1>2
<1>4. a \in Nat /\ n \in Nat \ {0} /\ pool = a .. a + n - 1
  BY <1>1, <1>3, PoolInterval DEF CMLayout
<1>5. \A s \in pool : NPROC_IN_POOL(layout, s) = n
  BY <1>2, PlaceOfProcess DEF CMLayout
<1> HIDE DEF pool, a, n
<1>6. IsFiniteSet(a .. a + n - 1) /\ Cardinality(a .. a + n - 1) = n
  <2> DEFINE b == a + n - 1
  <2>1. a \in Int /\ b \in Int /\ ~(a > b) /\ b - a + 1 = n
    BY <1>4
  <2> HIDE DEF b
  <2>2. IsFiniteSet(a .. b) /\ Cardinality(a .. b) = b - a + 1
    BY <2>1, FS_Interval
  <2> QED  BY <2>1, <2>2 DEF b
<1>7. a \in a .. a + n - 1
  BY <1>4
<1> QED  BY <1>4, <1>5, <1>6, <1>7 DEF pool

\* The sum of the whole grids over a stochastic group
LEMMA SharesSummed ==
    ASSUME CMLayout, NEW r \in World(layout), NEW v,
           v.terms = TermOfEach(GridWorld(r), Origins, PoolSizes)
    PROVE  SummedFor(r, v)
<1> SUFFICES ASSUME NEW c \in Contributions
             PROVE  LET own == TermsOf(v, c)
                    IN  IF c[1] = MY_STOGROUP(layout, r)
                        THEN own # {} /\ \A t \in own : t.parts = Cardinality(own)
                        ELSE own = {}
  BY DEF SummedFor
<1> DEFINE G == GridWorld(r)
           from == Origins
           parts == PoolSizes
           pool == {s \in World(layout) : Origin(s) = c}
<1>1. \A s \in World(layout) :
         MY_STOGROUP(layout, s) \in 0 .. layout.NSTOGROUP - 1 /\ Origin(s)[1] = MY_STOGROUP(layout, s)
  BY PlaceOfProcess DEF CMLayout, Origin
<1>2. G = {s \in World(layout) : MY_STOGROUP(layout, s) = MY_STOGROUP(layout, r)}
  <2>1. CASE layout.ESOLVER_TYPE = "sdft"
    BY <2>1 DEF GridWorld, STO_WORLD
  <2>2. CASE layout.ESOLVER_TYPE = "ksdft"
    <3>1. \A s \in World(layout) : MY_STOGROUP(layout, s) = 0
      BY <1>1, <2>2 DEF CMLayout
    <3> QED  BY <2>2, <3>1 DEF GridWorld
  <2> QED  BY <2>1, <2>2 DEF CMLayout
<1>3. \A s \in G : s \in World(layout) /\ from[s] = Origin(s)
                   /\ parts[s] = NPROC_IN_POOL(layout, s)
  BY <1>2 DEF Origins, PoolSizes
<1>4. v.terms = TermOfEach(G, from, parts)
  OBVIOUS
<1>5. \A s \in G : from[s] = c <=> c[1] = MY_STOGROUP(layout, r) /\ s \in pool
  BY <1>1, <1>2, <1>3
<1>6. pool # {} /\ IsFiniteSet(pool)
      /\ \A s \in pool : NPROC_IN_POOL(layout, s) = Cardinality(pool)
  BY PoolCounted
<1>7. c[1] = MY_STOGROUP(layout, r) => pool \subseteq G
  BY <1>1, <1>2
<1>8. CASE c[1] = MY_STOGROUP(layout, r)
  <2>1. \A s \in pool : parts[s] = Cardinality(pool)
    BY <1>3, <1>6, <1>7, <1>8
  <2> HIDE DEF G, from, parts, pool
  <2>2. /\ \A t \in TermsOf(v, c) : t.parts = Cardinality(TermsOf(v, c))
        /\ TermsOf(v, c) = {} <=> pool = {}
    BY <1>4, <1>5, <1>6, <1>7, <1>8, <2>1, TermsCounted
  <2> QED  BY <1>6, <1>8, <2>2
<1>9. CASE c[1] # MY_STOGROUP(layout, r)
  <2>1. \A s \in G : from[s] = c <=> s \in {}
    BY <1>5, <1>9
  <2> HIDE DEF G, from, parts
  <2>2. TermsOf(v, c) = {} <=> {} = {}
    BY <1>4, <2>1, FS_EmptySet, TermsCounted
  <2> QED  BY <1>9, <2>2
<1> QED  BY <1>8, <1>9

\* The sum over one process of every even pool
LEMMA InterPoolSummed ==
    ASSUME CMLayout, EvenPools(layout), NEW r \in World(layout), NEW v,
           v.terms = TermOfEach(INTER_POOL(layout, r), Origins,
                                [s \in World(layout) |-> 1])
    PROVE  SummedFor(r, v)
<1> SUFFICES ASSUME NEW c \in Contributions
             PROVE  LET own == TermsOf(v, c)
                    IN  IF c[1] = MY_STOGROUP(layout, r)
                        THEN own # {} /\ \A t \in own : t.parts = Cardinality(own)
                        ELSE own = {}
  BY DEF SummedFor
<1> DEFINE G == INTER_POOL(layout, r)
           from == Origins
           parts == [s \in World(layout) |-> 1]
<1>1. c[1] \in 0 .. layout.NSTOGROUP - 1 /\ c[2] \in 0 .. layout.KPAR - 1 /\ c = <<c[1], c[2]>>
  BY DEF Contributions
<1>2. /\ \A s \in G : s \in World(layout) /\ MY_STOGROUP(layout, s) = MY_STOGROUP(layout, r)
      /\ \A p \in 0 .. layout.KPAR - 1 :
            \E s \in G : \A t \in G : MY_POOL(layout, t) = p <=> t = s
  BY InterPool DEF CMLayout
<1>3. \A s \in G : from[s] = <<MY_STOGROUP(layout, r), MY_POOL(layout, s)>> /\ parts[s] = 1
                   /\ from[s] = Origin(s)
  BY <1>2 DEF Origin, Origins
<1>4. v.terms = TermOfEach(G, from, parts)
  OBVIOUS
<1> HIDE DEF G, from, parts
<1>5. CASE c[1] = MY_STOGROUP(layout, r)
  <2>1. PICK s \in G : \A t \in G : MY_POOL(layout, t) = c[2] <=> t = s
    BY <1>1, <1>2
  <2>2. \A t \in G : from[t] = c <=> MY_POOL(layout, t) = c[2]
    BY <1>1, <1>3, <1>5
  <2>3. \A t \in G : from[t] = c <=> t \in {s}
    BY <2>1, <2>2
  <2>4. IsFiniteSet({s}) /\ \A t \in {s} : parts[t] = Cardinality({s})
    BY <1>3, FS_Singleton
  <2>5. /\ \A t \in TermsOf(v, c) : t.parts = Cardinality(TermsOf(v, c))
        /\ TermsOf(v, c) = {} <=> {s} = {}
    BY <1>4, <2>3, <2>4, TermsCounted
  <2> QED  BY <1>5, <2>5
<1>6. CASE c[1] # MY_STOGROUP(layout, r)
  <2>1. \A s \in G : from[s] = c <=> s \in {}
    BY <1>1, <1>3, <1>6
  <2>2. TermsOf(v, c) = {} <=> {} = {}
    BY <1>4, <2>1, FS_EmptySet, TermsCounted
  <2> QED  BY <1>6, <2>2
<1> QED  BY <1>5, <1>6

\* The density of the only pool of a group
LEMMA OnePoolSummed ==
    ASSUME CMLayout, layout.KPAR <= 1, NEW r \in World(layout), NEW v,
           v.terms = {[from |-> Origin(r), parts |-> 1, by |-> <<>>]}
    PROVE  SummedFor(r, v)
<1> SUFFICES ASSUME NEW c \in Contributions
             PROVE  LET own == TermsOf(v, c)
                    IN  IF c[1] = MY_STOGROUP(layout, r)
                        THEN own # {} /\ \A t \in own : t.parts = Cardinality(own)
                        ELSE own = {}
  BY DEF SummedFor
<1> DEFINE term == [from |-> Origin(r), parts |-> 1, by |-> <<>>]
<1>1. layout.KPAR = 1
  BY DEF CMLayout, PoolLayout, EvenLayout
<1>2. c = <<c[1], 0>> /\ Origin(r) = <<MY_STOGROUP(layout, r), 0>>
  BY <1>1, PlaceOfProcess DEF CMLayout, Contributions, Origin
<1>3. term.from = <<MY_STOGROUP(layout, r), 0>> /\ term.parts = 1 /\ v.terms = {term}
  BY <1>2
<1> HIDE DEF term
<1>4. CASE c[1] = MY_STOGROUP(layout, r)
  <2>1. TermsOf(v, c) = {term}
    BY <1>2, <1>3, <1>4 DEF TermsOf
  <2>2. Cardinality({term}) = 1
    BY FS_Singleton
  <2> QED  BY <1>3, <1>4, <2>1, <2>2
<1>5. CASE c[1] # MY_STOGROUP(layout, r)
  <2>1. c # term.from
    BY <1>2, <1>3, <1>5
  <2> QED  BY <1>3, <1>5, <2>1 DEF TermsOf
<1> QED  BY <1>4, <1>5

\* The block of the gathered grid in which position j is, and the only one
LEMMA GatheredBlock ==
    ASSUME CMLayout, NEW r \in World(layout), NEW j \in GridPoints
    PROVE  /\ \E k \in 0 .. NPROC_IN_POOL(layout, r) - 1 :
                 j \in dis(r, k) .. dis(r, k) + rec(r, k) - 1
           /\ \A k, l \in 0 .. NPROC_IN_POOL(layout, r) - 1 :
                 /\ j \in dis(r, k) .. dis(r, k) + rec(r, k) - 1
                 /\ j \in dis(r, l) .. dis(r, l) + rec(r, l) - 1
                 => k = l
<1> DEFINE n == NPROC_IN_POOL(layout, r)
           z == j \div ncxy
<1>1. n \in Nat \ {0} /\ nz \in Nat /\ ncxy \in Nat \ {0}
  BY PlaceOfProcess, BoundAssumption DEF CMLayout
<1>2. \A k : /\ dis(r, k) = GroupStart(nz, n, k) * ncxy
             /\ rec(r, k) = GroupSize(nz, n, k) * ncxy
  BY DEF dis, rec
<1> HIDE DEF n
<1>3. j \in Nat /\ z \in 0 .. nz - 1
  <2>1. j \in 0 .. nz * ncxy - 1 /\ nz * ncxy \in Nat
    BY <1>1 DEF GridPoints
  <2>2. z \in 0 .. nz - 1
    BY <1>1, <2>1, BlockOf
  <2> QED  BY <2>1, <2>2
<1> HIDE DEF z
<1>4. \A k \in 0 .. n - 1 :
         j \in dis(r, k) .. dis(r, k) + rec(r, k) - 1 <=> InGroup(nz, n, k, z)
  <2> SUFFICES ASSUME NEW k \in 0 .. n - 1
               PROVE  j \in dis(r, k) .. dis(r, k) + rec(r, k) - 1 <=> InGroup(nz, n, k, z)
    OBVIOUS
  <2> DEFINE a == GroupStart(nz, n, k)
             b == GroupSize(nz, n, k)
  <2>1. a \in Nat /\ b \in Nat
    BY <1>1, GroupWithin
  <2>2. InGroup(nz, n, k, z) <=> a <= z /\ z < a + b
    BY DEF InGroup
  <2> HIDE DEF a, b
  <2>3. j \in a * ncxy .. a * ncxy + b * ncxy - 1 <=> a <= z /\ z < a + b
    BY <1>1, <1>3, <2>1, BlockRange DEF z
  <2> QED  BY <1>2, <2>2, <2>3 DEF a, b
<1>5. \E k \in 0 .. n - 1 : InGroup(nz, n, k, z)
  BY <1>1, <1>3, SomeGroup
<1>6. \A k, l \in 0 .. n - 1 : InGroup(nz, n, k, z) /\ InGroup(nz, n, l, z) => k = l
  BY <1>1, <1>3, OneGroup
<1> QED  BY <1>4, <1>5, <1>6 DEF n

\* The processes of a pool hold the planes that the displacements tell.
LEMMA BlockOfMember ==
    ASSUME CMLayout, NEW r \in World(layout),
           NEW k \in 0 .. NPROC_IN_POOL(layout, r) - 1
    PROVE  LET s == PoolMember(r, k)
               n == NPROC_IN_POOL(layout, r)
           IN  /\ s \in World(layout) /\ Origin(s) = Origin(r)
               /\ NPROC_IN_POOL(layout, s) = n
               /\ numz(s) = GroupSize(nz, n, k)
               /\ startz(s) = GroupStart(nz, n, k)
               /\ nrxx(s) = rec(r, k)
               /\ dis(r, k) \in Nat /\ rec(r, k) \in Nat
<1> DEFINE s == PoolMember(r, k)
           n == NPROC_IN_POOL(layout, r)
<1>1. /\ s \in World(layout) /\ RANK_IN_POOL(layout, s) = k
      /\ MY_STOGROUP(layout, s) = MY_STOGROUP(layout, r)
      /\ MY_POOL(layout, s) = MY_POOL(layout, r)
  BY MemberOfPool DEF CMLayout, PoolMember
<1> HIDE DEF s
<1>2. Origin(s) = Origin(r)
  BY <1>1 DEF Origin
<1>3. NPROC_IN_POOL(layout, s) = n
  BY <1>1 DEF NPROC_IN_POOL
<1>4. /\ numz(s) = GroupSize(nz, n, k)
      /\ startz(s) = GroupStart(nz, n, k)
  BY <1>1, <1>3 DEF numz, startz
<1>5. nrxx(s) = rec(r, k)
  BY <1>4 DEF nrxx, rec
<1>6. dis(r, k) \in Nat /\ rec(r, k) \in Nat
  <2>1. /\ GroupStart(nz, n, k) \in Nat /\ GroupSize(nz, n, k) \in Nat /\ ncxy \in Nat
    BY GroupWithin, PlaceOfProcess, BoundAssumption DEF CMLayout
  <2> QED  BY <2>1 DEF dis, rec
<1> QED  BY <1>1, <1>2, <1>3, <1>4, <1>5, <1>6 DEF s

\* What GatherPool puts at position j of the grid of r
Gathered(r, j) ==
    LET ip == CHOOSE k \in 0 .. NPROC_IN_POOL(layout, r) - 1 :
                 j \in dis(r, k) .. dis(r, k) + rec(r, k) - 1
        s  == PoolMember(r, ip)
    IN  Share(s, array_rho[s][j - dis(r, ip)])

\* The data of the k-th process of the pool is put from dis[k] on.
LEMMA GatheredFrom ==
    ASSUME CMLayout, array_rho = [r \in World(layout) |-> OwnDensity(r)],
           NEW r \in World(layout), NEW k \in 0 .. NPROC_IN_POOL(layout, r) - 1,
           NEW j \in GridPoints, j \in dis(r, k) .. dis(r, k) + rec(r, k) - 1
    PROVE  LET s == PoolMember(r, k)
           IN  /\ j - dis(r, k) \in 0 .. nrxx(s) - 1
               /\ Gathered(r, j) =
                    OneTerm(OwnCell(s, j - dis(r, k)), Origin(r), NPROC_IN_POOL(layout, r))
<1> DEFINE s == PoolMember(r, k)
           n == NPROC_IN_POOL(layout, r)
           i == j - dis(r, k)
<1>1. (CHOOSE l \in 0 .. n - 1 : j \in dis(r, l) .. dis(r, l) + rec(r, l) - 1) = k
  BY GatheredBlock
<1>2. /\ s \in World(layout) /\ Origin(s) = Origin(r) /\ NPROC_IN_POOL(layout, s) = n
      /\ nrxx(s) = rec(r, k) /\ dis(r, k) \in Nat /\ rec(r, k) \in Nat
  BY BlockOfMember
<1>3. i \in 0 .. nrxx(s) - 1
  BY <1>2
<1>4. Gathered(r, j) = Share(s, array_rho[s][i])
  BY <1>1 DEF Gathered
<1> HIDE DEF s, i
<1>5. array_rho[s][i] = OneTerm(OwnCell(s, i), Origin(s), 1)
  BY <1>2, <1>3, OwnValue
<1>6. n \in Nat /\ 1 * n = n
  BY PlaceOfProcess DEF CMLayout
<1>7. Share(s, array_rho[s][i]) = OneTerm(OwnCell(s, i), Origin(r), n)
  <2> DEFINE t == [from |-> Origin(s), parts |-> 1, by |-> <<>>]
             v == array_rho[s][i]
  <2>1. [t EXCEPT !.parts = @ * n] = [from |-> Origin(r), parts |-> n, by |-> <<>>]
    BY <1>2, <1>6
  <2>2. v = [cell |-> OwnCell(s, i), terms |-> {t}]
    BY <1>5 DEF OneTerm
  <2> HIDE DEF t, v
  <2>3. {[u EXCEPT !.parts = @ * n] : u \in v.terms} = {[t EXCEPT !.parts = @ * n]}
    BY <2>2
  <2>4. Share(s, v) = [v EXCEPT !.terms = {[t EXCEPT !.parts = @ * n]}]
    BY <1>2, <2>3 DEF Share
  <2>5. \A X : [v EXCEPT !.terms = X] = [cell |-> OwnCell(s, i), terms |-> X]
    BY <2>2
  <2>6. Share(s, v) = [cell |-> OwnCell(s, i), terms |-> {[t EXCEPT !.parts = @ * n]}]
    BY <2>4, <2>5
  <2> QED  BY <2>1, <2>6 DEF v, OneTerm
<1> QED  BY <1>3, <1>4, <1>7 DEF s, i

\* What is gathered are values of grid points.
LEMMA GatheredTyped ==
    ASSUME CMLayout, array_rho = [r \in World(layout) |-> OwnDensity(r)],
           NEW r \in World(layout), NEW j \in GridPoints
    PROVE  Gathered(r, j) \in Points
<1>1. PICK k \in 0 .. NPROC_IN_POOL(layout, r) - 1 : j \in dis(r, k) .. dis(r, k) + rec(r, k) - 1
  BY GatheredBlock
<1> DEFINE s == PoolMember(r, k)
           i == j - dis(r, k)
<1>2. /\ i \in 0 .. nrxx(s) - 1
      /\ Gathered(r, j) = OneTerm(OwnCell(s, i), Origin(r), NPROC_IN_POOL(layout, r))
  BY <1>1, GatheredFrom
<1>3. s \in World(layout)
  BY BlockOfMember
<1> HIDE DEF s, i
<1>4. OwnCell(s, i) \in (0 .. ncxy - 1) \X (0 .. nz - 1)
  BY <1>2, <1>3, OwnPlanes
<1> QED  BY <1>2, <1>4, OriginOfProcess, PointTyped

\* Where point j of the whole grid is in what was gathered
GatheredAt(r, j) ==
    LET ir == j \div nz
        ip == MyGroup(nz, NPROC_IN_POOL(layout, r), j % nz)
        iz == RankInGroup(nz, NPROC_IN_POOL(layout, r), j % nz)
    IN  GroupSize(nz, NPROC_IN_POOL(layout, r), ip) * ir + dis(r, ip) + iz

\* array_tot_aux undoes the order of the gathered data: the value at point j of
\* the grid is that of its cell, whichever process of the pool held it.
LEMMA GridReordered ==
    ASSUME CMLayout, array_rho = [r \in World(layout) |-> OwnDensity(r)],
           NEW r \in World(layout), NEW j \in GridPoints
    PROVE  /\ GatheredAt(r, j) \in GridPoints
           /\ Gathered(r, GatheredAt(r, j)) = GatheredPoint(r, j)
<1> DEFINE n == NPROC_IN_POOL(layout, r)
           ir == j \div nz
           z == j % nz
           ip == MyGroup(nz, n, z)
           iz == RankInGroup(nz, n, z)
           size == GroupSize(nz, n, ip)
           start == GroupStart(nz, n, ip)
           d == dis(r, ip)
           y == size * ir + iz
           x == size * ir + d + iz
           s == PoolMember(r, ip)
<1>1. n \in Nat \ {0} /\ nz \in Nat \ {0} /\ ncxy \in Nat \ {0}
  BY PlaceOfProcess, BoundAssumption DEF CMLayout
<1> HIDE DEF n
<1>2. ir \in 0 .. ncxy - 1 /\ z \in 0 .. nz - 1
  <2>1. j \in 0 .. nz * ncxy - 1
    BY DEF GridPoints
  <2> QED  BY <1>1, <2>1, BlockOf
<1> HIDE DEF ir, z
<1>3. ip \in 0 .. n - 1 /\ iz \in 0 .. size - 1 /\ start + iz = z
  <2>1. ip \in 0 .. n - 1 /\ iz \in 0 .. size - 1
    BY <1>1, <1>2, GroupOfRank
  <2>2. start \in Nat /\ iz = z - start
    BY <1>1, <2>1, GroupWithin DEF RankInGroup
  <2> HIDE DEF ip, iz, size, start
  <2> QED  BY <1>2, <2>1, <2>2
<1> HIDE DEF ip, iz
<1>4. size \in Nat /\ start \in Nat /\ start + size <= nz
  BY <1>1, <1>3, GroupWithin
<1>5. d = start * ncxy /\ rec(r, ip) = size * ncxy
  BY DEF dis, rec, n
<1> HIDE DEF size, start, d
<1>6. y \in 0 .. size * ncxy - 1 /\ y \div size = ir /\ y % size = iz
  BY <1>1, <1>2, <1>3, <1>4, BlockPosition
<1>7. size * ncxy \in Nat /\ start * ncxy \in Nat /\ size * ir \in Nat
      /\ start * ncxy + size * ncxy <= nz * ncxy
  <2>1. (start + size) * ncxy <= nz * ncxy /\ (start + size) * ncxy = start * ncxy + size * ncxy
    BY <1>1, <1>4
  <2> QED  BY <1>1, <1>2, <1>4, <2>1
<1>8. x = d + y /\ x - d = y
  BY <1>3, <1>5, <1>7
<1> HIDE DEF x, y
<1>9. x \in GridPoints /\ x \in d .. d + rec(r, ip) - 1
  <2> DEFINE a == start * ncxy
             b == size * ncxy
             c == nz * ncxy
  <2>1. a \in Nat /\ b \in Nat /\ a + b <= c /\ c \in Nat /\ y \in 0 .. b - 1 /\ x = a + y
    BY <1>1, <1>5, <1>6, <1>7, <1>8
  <2> HIDE DEF a, b, c
  <2>2. x \in 0 .. c - 1 /\ x \in a .. a + b - 1
    BY <2>1
  <2> QED  BY <1>5, <2>2 DEF a, b, c, GridPoints
<1>10. /\ s \in World(layout) /\ numz(s) = size /\ startz(s) = start
  BY <1>3, BlockOfMember DEF n, size, start
<1>11. Gathered(r, x) = OneTerm(OwnCell(s, y), Origin(r), n)
  BY <1>3, <1>8, <1>9, GatheredFrom DEF n, d
<1> HIDE DEF s
<1>12. OwnCell(s, y) = <<ir, z>>
  BY <1>3, <1>6, <1>10 DEF OwnCell
<1>13. GatheredAt(r, j) = x
  BY DEF GatheredAt, x, size, ir, d, iz, ip, z, n
<1>14. GatheredPoint(r, j) = OneTerm(<<ir, z>>, Origin(r), n)
  BY DEF GatheredPoint, GridCell, ir, z, n
<1> QED  BY <1>9, <1>11, <1>12, <1>13, <1>14

\* The values of a sum over processes
LEMMA SumTyped ==
    ASSUME CMLayout, NEW S \in SUBSET World(layout), NEW parts,
           \A s \in S : parts[s] \in 1 .. layout.NPROC,
           NEW cell \in (0 .. ncxy - 1) \X (0 .. nz - 1)
    PROVE  [cell |-> cell, terms |-> TermOfEach(S, Origins, parts)] \in Points
<1>1. ASSUME NEW s \in S
      PROVE  [from |-> Origins[s], parts |-> parts[s], by |-> <<s>>] \in Terms
  <2>1. s \in World(layout) /\ <<s>> \in Seq(World(layout))
    OBVIOUS
  <2>2. Origins[s] \in Contributions
    BY <2>1, OriginOfProcess DEF Origins
  <2> QED  BY <2>1, <2>2 DEF Terms
<1>2. TermOfEach(S, Origins, parts) \subseteq Terms
  BY <1>1 DEF TermOfEach
<1> QED  BY <1>2 DEF Points

\* The points of the grid are in its columns and planes.
LEMMA GridCellTyped ==
    ASSUME CMLayout, NEW j \in GridPoints
    PROVE  GridCell(j) \in (0 .. ncxy - 1) \X (0 .. nz - 1)
<1>1. nz \in Nat /\ ncxy \in Nat /\ j \in 0 .. nz * ncxy - 1
  BY BoundAssumption DEF CMLayout, GridPoints
<1>2. j \div nz \in 0 .. ncxy - 1 /\ j % nz \in 0 .. nz - 1
  BY <1>1, BlockOf
<1> QED  BY <1>2 DEF GridCell

\* The processes whose grids are summed
LEMMA GridWorldOf ==
    ASSUME CMLayout, NEW r \in World(layout)
    PROVE  r \in GridWorld(r) /\ GridWorld(r) \subseteq World(layout)
  BY DEF GridWorld, STO_WORLD

\* The sums over the grids are values of grid points.
LEMMA SummedTyped ==
    ASSUME CMLayout, NEW r \in World(layout), NEW j \in GridPoints
    PROVE  SummedPoint(r, j) \in Points
<1>1. \A s \in GridWorld(r) : PoolSizes[s] \in 1 .. layout.NPROC
  BY GridWorldOf, OriginOfProcess DEF PoolSizes
<1> QED  BY <1>1, GridWorldOf, GridCellTyped, SumTyped DEF SummedPoint

\* The place in the whole grid of the i-th point of a process
LEMMA OwnInGrid ==
    ASSUME CMLayout, NEW r \in World(layout), NEW i \in 0 .. nrxx(r) - 1
    PROVE  LET j == nz * (i \div numz(r)) + startz(r) + (i % numz(r))
           IN  j \in GridPoints /\ GridCell(j) = OwnCell(r, i)
<1> DEFINE g == i \div numz(r)
           e == i % numz(r)
           a == startz(r)
           y == a + e
<1>1. nz \in Nat /\ ncxy \in Nat
  BY BoundAssumption DEF CMLayout
<1>2. g \in 0 .. ncxy - 1 /\ e \in 0 .. numz(r) - 1 /\ numz(r) \in Nat
      /\ a \in Nat /\ a + numz(r) <= nz
  BY OwnPlanes
<1> HIDE DEF g, e, a
<1>3. y \in 0 .. nz - 1
  BY <1>1, <1>2
<1> HIDE DEF y
<1>4. /\ nz * g + y \in 0 .. nz * ncxy - 1
      /\ (nz * g + y) \div nz = g /\ (nz * g + y) % nz = y
  BY <1>1, <1>2, <1>3, BlockPosition
<1>5. nz * g + a + e = nz * g + y
  <2>1. nz * g \in Nat
    BY <1>1, <1>2
  <2> QED  BY <1>2, <2>1 DEF y
<1>6. nz * g + y \in GridPoints /\ GridCell(nz * g + y) = <<g, y>>
  BY <1>4 DEF GridPoints, GridCell
<1>7. OwnCell(r, i) = <<g, y>>
  BY DEF OwnCell, g, e, a, y
<1> QED  BY <1>5, <1>6, <1>7 DEF g, a, e

\* psiToRho leaves each process its pool's density.
LEMMA CMInitially == CMInit => CMIInv
<1> SUFFICES ASSUME CMInit PROVE CMIInv
  OBVIOUS
<1>1. /\ layout.NPROC \in 1 .. MaxProc /\ layout.NSTOGROUP \in 1 .. MaxProc
      /\ layout.KPAR \in 1 .. MaxProc /\ layout.ESOLVER_TYPE \in {"ksdft", "sdft"}
      /\ layout.ESOLVER_TYPE = "ksdft" => layout.NSTOGROUP = 1
      /\ nz \in 1 .. MaxNz
  BY DEF CMInit
<1>2. layout.NPROC % layout.NSTOGROUP = 0 /\ layout.NPROC \div layout.NSTOGROUP >= layout.KPAR
  <2> DEFINE L == [NPROC |-> layout.NPROC, NSTOGROUP |-> layout.NSTOGROUP, KPAR |-> layout.KPAR]
  <2>1. L.NPROC % L.NSTOGROUP = 0 /\ L.NPROC \div L.NSTOGROUP >= L.KPAR
    BY DEF CMInit, Layouts
  <2> QED  BY <2>1
<1>3. CMLayout
  <2>1. EvenLayout(layout)
    BY <1>1, <1>2, BoundAssumption DEF EvenLayout
  <2>2. layout.KPAR <= NPROC_IN_STOGROUP(layout)
    <3>1. layout.NPROC \div layout.NSTOGROUP \in Nat
      BY <2>1, Division DEF EvenLayout
    <3> QED  BY <1>1, <1>2, <3>1, BoundAssumption DEF NPROC_IN_STOGROUP
  <2> QED  BY <1>1, <2>1, <2>2, BoundAssumption DEF CMLayout, PoolLayout
<1> QED  BY <1>3 DEF CMInit, CMIInv

\* What depends on the layout and the grid alone stays.
LEMMA LayoutStays ==
    ASSUME UNCHANGED <<layout, nz>>
    PROVE  /\ CMLayout' <=> CMLayout
           /\ GridPoints' = GridPoints /\ Points' = Points /\ Contributions' = Contributions
           /\ \A r : /\ nrxx(r)' = nrxx(r) /\ numz(r)' = numz(r) /\ startz(r)' = startz(r)
                     /\ Origin(r)' = Origin(r) /\ GridWorld(r)' = GridWorld(r)
           /\ \A r, i : OwnCell(r, i)' = OwnCell(r, i)
           /\ \A j : GridCell(j)' = GridCell(j)
           /\ \A r, v : SummedFor(r, v)' <=> SummedFor(r, v)
  BY DEF CMLayout, GridPoints, Points, Terms, Contributions, SummedFor, Origin, GridWorld, GridCell,
     TermsOf, nrxx, OwnCell, numz, startz

\* The values with which a step completes the sum
LEMMA CompletedBy ==
    ASSUME CMLayout, UNCHANGED <<layout, nz>>, stage' = "done",
           \A r \in World(layout) : array_rho'[r] \in [0 .. nrxx(r) - 1 -> Points],
           \A r \in World(layout) : \A i \in 0 .. nrxx(r) - 1 :
              array_rho'[r][i].cell = OwnCell(r, i) /\ SummedFor(r, array_rho'[r][i]),
           array_tot' # <<>> => array_tot' \in [World(layout) -> [GridPoints -> Points]]
    PROVE  CMIInv'
<1>1. /\ CMLayout' /\ GridPoints' = GridPoints /\ Points' = Points /\ Contributions' = Contributions
      /\ \A r : nrxx(r)' = nrxx(r)
      /\ \A r, i : OwnCell(r, i)' = OwnCell(r, i)
  BY LayoutStays
<1>2. \A r \in World(layout') : array_rho'[r] \in [0 .. nrxx(r)' - 1 -> Points']
  BY <1>1
<1>3. ASSUME NEW r \in World(layout'), NEW i \in 0 .. nrxx(r)' - 1
      PROVE  array_rho'[r][i].cell = OwnCell(r, i)' /\ SummedFor(r, array_rho[r][i])'
  <2>1. r \in World(layout) /\ i \in 0 .. nrxx(r) - 1
    BY <1>1
  <2>2. array_rho'[r][i].cell = OwnCell(r, i) /\ SummedFor(r, array_rho'[r][i])
    BY <2>1
  <2>3. SummedFor(r, array_rho[r][i])'
    BY <1>1, <2>2 DEF SummedFor
  <2> QED  BY <1>1, <2>2, <2>3
<1>4. Completed'
  BY <1>1, <1>2, <1>3 DEF Completed
<1> QED  BY <1>1, <1>4 DEF CMIInv

\* With one pool there is nothing to sum.
LEMMA OnePoolStep == CMIInv /\ OnePool => CMIInv'
<1> SUFFICES ASSUME CMIInv, OnePool PROVE CMIInv'
  OBVIOUS
<1>1. /\ CMLayout /\ layout.KPAR <= 1 /\ stage' = "done"
      /\ array_rho = [r \in World(layout) |-> OwnDensity(r)] /\ array_tot = <<>>
      /\ UNCHANGED <<layout, nz, array_rho, array_tot>>
  BY DEF CMIInv, OnePool
<1>2. \A r \in World(layout) : array_rho'[r] \in [0 .. nrxx(r) - 1 -> Points]
  BY <1>1, OwnDensityTyped
<1>3. ASSUME NEW r \in World(layout), NEW i \in 0 .. nrxx(r) - 1
      PROVE  array_rho'[r][i].cell = OwnCell(r, i) /\ SummedFor(r, array_rho'[r][i])
  <2>1. array_rho'[r][i] = OneTerm(OwnCell(r, i), Origin(r), 1)
    BY <1>1, OwnValue
  <2>2. array_rho'[r][i].cell = OwnCell(r, i)
        /\ array_rho'[r][i].terms = {[from |-> Origin(r), parts |-> 1, by |-> <<>>]}
    BY <2>1 DEF OneTerm
  <2> QED  BY <1>1, <2>2, OnePoolSummed
<1> QED  BY <1>1, <1>2, <1>3, CompletedBy

\* Even pools: each process adds up the values of those with its planes.
LEMMA ReduceInterPoolStep == CMIInv /\ ReduceInterPool => CMIInv'
<1> SUFFICES ASSUME CMIInv, ReduceInterPool PROVE CMIInv'
  OBVIOUS
<1> DEFINE vals(r, i) == [s \in INTER_POOL(layout, r) |-> array_rho[s][i]]
           ones == [s \in World(layout) |-> 1]
<1>1. /\ CMLayout /\ EvenPools(layout) /\ stage' = "done"
      /\ array_rho = [r \in World(layout) |-> OwnDensity(r)]
      /\ array_rho' = [r \in World(layout) |-> [i \in 0 .. nrxx(r) - 1 |-> Total(vals(r, i))]]
      /\ array_tot = <<>>
      /\ UNCHANGED <<layout, nz, array_tot>>
  BY DEF CMIInv, ReduceInterPool
<1>2. ASSUME NEW r \in World(layout), NEW i \in 0 .. nrxx(r) - 1
      PROVE  /\ Total(vals(r, i)) \in Points /\ Total(vals(r, i)).cell = OwnCell(r, i)
             /\ SummedFor(r, Total(vals(r, i)))
  <2> DEFINE G == INTER_POOL(layout, r)
  <2>1. /\ G \subseteq World(layout) /\ G # {}
        /\ \A s \in G : numz(s) = numz(r) /\ startz(s) = startz(r) /\ nrxx(s) = nrxx(r)
    <3>1. \A s \in G : /\ s \in World(layout)
                       /\ RANK_IN_POOL(layout, s) = RANK_IN_POOL(layout, r)
                       /\ NPROC_IN_POOL(layout, s) = NPROC_IN_POOL(layout, r)
      BY <1>1, InterPool DEF CMLayout
    <3>2. r \in G
      BY DEF INTER_POOL, STO_WORLD
    <3> QED  BY <3>1, <3>2 DEF numz, startz, nrxx
  <2>2. ASSUME NEW s \in G
        PROVE  vals(r, i)[s] = OneTerm(OwnCell(r, i), Origins[s], ones[s])
    <3>1. s \in World(layout) /\ i \in 0 .. nrxx(s) - 1 /\ OwnCell(s, i) = OwnCell(r, i)
      BY <2>1 DEF OwnCell
    <3>2. array_rho[s][i] = OneTerm(OwnCell(s, i), Origin(s), 1)
      BY <1>1, <3>1, OwnValue
    <3>3. Origins[s] = Origin(s) /\ ones[s] = 1
      BY <3>1 DEF Origins
    <3> QED  BY <3>1, <3>2, <3>3
  <2>3. DOMAIN vals(r, i) = G
    OBVIOUS
  <2>4. ones = [s \in World(layout) |-> 1] /\ \A s \in G : ones[s] \in 1 .. layout.NPROC
    BY <2>1, OriginOfProcess, <1>1
  <2>5. OwnCell(r, i) \in (0 .. ncxy - 1) \X (0 .. nz - 1)
    BY <1>1, OwnPlanes
  <2> HIDE DEF vals, G, ones
  <2>6. Total(vals(r, i)) = [cell |-> OwnCell(r, i), terms |-> TermOfEach(G, Origins, ones)]
    <3> DEFINE f == vals(r, i)
               cell == OwnCell(r, i)
    <3>1. /\ G # {} /\ DOMAIN f = G
          /\ \A s \in G : f[s] = OneTerm(cell, Origins[s], ones[s])
      BY <2>1, <2>2, <2>3
    <3> HIDE DEF f, cell
    <3>2. Total(f) = [cell |-> cell, terms |-> TermOfEach(G, Origins, ones)]
      BY <3>1, TotalOfTerms
    <3> QED  BY <3>2 DEF f, cell
  <2>7. Total(vals(r, i)) \in Points
    BY <1>1, <2>1, <2>4, <2>5, <2>6, SumTyped
  <2>8. Total(vals(r, i)).terms = TermOfEach(G, Origins, ones)
        /\ Total(vals(r, i)).cell = OwnCell(r, i)
    BY <2>6
  <2>9. SummedFor(r, Total(vals(r, i)))
    BY <1>1, <2>4, <2>8, InterPoolSummed DEF G
  <2> QED  BY <2>7, <2>8, <2>9
<1> HIDE DEF vals, ones
<1>3. \A r \in World(layout) :
         /\ array_rho'[r] = [i \in 0 .. nrxx(r) - 1 |-> Total(vals(r, i))]
         /\ \A i \in 0 .. nrxx(r) - 1 : array_rho'[r][i] = Total(vals(r, i))
  BY <1>1
<1>4. \A r \in World(layout) : array_rho'[r] \in [0 .. nrxx(r) - 1 -> Points]
  BY <1>2, <1>3
<1>5. \A r \in World(layout) : \A i \in 0 .. nrxx(r) - 1 :
         array_rho'[r][i].cell = OwnCell(r, i) /\ SummedFor(r, array_rho'[r][i])
  BY <1>2, <1>3
<1> QED  BY <1>1, <1>4, <1>5, CompletedBy


\* Uneven pools: every process gathers the whole grid of its pool.
LEMMA GatherPoolStep == CMIInv /\ GatherPool => CMIInv'
<1> SUFFICES ASSUME CMIInv, GatherPool PROVE CMIInv'
  OBVIOUS
<1>1. /\ CMLayout /\ stage' = "gathered"
      /\ array_rho = [r \in World(layout) |-> OwnDensity(r)]
      /\ array_tot' = [r \in World(layout) |-> [j \in GridPoints |-> Gathered(r, j)]]
      /\ UNCHANGED <<layout, nz, array_rho>>
  BY DEF CMIInv, GatherPool, Gathered, GridPoints
<1>2. /\ CMLayout' /\ GridPoints' = GridPoints /\ Points' = Points
  BY <1>1, LayoutStays
<1>3. array_tot' \in [World(layout) -> [GridPoints -> Points]]
  BY <1>1, GatheredTyped
<1>4. ASSUME NEW r \in World(layout), NEW j \in GridPoints
      PROVE  ArrayTotAux(r)'[j] = GatheredPoint(r, j)
  <2>1. GatheredAt(r, j) \in GridPoints
        /\ Gathered(r, GatheredAt(r, j)) = GatheredPoint(r, j)
    BY <1>1, GridReordered
  <2>2. ArrayTotAux(r)'[j] = array_tot'[r][GatheredAt(r, j)]
    BY <1>1, <1>2 DEF ArrayTotAux, GatheredAt, GridPoints, dis
  <2> QED  BY <1>1, <2>1, <2>2
<1>5. \A r \in World(layout') : \A j \in GridPoints' : ArrayTotAux(r)'[j] = GatheredPoint(r, j)'
  <2>1. \A r, j : GatheredPoint(r, j)' = GatheredPoint(r, j)
    BY <1>1, LayoutStays DEF GatheredPoint, GridCell, Origin
  <2> QED  BY <1>1, <1>2, <1>4, <2>1
<1>6. array_rho' = [r \in World(layout') |-> OwnDensity(r)']
  BY <1>1 DEF OwnDensity, nrxx, numz, startz
<1> QED  BY <1>1, <1>2, <1>3, <1>5, <1>6 DEF CMIInv

\* The grids are summed over the group, each value with those of its cell.
LEMMA ReduceGridsStep == CMIInv /\ ReduceGrids => CMIInv'
<1> SUFFICES ASSUME CMIInv, ReduceGrids PROVE CMIInv'
  OBVIOUS
<1> DEFINE aux == [r \in World(layout) |-> ArrayTotAux(r)]
           vals(r, j) == [s \in GridWorld(r) |-> aux[s][j]]
<1>1. /\ CMLayout /\ stage' = "summed"
      /\ array_rho = [r \in World(layout) |-> OwnDensity(r)]
      /\ \A r \in World(layout) : \A j \in GridPoints : ArrayTotAux(r)[j] = GatheredPoint(r, j)
      /\ array_tot' = [r \in World(layout) |-> [j \in GridPoints |-> Total(vals(r, j))]]
      /\ UNCHANGED <<layout, nz, array_rho>>
  BY DEF CMIInv, ReduceGrids, GridPoints
<1>2. /\ CMLayout' /\ GridPoints' = GridPoints
  BY <1>1, LayoutStays
<1>3. ASSUME NEW r \in World(layout), NEW j \in GridPoints
      PROVE  Total(vals(r, j)) = SummedPoint(r, j)
  <2> DEFINE G == GridWorld(r)
  <2>1. G \subseteq World(layout) /\ G # {}
    BY <1>1, GridWorldOf
  <2>2. DOMAIN vals(r, j) = G
    OBVIOUS
  <2>3. ASSUME NEW s \in G
        PROVE  vals(r, j)[s] = OneTerm(GridCell(j), Origins[s], PoolSizes[s])
    BY <1>1, <2>1 DEF GatheredPoint, Origins, PoolSizes
  <2> HIDE DEF vals, G
  <2>4. Total(vals(r, j)) = [cell |-> GridCell(j), terms |-> TermOfEach(G, Origins, PoolSizes)]
    <3> DEFINE f == vals(r, j)
               cell == GridCell(j)
    <3>1. /\ G # {} /\ DOMAIN f = G
          /\ \A s \in G : f[s] = OneTerm(cell, Origins[s], PoolSizes[s])
      BY <2>1, <2>2, <2>3
    <3> HIDE DEF f, cell
    <3>2. Total(f) = [cell |-> cell, terms |-> TermOfEach(G, Origins, PoolSizes)]
      BY <3>1, TotalOfTerms
    <3> QED  BY <3>2 DEF f, cell
  <2> QED  BY <2>4 DEF SummedPoint, G
<1> HIDE DEF vals
<1>4. array_tot' = [r \in World(layout') |-> [j \in GridPoints' |-> SummedPoint(r, j)']]
  <2>1. \A r, j : SummedPoint(r, j)' = SummedPoint(r, j)
    BY <1>1, LayoutStays DEF SummedPoint, GridCell, Origins, Origin, PoolSizes, GridWorld
  <2> QED  BY <1>1, <1>2, <1>3, <2>1
<1>5. array_rho' = [r \in World(layout') |-> OwnDensity(r)']
  BY <1>1 DEF OwnDensity, nrxx, numz, startz
<1> QED  BY <1>1, <1>2, <1>4, <1>5 DEF CMIInv

\* Each process takes from the whole grid the points of its planes.
LEMMA TakeOwnPlanesStep == CMIInv /\ TakeOwnPlanes => CMIInv'
<1> SUFFICES ASSUME CMIInv, TakeOwnPlanes PROVE CMIInv'
  OBVIOUS
<1> DEFINE at(r, i) == nz * (i \div numz(r)) + startz(r) + (i % numz(r))
<1>1. /\ CMLayout /\ stage' = "done"
      /\ array_tot = [r \in World(layout) |-> [j \in GridPoints |-> SummedPoint(r, j)]]
      /\ array_rho' = [r \in World(layout) |-> [i \in 0 .. nrxx(r) - 1 |-> array_tot[r][at(r, i)]]]
      /\ UNCHANGED <<layout, nz, array_tot>>
  BY DEF CMIInv, TakeOwnPlanes
<1>2. ASSUME NEW r \in World(layout), NEW i \in 0 .. nrxx(r) - 1
      PROVE  /\ array_rho'[r][i] \in Points
             /\ array_rho'[r][i].cell = OwnCell(r, i) /\ SummedFor(r, array_rho'[r][i])
  <2>1. at(r, i) \in GridPoints /\ GridCell(at(r, i)) = OwnCell(r, i)
    BY <1>1, OwnInGrid
  <2> HIDE DEF at
  <2>2. array_rho'[r][i] = SummedPoint(r, at(r, i))
    BY <1>1, <2>1
  <2>3. SummedPoint(r, at(r, i)) \in Points
    BY <1>1, <2>1, SummedTyped
  <2>4. /\ SummedPoint(r, at(r, i)).cell = OwnCell(r, i)
        /\ SummedPoint(r, at(r, i)).terms = TermOfEach(GridWorld(r), Origins, PoolSizes)
    BY <2>1 DEF SummedPoint
  <2>5. SummedFor(r, SummedPoint(r, at(r, i)))
    BY <1>1, <2>4, SharesSummed
  <2> QED  BY <2>2, <2>3, <2>4, <2>5
<1> HIDE DEF at
<1>3. \A r \in World(layout) : array_rho'[r] \in [0 .. nrxx(r) - 1 -> Points]
  <2>1. \A r \in World(layout) :
           array_rho'[r] = [i \in 0 .. nrxx(r) - 1 |-> array_tot[r][at(r, i)]]
    BY <1>1
  <2> QED  BY <1>2, <2>1
<1>4. array_tot' \in [World(layout) -> [GridPoints -> Points]]
  BY <1>1, SummedTyped
<1> QED  BY <1>1, <1>2, <1>3, <1>4, CompletedBy

\* Every step of rho_mpi keeps the inductive invariant.
LEMMA CMInductive == CMIInv /\ [CMNext]_cmVars => CMIInv'
<1> SUFFICES ASSUME CMIInv, [CMNext]_cmVars PROVE CMIInv'
  OBVIOUS
<1>1. CASE OnePool
  BY <1>1, OnePoolStep
<1>2. CASE ReduceInterPool
  BY <1>2, ReduceInterPoolStep
<1>3. CASE GatherPool
  BY <1>3, GatherPoolStep
<1>4. CASE ReduceGrids
  BY <1>4, ReduceGridsStep
<1>5. CASE TakeOwnPlanes
  BY <1>5, TakeOwnPlanesStep
<1>6. CASE UNCHANGED cmVars
  BY <1>6 DEF cmVars, CMIInv, Completed, CMLayout, GridPoints, Points, Terms, Contributions,
     SummedFor, TermsOf, Origin, Origins, PoolSizes, GridWorld, GridCell, nrxx, OwnCell, numz,
     startz, OwnDensity, ArrayTotAux, dis, GatheredPoint, SummedPoint
<1> QED  BY <1>1, <1>2, <1>3, <1>4, <1>5, <1>6 DEF CMNext

\* The inductive invariant holds in every run.
THEOREM CMInvariant == CMSpec => []CMIInv
<1> QED  BY CMInitially, CMInductive, PTL DEF CMSpec

\* TypeOK of ChargeMpi: the density has a value at each point of the planes of
\* each process, the gathered grids at each point of the grid.
THEOREM DensityTypeCorrect == CMSpec => []CMTypeOK
<1>1. CMIInv => CMTypeOK
  <2> SUFFICES ASSUME CMIInv PROVE CMTypeOK
    OBVIOUS
  <2>1. CMLayout /\ stage \in {"psi", "gathered", "summed", "done"}
    BY DEF CMIInv
  <2>2. \A r \in World(layout) : array_rho[r] \in [0 .. nrxx(r) - 1 -> Points]
    BY <2>1, OwnDensityTyped DEF CMIInv, Completed
  <2>3. array_tot # <<>> => array_tot \in [World(layout) -> [GridPoints -> Points]]
    BY <2>1, SummedTyped DEF CMIInv, Completed
  <2> QED  BY <2>1, <2>2, <2>3 DEF CMTypeOK, GridPoints
<1> QED  BY <1>1, CMInvariant, PTL

\* RhoSummed of ChargeMpi: every process ends with the density of each pool of
\* its stochastic group exactly once, however the processes are divided among
\* the pools and the planes among the processes.
THEOREM DensitySummed == CMSpec => []RhoSummed
<1>1. CMIInv => RhoSummed
  BY DEF CMIInv, Completed, RhoSummed, SummedFor, OwnCell
<1> QED  BY <1>1, CMInvariant, PTL

=============================================================================
