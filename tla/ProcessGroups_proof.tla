------------------------- MODULE ProcessGroups_proof -------------------------
(***************************************************************************)
(* divide_mpi_groups and distribute_r divide any number of items among any *)
(* number of groups: every item is in exactly one group.  And what the     *)
(* Bcasts of the SCF loop rely on, for every number of processes, groups   *)
(* and pools: PARAPW_WORLD joins the processes that hold the same part of  *)
(* the density in their groups, and its root is in the first one.  The     *)
(* processes of a pool are consecutive ranks, none is empty, and between   *)
(* even pools INTER_POOL has one process of each.                          *)
(***************************************************************************)
EXTENDS ProcessGroups, FiniteSetTheorems, TLAPS

-----------------------------------------------------------------------------
(* The division of items among groups *)

\* Quotient and remainder, with their types.
LEMMA Division ==
    ASSUME NEW a \in Nat, NEW b \in Nat \ {0}
    PROVE  /\ a \div b \in Nat
           /\ a % b \in 0 .. b - 1
           /\ a = (b * (a \div b)) + (a % b)
  OBVIOUS

\* A group begins where the one before it ends.
LEMMA NextStart ==
    ASSUME NEW procs \in Nat, NEW num_groups \in Nat \ {0}, NEW i \in Nat
    PROVE  GroupStart(procs, num_groups, i + 1)
             = GroupStart(procs, num_groups, i) + GroupSize(procs, num_groups, i)
<1> DEFINE q == procs \div num_groups
           e == procs % num_groups
<1>1. q \in Nat /\ e \in Nat
  BY Division
<1>2. (i + 1) * q = (i * q) + q /\ i * q \in Nat
  BY <1>1
<1>3. Least(i + 1, e) = Least(i, e) + (IF i < e THEN 1 ELSE 0)
  BY <1>1 DEF Least
<1> HIDE DEF q, e
<1>4. (i + 1) * q + Least(i + 1, e)
        = (i * q + Least(i, e)) + (q + (IF i < e THEN 1 ELSE 0))
  <2>1. Least(i, e) \in Nat
    BY <1>1 DEF Least
  <2> QED  BY <1>1, <1>2, <1>3, <2>1
<1> QED  BY <1>4 DEF GroupStart, GroupSize, q, e

\* The starts of the groups never decrease.
LEMMA StartMonotone ==
    ASSUME NEW procs \in Nat, NEW num_groups \in Nat \ {0},
           NEW i \in Nat, NEW j \in Nat, i <= j
    PROVE  /\ GroupStart(procs, num_groups, i) \in Nat
           /\ GroupStart(procs, num_groups, i) <= GroupStart(procs, num_groups, j)
<1> DEFINE q == procs \div num_groups
           e == procs % num_groups
<1>1. q \in Nat /\ e \in Nat
  BY Division
<1> HIDE DEF q, e
<1>2. PICK d \in Nat : j = i + d
  BY i <= j, j - i \in Nat
<1>3. j * q = (i * q) + (d * q) /\ i * q \in Nat /\ d * q \in Nat
  BY <1>1, <1>2
<1>4. Least(i, e) \in Nat /\ Least(j, e) \in Nat /\ Least(i, e) <= Least(j, e)
  BY <1>1, i <= j DEF Least
<1>5. i * q + Least(i, e) \in Nat /\ i * q + Least(i, e) <= j * q + Least(j, e)
  BY <1>3, <1>4
<1> QED  BY <1>5 DEF GroupStart, q, e

\* Rank `rank' lies in group i.
InGroup(procs, num_groups, i, rank) ==
    /\ GroupStart(procs, num_groups, i) <= rank
    /\ rank < GroupStart(procs, num_groups, i) + GroupSize(procs, num_groups, i)

\* The quotient by the group's size finds the group of a rank: of size q + 1
\* for the first e groups, of size q for the others.
LEMMA SomeGroup ==
    ASSUME NEW procs \in Nat, NEW num_groups \in Nat \ {0},
           NEW rank \in 0 .. procs - 1
    PROVE  \E i \in 0 .. num_groups - 1 : InGroup(procs, num_groups, i, rank)
<1> DEFINE q == procs \div num_groups
           e == procs % num_groups
<1>1. /\ q \in Nat /\ e \in Nat /\ e < num_groups
      /\ procs = (num_groups * q) + e
  BY Division
<1> HIDE DEF q, e
<1>2. SUFFICES \E i \in 0 .. num_groups - 1 :
                 /\ i * q + Least(i, e) <= rank
                 /\ rank < (i * q + Least(i, e)) + (q + (IF i < e THEN 1 ELSE 0))
  BY DEF InGroup, GroupStart, GroupSize, q, e
<1>3. CASE rank < e * (q + 1)
  <2> DEFINE i == rank \div (q + 1)
             m == rank % (q + 1)
  <2>1. i \in Nat /\ m \in 0 .. q /\ rank = ((q + 1) * i) + m
    <3>1. rank \in Nat /\ q + 1 \in Nat \ {0} /\ 0 .. (q + 1) - 1 = 0 .. q
      BY <1>1
    <3>2. i \in Nat /\ m \in 0 .. (q + 1) - 1 /\ rank = ((q + 1) * i) + m
      BY <3>1, Division
    <3> QED  BY <3>1, <3>2
  <2> HIDE DEF i, m
  <2>2. i < e
    <3>1. SUFFICES ASSUME i >= e PROVE FALSE
      BY <1>1, <2>1
    <3>2. i * (q + 1) >= e * (q + 1)
      BY <1>1, <2>1, <3>1
    <3> QED  BY <1>1, <1>3, <2>1, <3>2
  <2>3. Least(i, e) = i
    BY <2>2 DEF Least
  <2>4. (q + 1) * i = (i * q) + i /\ i * q \in Nat
    BY <1>1, <2>1
  <2>5. i \in 0 .. num_groups - 1
    BY <1>1, <2>1, <2>2
  <2>6. i * q + i <= rank /\ rank < (i * q + i) + (q + 1)
    BY <1>1, <2>1, <2>4
  <2> QED  BY <2>2, <2>3, <2>5, <2>6
<1>4. CASE rank >= e * (q + 1)
  <2>1. e * (q + 1) = (e * q) + e /\ e * q \in Nat
    BY <1>1
  <2>2. q # 0
    <3>1. SUFFICES ASSUME q = 0 PROVE FALSE
      OBVIOUS
    <3>2. num_groups * q = 0 /\ e * q = 0
      BY <1>1, <3>1
    <3> QED  BY <1>1, <1>4, <2>1, <3>2
  <2> DEFINE k == (rank - e * (q + 1)) \div q
             m == (rank - e * (q + 1)) % q
  <2>3. k \in Nat /\ m \in 0 .. q - 1 /\ rank - e * (q + 1) = (q * k) + m
    <3>1. rank - e * (q + 1) \in Nat /\ q \in Nat \ {0}
      BY <1>1, <1>4, <2>1, <2>2
    <3> QED  BY <3>1, Division
  <2> HIDE DEF k, m
  <2>4. (e + k) * q = (e * q) + (q * k) /\ q * k \in Nat
    BY <1>1, <2>3
  <2>5. e + k < num_groups
    <3>1. SUFFICES ASSUME e + k >= num_groups PROVE FALSE
      BY <1>1, <2>3
    <3>2. (e + k) * q >= num_groups * q /\ num_groups * q \in Nat
      BY <1>1, <2>3, <3>1
    <3> QED  BY <1>1, <2>1, <2>3, <2>4, <3>2
  <2>6. Least(e + k, e) = e /\ ~(e + k < e)
    BY <1>1, <2>3 DEF Least
  <2>7. e + k \in 0 .. num_groups - 1
    BY <1>1, <2>3, <2>5
  <2>8. (e + k) * q + e <= rank /\ rank < ((e + k) * q + e) + (q + 0)
    BY <1>1, <2>1, <2>3, <2>4
  <2> QED  BY <2>6, <2>7, <2>8
<1> QED  BY <1>1, <1>3, <1>4

\* A rank is not in two groups.
LEMMA OneGroup ==
    ASSUME NEW procs \in Nat, NEW num_groups \in Nat \ {0}, NEW rank \in Nat,
           NEW i \in Nat, NEW j \in Nat,
           InGroup(procs, num_groups, i, rank), InGroup(procs, num_groups, j, rank)
    PROVE  i = j
<1>1. ASSUME NEW a \in Nat, NEW b \in Nat, a < b,
             InGroup(procs, num_groups, a, rank), InGroup(procs, num_groups, b, rank)
      PROVE  FALSE
  <2>1. GroupStart(procs, num_groups, a + 1) <= GroupStart(procs, num_groups, b)
    BY <1>1, StartMonotone, a + 1 \in Nat, a + 1 <= b
  <2>2. /\ GroupStart(procs, num_groups, a + 1) \in Nat
        /\ GroupStart(procs, num_groups, b) \in Nat
    BY <1>1, StartMonotone, a + 1 \in Nat, a + 1 <= a + 1, b <= b
  <2>3. rank < GroupStart(procs, num_groups, a + 1)
    BY <1>1, NextStart DEF InGroup
  <2>4. GroupStart(procs, num_groups, b) <= rank
    BY <1>1 DEF InGroup
  <2> QED  BY <2>1, <2>2, <2>3, <2>4
<1> QED  BY <1>1

\* Every rank finds its group, and in it a rank of its own: the pairs of a
\* group and of a rank in it name the processes that MPI_Comm_split gathers.
THEOREM GroupOfRank ==
    ASSUME NEW procs \in Nat, NEW num_groups \in Nat \ {0},
           NEW rank \in 0 .. procs - 1
    PROVE  LET g == MyGroup(procs, num_groups, rank)
           IN  /\ g \in 0 .. num_groups - 1
               /\ RankInGroup(procs, num_groups, rank)
                    \in 0 .. GroupSize(procs, num_groups, g) - 1
               /\ \A i \in 0 .. num_groups - 1 :
                    InGroup(procs, num_groups, i, rank) => i = g
<1> DEFINE g == MyGroup(procs, num_groups, rank)
<1>1. g \in 0 .. num_groups - 1 /\ InGroup(procs, num_groups, g, rank)
  BY SomeGroup DEF MyGroup, InGroup
<1>2. /\ GroupStart(procs, num_groups, g) \in Nat
      /\ GroupSize(procs, num_groups, g) \in Nat
  <2>1. procs \div num_groups \in Nat
    BY Division
  <2>2. g \in Nat /\ g <= g
    BY <1>1
  <2>3. GroupStart(procs, num_groups, g) \in Nat
    BY <2>2, StartMonotone
  <2>4. GroupSize(procs, num_groups, g) \in Nat
    BY <2>1 DEF GroupSize
  <2> QED  BY <2>3, <2>4
<1>3. RankInGroup(procs, num_groups, rank)
        \in 0 .. GroupSize(procs, num_groups, g) - 1
  BY <1>1, <1>2 DEF RankInGroup, InGroup
<1>4. \A i \in 0 .. num_groups - 1 : InGroup(procs, num_groups, i, rank) => i = g
  BY <1>1, OneGroup
<1> QED  BY <1>1, <1>3, <1>4

\* Two processes do not get the same rank in the same group.
THEOREM RanksDistinct ==
    ASSUME NEW procs \in Nat, NEW num_groups \in Nat \ {0},
           NEW r \in 0 .. procs - 1, NEW s \in 0 .. procs - 1,
           MyGroup(procs, num_groups, r) = MyGroup(procs, num_groups, s),
           RankInGroup(procs, num_groups, r) = RankInGroup(procs, num_groups, s)
    PROVE  r = s
<1>1. MyGroup(procs, num_groups, r) \in Nat
  BY GroupOfRank
<1>2. GroupStart(procs, num_groups, MyGroup(procs, num_groups, r)) \in Nat
  BY <1>1, StartMonotone, MyGroup(procs, num_groups, r) <= MyGroup(procs, num_groups, r)
<1> QED  BY <1>2 DEF RankInGroup

\* The groups contain all the items and no more.
THEOREM GroupsEnd ==
    ASSUME NEW procs \in Nat, NEW num_groups \in Nat \ {0}
    PROVE  /\ GroupStart(procs, num_groups, 0) = 0
           /\ GroupStart(procs, num_groups, num_groups) = procs
<1> DEFINE q == procs \div num_groups
           e == procs % num_groups
<1>1. /\ q \in Nat /\ e \in Nat /\ e < num_groups
      /\ procs = (num_groups * q) + e
  BY Division
<1> HIDE DEF q, e
<1>2. 0 * q = 0 /\ Least(0, e) = 0 /\ Least(num_groups, e) = e
  BY <1>1 DEF Least
<1>3. 0 * q + Least(0, e) = 0 /\ num_groups * q + Least(num_groups, e) = procs
  BY <1>1, <1>2
<1> QED  BY <1>3 DEF GroupStart, q, e

-----------------------------------------------------------------------------
(* The communicators *)

\* A layout with stochastic groups of one size, as the even division ensures.
EvenLayout(L) == /\ L.NPROC \in Nat \ {0}
                 /\ L.NSTOGROUP \in Nat \ {0}
                 /\ L.KPAR \in Nat \ {0}
                 /\ L.NPROC % L.NSTOGROUP = 0

\* In an even division into groups of q, rank r is the (r % q)-th process of
\* group r \div q.
LEMMA EvenGroups ==
    ASSUME NEW procs \in Nat \ {0}, NEW num_groups \in Nat \ {0},
           procs % num_groups = 0, NEW r \in 0 .. procs - 1
    PROVE  LET q == procs \div num_groups
           IN  /\ q \in Nat \ {0}
               /\ MyGroup(procs, num_groups, r) = r \div q
               /\ RankInGroup(procs, num_groups, r) = r % q
<1> DEFINE q == procs \div num_groups
           g == MyGroup(procs, num_groups, r)
<1>1. q \in Nat /\ procs = num_groups * q
  <2>1. q \in Nat /\ procs = (num_groups * q) + (procs % num_groups)
    BY Division
  <2>2. num_groups * q \in Nat
    BY <2>1
  <2> QED  BY <2>1, <2>2
<1>2. q # 0
  <2>1. num_groups * 0 = 0
    OBVIOUS
  <2> QED  BY <1>1, <2>1
<1>3. /\ g \in 0 .. num_groups - 1
      /\ RankInGroup(procs, num_groups, r) \in 0 .. GroupSize(procs, num_groups, g) - 1
  BY GroupOfRank
<1>4. GroupSize(procs, num_groups, g) = q /\ GroupStart(procs, num_groups, g) = g * q
  <2>1. ~(g < procs % num_groups) /\ Least(g, procs % num_groups) = 0
    BY <1>3 DEF Least
  <2>2. g * q \in Nat
    BY <1>1, <1>3
  <2> QED  BY <1>1, <2>1, <2>2 DEF GroupSize, GroupStart
<1>5. PICK m \in 0 .. q - 1 : r - (g * q) = m
  BY <1>1, <1>3, <1>4 DEF RankInGroup
<1>6. r = (q * g) + m
  <2>1. g * q = q * g /\ g * q \in Nat
    BY <1>1, <1>3
  <2> QED  BY <1>1, <1>5, <2>1
<1>7. RankInGroup(procs, num_groups, r) = m
  BY <1>4, <1>5 DEF RankInGroup
<1>8. q \in Nat \ {0} /\ r \in Nat
  BY <1>1, <1>2
<1> HIDE DEF q, g
<1>9. g = r \div q /\ m = r % q
  <2> DEFINE d == r \div q
             e == r % q
  <2>1. d \in Nat /\ e \in 0 .. q - 1 /\ r = (q * d) + e
    BY <1>8, Division
  <2> HIDE DEF d, e
  <2>2. g \in Nat /\ m \in 0 .. q - 1 /\ q \in Nat \ {0}
    BY <1>1, <1>2, <1>3
  <2>3. ~(g < d)
    <3>1. SUFFICES ASSUME g < d PROVE FALSE
      OBVIOUS
    <3>2. q * (g + 1) <= q * d /\ q * (g + 1) = (q * g) + q
      BY <2>1, <2>2, <3>1
    <3>3. q * g \in Nat /\ q * d \in Nat
      BY <2>1, <2>2
    <3> QED  BY <1>6, <2>1, <2>2, <3>2, <3>3
  <2>4. ~(d < g)
    <3>1. SUFFICES ASSUME d < g PROVE FALSE
      OBVIOUS
    <3>2. q * (d + 1) <= q * g /\ q * (d + 1) = (q * d) + q
      BY <2>1, <2>2, <3>1
    <3>3. q * g \in Nat /\ q * d \in Nat
      BY <2>1, <2>2
    <3> QED  BY <1>6, <2>1, <2>2, <3>2, <3>3
  <2>5. g = d
    BY <2>1, <2>2, <2>3, <2>4
  <2>6. q * g \in Nat
    BY <2>2
  <2> QED  BY <1>6, <2>1, <2>2, <2>5, <2>6 DEF d, e
<1> QED  BY <1>1, <1>2, <1>7, <1>9 DEF q, g

\* The group of a process and its rank in it.
LEMMA PlaceInEvenLayout ==
    ASSUME NEW L, EvenLayout(L), NEW r \in World(L)
    PROVE  /\ NPROC_IN_STOGROUP(L) \in Nat \ {0}
           /\ MY_STOGROUP(L, r) = r \div NPROC_IN_STOGROUP(L)
           /\ RANK_IN_STOGROUP(L, r) = r % NPROC_IN_STOGROUP(L)
<1> DEFINE procs == L.NPROC
           groups == L.NSTOGROUP
<1>1. /\ procs \in Nat \ {0} /\ groups \in Nat \ {0} /\ procs % groups = 0
      /\ r \in 0 .. procs - 1
  BY DEF EvenLayout, World
<1> HIDE DEF procs, groups
<1>2. /\ procs \div groups \in Nat \ {0}
      /\ MyGroup(procs, groups, r) = r \div (procs \div groups)
      /\ RankInGroup(procs, groups, r) = r % (procs \div groups)
  BY <1>1, EvenGroups
<1> QED  BY <1>2 DEF procs, groups, NPROC_IN_STOGROUP, MY_STOGROUP, RANK_IN_STOGROUP

\* The members of PARAPW_WORLD have the same place in their groups: the same
\* pool and the same rank in it, hence the same planes of the density.
THEOREM ParapwSamePart ==
    ASSUME NEW L, EvenLayout(L), NEW r \in World(L), NEW s \in PARAPW_WORLD(L, r)
    PROVE  /\ RANK_IN_STOGROUP(L, s) = RANK_IN_STOGROUP(L, r)
           /\ MY_POOL(L, s) = MY_POOL(L, r)
           /\ RANK_IN_POOL(L, s) = RANK_IN_POOL(L, r)
<1>1. s \in World(L) /\ s % NPROC_IN_STOGROUP(L) = r % NPROC_IN_STOGROUP(L)
  BY DEF PARAPW_WORLD, ParapwColor
<1>2. \A t \in World(L) : RANK_IN_STOGROUP(L, t) = t % NPROC_IN_STOGROUP(L)
  BY PlaceInEvenLayout
<1>4. RANK_IN_STOGROUP(L, s) = RANK_IN_STOGROUP(L, r)
  BY <1>1, <1>2
<1> QED  BY <1>4 DEF MY_POOL, RANK_IN_POOL

\* The root of PARAPW_WORLD, its least member, is in the first stochastic
\* group: what the others receive is what that group computed.
THEOREM ParapwRootInFirstGroup ==
    ASSUME NEW L, EvenLayout(L), NEW r \in World(L)
    PROVE  LET root == r % NPROC_IN_STOGROUP(L)
           IN  /\ root \in PARAPW_WORLD(L, r)
               /\ MY_STOGROUP(L, root) = 0
               /\ \A s \in PARAPW_WORLD(L, r) : root <= s
<1> DEFINE q == NPROC_IN_STOGROUP(L)
           root == r % q
<1>1. q \in Nat \ {0} /\ r \in 0 .. L.NPROC - 1 /\ L.NPROC \in Nat \ {0}
  BY EvenGroups DEF EvenLayout, World, NPROC_IN_STOGROUP
<1>2. \A s \in 0 .. L.NPROC - 1 : s % q \in 0 .. q - 1 /\ s % q <= s
  <2> TAKE s \in 0 .. L.NPROC - 1
  <2>0. s \in Nat
    BY <1>1
  <2> HIDE DEF q
  <2>1. s \div q \in Nat /\ s % q \in 0 .. q - 1 /\ s = (q * (s \div q)) + (s % q)
    BY <1>1, <2>0, Division
  <2>2. q * (s \div q) \in Nat
    BY <1>1, <2>1
  <2> QED  BY <1>1, <2>1, <2>2
<1>3. root \in 0 .. q - 1 /\ root \in World(L)
  BY <1>1, <1>2 DEF World
<1>4. root % q = root /\ root \div q = 0
  <2>1. root \in Nat /\ root < q
    BY <1>1, <1>3
  <2> HIDE DEF q, root
  <2> DEFINE d == root \div q
             e == root % q
  <2>2. d \in Nat /\ e \in 0 .. q - 1 /\ root = (q * d) + e
    BY <1>1, <2>1, Division
  <2> HIDE DEF d, e
  <2>3. ~(d >= 1)
    <3>1. SUFFICES ASSUME d >= 1 PROVE FALSE
      OBVIOUS
    <3>2. q * d >= q /\ q * d \in Nat
      BY <1>1, <2>2, <3>1
    <3> QED  BY <1>1, <2>1, <2>2, <3>2
  <2>4. d = 0 /\ q * 0 = 0
    BY <1>1, <2>2, <2>3
  <2> QED  BY <1>1, <2>1, <2>2, <2>4 DEF d, e
<1>5. root \in PARAPW_WORLD(L, r)
  BY <1>3, <1>4 DEF PARAPW_WORLD, ParapwColor
<1>6. MY_STOGROUP(L, root) = 0
  <2> HIDE DEF root
  <2>1. MY_STOGROUP(L, root) = root \div q
    BY <1>3, PlaceInEvenLayout
  <2> QED  BY <1>4, <2>1
<1>7. ASSUME NEW s \in PARAPW_WORLD(L, r) PROVE root <= s
  <2>1. s \in 0 .. L.NPROC - 1 /\ s % q = root
    BY DEF PARAPW_WORLD, ParapwColor, World
  <2> QED  BY <1>2, <2>1
<1> QED  BY <1>5, <1>6, <1>7

-----------------------------------------------------------------------------
(* The processes of a pool *)

LEMMA DivMod ==
    ASSUME NEW q \in Nat \ {0}, NEW g \in Nat, NEW x \in 0 .. q - 1
    PROVE  (g * q + x) \div q = g /\ (g * q + x) % q = x
<1> DEFINE a == g * q + x
           d == a \div q
           e == a % q
<1>1. a \in Nat /\ g * q \in Nat
  OBVIOUS
<1>2. a = g * q + x
  OBVIOUS
<1> HIDE DEF a
<1>3. d \in Nat /\ e \in 0 .. q - 1 /\ a = (q * d) + e
  BY <1>1, Division
<1> HIDE DEF d, e
<1>4. ~(g < d)
  <2>1. SUFFICES ASSUME g < d PROVE FALSE
    OBVIOUS
  <2>2. (g + 1) * q <= d * q /\ (g + 1) * q = g * q + q /\ d * q = q * d
    BY <1>3, <2>1
  <2>3. q * d \in Nat
    BY <1>3
  <2> QED  BY <1>1, <1>2, <1>3, <2>2, <2>3
<1>5. ~(d < g)
  <2>1. SUFFICES ASSUME d < g PROVE FALSE
    OBVIOUS
  <2>2. (d + 1) * q <= g * q /\ (d + 1) * q = d * q + q /\ d * q = q * d
    BY <1>3, <2>1
  <2>3. q * d \in Nat
    BY <1>3
  <2> QED  BY <1>1, <1>2, <1>3, <2>2, <2>3
<1>6. g = d
  BY <1>3, <1>4, <1>5
<1>7. e = x
  <2>1. q * d = g * q
    BY <1>3, <1>6
  <2> QED  BY <1>1, <1>2, <1>3, <2>1
<1> QED  BY <1>6, <1>7 DEF d, e, a

\* A division in which there are as many items as groups: no group is empty,
\* and it ends within the items.
LEMMA GroupWithin ==
    ASSUME NEW procs \in Nat, NEW num_groups \in Nat \ {0},
           NEW i \in 0 .. num_groups - 1
    PROVE  /\ GroupStart(procs, num_groups, i) \in Nat
           /\ GroupSize(procs, num_groups, i) \in Nat
           /\ GroupStart(procs, num_groups, i) + GroupSize(procs, num_groups, i) <= procs
           /\ num_groups <= procs => GroupSize(procs, num_groups, i) # 0
           /\ procs % num_groups = 0 =>
                 GroupSize(procs, num_groups, i) = procs \div num_groups
<1>1. i \in Nat /\ i + 1 \in Nat /\ i + 1 <= num_groups
  OBVIOUS
<1>2. GroupStart(procs, num_groups, i) \in Nat
  BY <1>1, StartMonotone, i <= i
<1>3. procs \div num_groups \in Nat /\ procs % num_groups \in 0 .. num_groups - 1
      /\ procs = (num_groups * (procs \div num_groups)) + (procs % num_groups)
  BY Division
<1>4. GroupSize(procs, num_groups, i) \in Nat
  BY <1>3 DEF GroupSize
<1>5. GroupStart(procs, num_groups, i) + GroupSize(procs, num_groups, i) <= procs
  <2>1. GroupStart(procs, num_groups, i + 1) <= GroupStart(procs, num_groups, num_groups)
    BY <1>1, StartMonotone
  <2>2. GroupStart(procs, num_groups, i + 1)
          = GroupStart(procs, num_groups, i) + GroupSize(procs, num_groups, i)
    BY <1>1, NextStart
  <2> QED  BY <2>1, <2>2, GroupsEnd
<1>6. ASSUME num_groups <= procs PROVE GroupSize(procs, num_groups, i) # 0
  <2> DEFINE d == procs \div num_groups
             e == procs % num_groups
  <2>1. d \in Nat /\ e \in 0 .. num_groups - 1 /\ procs = (num_groups * d) + e
    BY <1>3
  <2> HIDE DEF d, e
  <2>2. d # 0
    <3>1. SUFFICES ASSUME d = 0 PROVE FALSE
      OBVIOUS
    <3>2. num_groups * d = 0
      BY <3>1
    <3> QED  BY <1>6, <2>1, <3>2
  <2> QED  BY <2>1, <2>2 DEF GroupSize, d
<1>7. ASSUME procs % num_groups = 0
      PROVE  GroupSize(procs, num_groups, i) = procs \div num_groups
  BY <1>3, <1>7 DEF GroupSize
<1> QED  BY <1>2, <1>4, <1>5, <1>6, <1>7

\* A layout in which every pool has a process
PoolLayout(L) == EvenLayout(L) /\ L.KPAR <= NPROC_IN_STOGROUP(L)

\* The first process of a pool, and their number
PoolStart(L, g, p) == g * NPROC_IN_STOGROUP(L) + GroupStart(NPROC_IN_STOGROUP(L), L.KPAR, p)
PoolSize(L, p) == GroupSize(NPROC_IN_STOGROUP(L), L.KPAR, p)

\* The processes of pool p of group g are consecutive, in the order of their
\* ranks in it.
THEOREM PoolInterval ==
    ASSUME NEW L, PoolLayout(L),
           NEW g \in 0 .. L.NSTOGROUP - 1, NEW p \in 0 .. L.KPAR - 1
    PROVE  /\ PoolStart(L, g, p) \in Nat /\ PoolSize(L, p) \in Nat \ {0}
           /\ {s \in World(L) : MY_STOGROUP(L, s) = g /\ MY_POOL(L, s) = p}
                = PoolStart(L, g, p) .. PoolStart(L, g, p) + PoolSize(L, p) - 1
           /\ \A s \in World(L) :
                 MY_STOGROUP(L, s) = g /\ MY_POOL(L, s) = p =>
                    RANK_IN_POOL(L, s) = s - PoolStart(L, g, p)
<1> DEFINE q == NPROC_IN_STOGROUP(L)
           k == L.KPAR
           start == GroupStart(q, k, p)
           size == GroupSize(q, k, p)
           a == g * q + start
<1>1. /\ L.NPROC \in Nat \ {0} /\ L.NSTOGROUP \in Nat \ {0} /\ k \in Nat \ {0}
      /\ L.NPROC % L.NSTOGROUP = 0 /\ k <= q
  BY DEF PoolLayout, EvenLayout
<1>2. q \in Nat \ {0} /\ L.NPROC = L.NSTOGROUP * q
  <2> DEFINE n == L.NPROC
             m == L.NSTOGROUP
  <2>1. n \in Nat \ {0} /\ m \in Nat \ {0} /\ n % m = 0
    BY <1>1
  <2> HIDE DEF n, m
  <2>2. n \div m \in Nat /\ n = (m * (n \div m)) + (n % m)
    BY <2>1, Division
  <2>3. m * (n \div m) \in Nat /\ m * 0 = 0
    BY <2>1, <2>2
  <2>4. n = m * (n \div m) /\ n \div m # 0
    BY <2>1, <2>2, <2>3
  <2> QED  BY <2>2, <2>4 DEF n, m, NPROC_IN_STOGROUP
<1>3. \A r \in World(L) : /\ MY_STOGROUP(L, r) = r \div q
                          /\ RANK_IN_STOGROUP(L, r) = r % q
  BY PlaceInEvenLayout DEF PoolLayout
<1> DEFINE m == L.NSTOGROUP
<1>4. m \in Nat \ {0} /\ g \in 0 .. m - 1 /\ p \in 0 .. k - 1
  BY <1>1
<1>5. World(L) = 0 .. m * q - 1 /\ m * q \in Nat
  BY <1>1, <1>2 DEF World
<1>6. \A r \in World(L) : /\ MY_POOL(L, r) = MyGroup(q, k, r % q)
                          /\ RANK_IN_POOL(L, r) = (r % q) - GroupStart(q, k, MyGroup(q, k, r % q))
  BY <1>3 DEF MY_POOL, RANK_IN_POOL, RankInGroup
<1> HIDE DEF q, k, m
<1>7. start \in Nat /\ size \in Nat /\ start + size <= q /\ size # 0
  BY <1>1, <1>2, <1>4, GroupWithin
<1>8. \A x \in 0 .. q - 1 : MyGroup(q, k, x) = p <=> InGroup(q, k, p, x)
  <2> SUFFICES ASSUME NEW x \in 0 .. q - 1
               PROVE  MyGroup(q, k, x) = p <=> InGroup(q, k, p, x)
    OBVIOUS
  <2>1. InGroup(q, k, p, x) => p = MyGroup(q, k, x)
    BY <1>1, <1>2, <1>4, GroupOfRank
  <2>2. InGroup(q, k, MyGroup(q, k, x), x)
    BY <1>1, <1>2, SomeGroup DEF MyGroup, InGroup
  <2> QED  BY <2>1, <2>2
<1>9. \A x \in 0 .. q - 1 : InGroup(q, k, p, x) <=> start <= x /\ x < start + size
  BY DEF InGroup
<1> HIDE DEF start, size
<1>10. a \in Nat /\ g * q \in Nat
  BY <1>2, <1>4, <1>7
<1>11. ASSUME NEW s \in a .. a + size - 1
       PROVE  s \in World(L) /\ MY_STOGROUP(L, s) = g /\ MY_POOL(L, s) = p
  <2> DEFINE x == s - g * q
  <2>1. s \in Nat /\ start <= x /\ x < start + size /\ x \in 0 .. q - 1 /\ s = g * q + x
    <3> DEFINE b == g * q
    <3>1. b \in Nat /\ s \in b + start .. b + start + size - 1
      BY <1>10
    <3> HIDE DEF b
    <3>2. /\ s \in Nat /\ start <= s - b /\ s - b < start + size /\ s - b \in 0 .. q - 1
          /\ s = b + (s - b)
      BY <1>2, <1>7, <3>1
    <3> QED  BY <3>2 DEF b
  <2> HIDE DEF x
  <2>2. s \div q = g /\ s % q = x
    BY <1>2, <1>4, <2>1, DivMod
  <2>3. s \in World(L)
    <3>1. (g + 1) * q <= m * q /\ (g + 1) * q = g * q + q
      BY <1>2, <1>4
    <3> QED  BY <1>2, <1>5, <1>10, <2>1, <3>1
  <2> QED  BY <1>3, <1>6, <1>8, <1>9, <2>1, <2>2, <2>3
<1>12. ASSUME NEW s \in World(L), MY_STOGROUP(L, s) = g, MY_POOL(L, s) = p
       PROVE  s \in a .. a + size - 1 /\ RANK_IN_POOL(L, s) = s - a
  <2> DEFINE x == s % q
  <2>1. s \in Nat /\ s \div q = g /\ MyGroup(q, k, x) = p
    BY <1>3, <1>5, <1>6, <1>12
  <2>2. x \in 0 .. q - 1 /\ s = (q * g) + x
    <3>1. s \div q \in Nat /\ s % q \in 0 .. q - 1 /\ s = (q * (s \div q)) + (s % q)
      BY <1>2, <2>1, Division
    <3> QED  BY <2>1, <3>1
  <2>3. RANK_IN_POOL(L, s) = x - start
    BY <1>6, <2>1 DEF start
  <2> HIDE DEF x
  <2>4. start <= x /\ x < start + size
    BY <1>8, <1>9, <2>1, <2>2
  <2>5. q * g = g * q
    BY <1>2, <1>4
  <2> QED  BY <1>7, <1>10, <2>1, <2>2, <2>3, <2>4, <2>5
<1>13. {s \in World(L) : MY_STOGROUP(L, s) = g /\ MY_POOL(L, s) = p} = a .. a + size - 1
  BY <1>11, <1>12
<1> QED  BY <1>7, <1>10, <1>12, <1>13 DEF PoolStart, PoolSize, start, size, a, q, k

\* The place of a process, and those with whom it shares its pool.
LEMMA PlaceOfProcess ==
    ASSUME NEW L, PoolLayout(L), NEW r \in World(L)
    PROVE  /\ MY_STOGROUP(L, r) \in 0 .. L.NSTOGROUP - 1
           /\ MY_POOL(L, r) \in 0 .. L.KPAR - 1
           /\ NPROC_IN_POOL(L, r) = PoolSize(L, MY_POOL(L, r))
           /\ NPROC_IN_POOL(L, r) \in Nat \ {0}
           /\ RANK_IN_POOL(L, r) \in 0 .. NPROC_IN_POOL(L, r) - 1
           /\ POOL_WORLD(L, r) =
                {s \in World(L) : MY_STOGROUP(L, s) = MY_STOGROUP(L, r)
                                  /\ MY_POOL(L, s) = MY_POOL(L, r)}
<1> DEFINE g == MY_STOGROUP(L, r)
           p == MY_POOL(L, r)
           q == NPROC_IN_STOGROUP(L)
           k == L.KPAR
<1>1. EvenLayout(L) /\ k \in Nat \ {0}
  BY DEF PoolLayout, EvenLayout
<1>2. q \in Nat \ {0} /\ RANK_IN_STOGROUP(L, r) = r % q
  BY <1>1, PlaceInEvenLayout
<1>3. g \in 0 .. L.NSTOGROUP - 1
  BY <1>1, GroupOfRank DEF EvenLayout, World, MY_STOGROUP
<1>4. p \in 0 .. k - 1
  <2>1. r \in Nat
    BY <1>1 DEF World, EvenLayout
  <2>2. p = MyGroup(q, k, r % q)
    BY <1>2 DEF MY_POOL
  <2> HIDE DEF q, k, p
  <2>3. r % q \in 0 .. q - 1
    BY <1>2, <2>1, Division
  <2> QED  BY <1>1, <1>2, <2>2, <2>3, GroupOfRank
<1>5. NPROC_IN_POOL(L, r) = PoolSize(L, p)
  BY DEF NPROC_IN_POOL, PoolSize
<1>6. /\ PoolStart(L, g, p) \in Nat /\ PoolSize(L, p) \in Nat \ {0}
      /\ r \in PoolStart(L, g, p) .. PoolStart(L, g, p) + PoolSize(L, p) - 1
      /\ RANK_IN_POOL(L, r) = r - PoolStart(L, g, p)
  BY <1>3, <1>4, PoolInterval
<1>7. RANK_IN_POOL(L, r) \in 0 .. PoolSize(L, p) - 1
  BY <1>6
<1> QED
  BY <1>3, <1>4, <1>5, <1>6, <1>7 DEF POOL_WORLD, STO_WORLD

\* Allgatherv takes the processes of the pool in the order of RANK_IN_POOL.
LEMMA MemberOfPool ==
    ASSUME NEW L, PoolLayout(L), NEW r \in World(L),
           NEW k \in 0 .. NPROC_IN_POOL(L, r) - 1
    PROVE  LET s == Member(POOL_WORLD(L, r), k)
           IN  /\ s \in World(L)
               /\ MY_STOGROUP(L, s) = MY_STOGROUP(L, r)
               /\ MY_POOL(L, s) = MY_POOL(L, r)
               /\ RANK_IN_POOL(L, s) = k
<1> DEFINE pool == POOL_WORLD(L, r)
           a == PoolStart(L, MY_STOGROUP(L, r), MY_POOL(L, r))
           n == NPROC_IN_POOL(L, r)
<1>1. /\ pool = {s \in World(L) : MY_STOGROUP(L, s) = MY_STOGROUP(L, r)
                                   /\ MY_POOL(L, s) = MY_POOL(L, r)}
      /\ pool = a .. a + n - 1 /\ a \in Nat /\ n \in Nat \ {0}
      /\ \A s \in pool : RANK_IN_POOL(L, s) = s - a
  <2>1. /\ MY_STOGROUP(L, r) \in 0 .. L.NSTOGROUP - 1 /\ MY_POOL(L, r) \in 0 .. L.KPAR - 1
        /\ n = PoolSize(L, MY_POOL(L, r)) /\ n \in Nat \ {0}
        /\ pool = {s \in World(L) : MY_STOGROUP(L, s) = MY_STOGROUP(L, r)
                                     /\ MY_POOL(L, s) = MY_POOL(L, r)}
    BY PlaceOfProcess
  <2> QED  BY <2>1, PoolInterval
<1>2. k \in 0 .. n - 1
  OBVIOUS
<1>3. pool = {s \in World(L) : MY_STOGROUP(L, s) = MY_STOGROUP(L, r)
                                /\ MY_POOL(L, s) = MY_POOL(L, r)}
  BY <1>1
<1> HIDE DEF pool, a, n
<1>4. \A s \in pool : CommRank(pool, s) = s - a
  <2> SUFFICES ASSUME NEW s \in pool PROVE Cardinality({x \in pool : x < s}) = s - a
    BY DEF CommRank
  <2>1. s \in a .. a + n - 1 /\ s \in Nat
    BY <1>1
  <2>2. {x \in pool : x < s} = a .. s - 1
    BY <1>1, <2>1
  <2>3. Cardinality(a .. s - 1) = IF a > s - 1 THEN 0 ELSE s - 1 - a + 1
    BY <1>1, <2>1, FS_Interval
  <2>4. Cardinality(a .. s - 1) = s - a
    BY <1>1, <2>1, <2>3
  <2> QED  BY <2>2, <2>4
<1>5. Member(pool, k) = a + k
  <2>1. a + k \in pool /\ CommRank(pool, a + k) = k
    <3>1. a + k \in pool
      BY <1>1, <1>2
    <3>2. CommRank(pool, a + k) = (a + k) - a
      BY <1>4, <3>1
    <3> QED  BY <1>1, <1>2, <3>1, <3>2
  <2>2. \A s \in pool : CommRank(pool, s) = k => s = a + k
    BY <1>1, <1>2, <1>4
  <2> QED  BY <2>1, <2>2 DEF Member
<1>6. a + k \in pool /\ RANK_IN_POOL(L, a + k) = k
  <2>1. a + k \in pool
    BY <1>1, <1>2
  <2>2. RANK_IN_POOL(L, a + k) = (a + k) - a
    BY <1>1, <2>1
  <2> QED  BY <1>1, <1>2, <2>1, <2>2
<1>7. Member(pool, k) \in pool /\ RANK_IN_POOL(L, Member(pool, k)) = k
  BY <1>5, <1>6
<1> QED  BY <1>3, <1>7 DEF pool

\* Between even pools, one process of every pool of the group has the planes
\* of r.
THEOREM InterPool ==
    ASSUME NEW L, PoolLayout(L), EvenPools(L), NEW r \in World(L)
    PROVE  /\ \A s \in INTER_POOL(L, r) :
                 /\ s \in World(L) /\ MY_STOGROUP(L, s) = MY_STOGROUP(L, r)
                 /\ RANK_IN_POOL(L, s) = RANK_IN_POOL(L, r)
                 /\ NPROC_IN_POOL(L, s) = NPROC_IN_POOL(L, r)
           /\ \A p \in 0 .. L.KPAR - 1 :
                 \E s \in INTER_POOL(L, r) :
                    \A t \in INTER_POOL(L, r) : MY_POOL(L, t) = p <=> t = s
<1> DEFINE g == MY_STOGROUP(L, r)
           k == RANK_IN_POOL(L, r)
           n == NPROC_IN_POOL(L, r)
<1>1. \A p \in 0 .. L.KPAR - 1 : PoolSize(L, p) = NPROC_IN_STOGROUP(L) \div L.KPAR
  <2>1. /\ L.KPAR \in Nat \ {0} /\ NPROC_IN_STOGROUP(L) \in Nat
        /\ NPROC_IN_STOGROUP(L) % L.KPAR = 0
    BY PlaceInEvenLayout DEF PoolLayout, EvenLayout, EvenPools
  <2> QED  BY <2>1, GroupWithin DEF PoolSize
<1>2. \A s \in World(L) : NPROC_IN_POOL(L, s) = NPROC_IN_STOGROUP(L) \div L.KPAR
  BY <1>1, PlaceOfProcess
<1>3. INTER_POOL(L, r) = {s \in World(L) : MY_STOGROUP(L, s) = g /\ RANK_IN_POOL(L, s) = k}
  BY DEF INTER_POOL, STO_WORLD
<1>4. g \in 0 .. L.NSTOGROUP - 1 /\ k \in 0 .. n - 1 /\ n \in Nat
  BY PlaceOfProcess
<1>5. ASSUME NEW p \in 0 .. L.KPAR - 1
      PROVE  \E s \in INTER_POOL(L, r) :
                \A t \in INTER_POOL(L, r) : MY_POOL(L, t) = p <=> t = s
  <2> DEFINE a == PoolStart(L, g, p)
             s == a + k
  <2>1. /\ a \in Nat
        /\ {x \in World(L) : MY_STOGROUP(L, x) = g /\ MY_POOL(L, x) = p}
             = a .. a + PoolSize(L, p) - 1
        /\ \A x \in World(L) : MY_STOGROUP(L, x) = g /\ MY_POOL(L, x) = p =>
                                  RANK_IN_POOL(L, x) = x - a
    BY <1>4, PoolInterval
  <2>2. PoolSize(L, p) = n
    BY <1>1, <1>2
  <2> HIDE DEF g, k, n, a
  <2>3. s \in a .. a + PoolSize(L, p) - 1
    BY <1>4, <2>1, <2>2
  <2>4. s \in World(L) /\ MY_STOGROUP(L, s) = g /\ MY_POOL(L, s) = p
    BY <2>1, <2>3
  <2>5. RANK_IN_POOL(L, s) = s - a
    BY <2>1, <2>4
  <2>6. RANK_IN_POOL(L, s) = k
    BY <1>4, <2>1, <2>5
  <2>7. s \in INTER_POOL(L, r)
    BY <1>3, <2>4, <2>6
  <2>8. ASSUME NEW t \in INTER_POOL(L, r), MY_POOL(L, t) = p PROVE t = s
    <3>1. t \in World(L) /\ MY_STOGROUP(L, t) = g /\ RANK_IN_POOL(L, t) = k
      BY <1>3
    <3>2. t \in a .. a + PoolSize(L, p) - 1 /\ k = t - a
      BY <2>1, <2>8, <3>1
    <3> QED  BY <1>4, <2>1, <3>2
  <2> QED  BY <2>4, <2>7, <2>8
<1> QED  BY <1>2, <1>3, <1>5

=============================================================================
