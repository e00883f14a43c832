--------------------------- MODULE AndersonMixing ---------------------------
(***************************************************************************)
(* What Broyden_Mixing promises, without its two rings and its caches: at  *)
(* every step the result is the combination                                *)
(*                                                                         *)
(*   x_n + SUM_k gamma_k * (x_k - x_(k-1))                                 *)
(*                                                                         *)
(* of the newest vectors since the last restart, at most mixing_ndim       *)
(* differences of CONSECUTIVE vectors, where gamma_k is the unknown that   *)
(* the least-squares problem attaches to the difference F_(k-1) - F_k of   *)
(* the residuals of the same two steps.                                    *)
(***************************************************************************)
EXTENDS Integers

CONSTANTS mixing_ndim,  \* number of differences kept
          MaxVector     \* bound: number of vectors in a behaviour

VARIABLES newest,  \* number of the newest vector
          first,   \* number of the first vector after the last restart
          out      \* the last result: a set of <<vector, coefficient>>

vars == <<newest, first, out>>

\* F_(k-1) - F_k, the difference that step k adds.
Difference(k) == <<k - 1, k>>
NoDifference == <<0, 0>>

\* The coefficient of vector v: one + gamma(add) - gamma(sub).
Coefficient(v, oldest, last) ==
    [one |-> IF v = last THEN 1 ELSE 0,
     add |-> IF v > oldest THEN Difference(v) ELSE NoDifference,
     sub |-> IF v < last THEN Difference(v + 1) ELSE NoDifference]

\* The oldest vector that takes part when `last' is the newest one.
Oldest(last) == IF first > last - mixing_ndim THEN first ELSE last - mixing_ndim

Init == newest = 0 /\ first = 1 /\ out = {}

Restart == first' = newest + 1 /\ UNCHANGED <<newest, out>>

Mix ==
    /\ newest < MaxVector
    /\ newest' = newest + 1
    /\ out' = {<<v, Coefficient(v, Oldest(newest + 1), newest + 1)>> :
                   v \in Oldest(newest + 1) .. newest + 1}
    /\ UNCHANGED first

Next == Restart \/ Mix

Spec == Init /\ [][Next]_vars
=============================================================================
