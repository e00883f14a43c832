----------------------------- MODULE MixingData -----------------------------
(***************************************************************************)
(* Base_Mixing::Mixing_Data, the ring of the last ndim_tot vectors that a  *)
(* mixing method combines.  A vector is abstracted to its number: vector k *)
(* is what the k-th call of push_data stored.                              *)
(***************************************************************************)
EXTENDS Integers

\* The content of memory that was allocated and never written.
NoVector == 0

\* Mixing_Data::resize, also what the constructor leaves.
Resize(ndim) ==
    [ndim_tot     |-> ndim,
     start        |-> -1,
     ndim_use     |-> 0,
     ndim_history |-> 0,
     data         |-> [s \in 0 .. ndim - 1 |-> NoVector]]

\* Mixing_Data::reset: the counters only, the vectors stay in memory.
ResetData(mdata) ==
    [ndim_tot     |-> mdata.ndim_tot,
     start        |-> -1,
     ndim_use     |-> 0,
     ndim_history |-> 0,
     data         |-> mdata.data]

\* Mixing_Data::push.
Push(mdata, vector) ==
    LET slot == (mdata.start + 1) % mdata.ndim_tot
    IN  [ndim_tot     |-> mdata.ndim_tot,
         start        |-> slot,
         ndim_use     |-> IF mdata.ndim_use < mdata.ndim_tot
                          THEN mdata.ndim_use + 1 ELSE mdata.ndim_tot,
         ndim_history |-> mdata.ndim_history + 1,
         data         |-> [mdata.data EXCEPT ![slot] = vector]]

\* Mixing_Data::index_move: the slot of the i-th vector, the newest being 0.
IndexMove(mdata, i) == (i + mdata.start + mdata.ndim_tot) % mdata.ndim_tot

\* The inverse: how many vectors after the slot's one were pushed.
Age(mdata, slot) == (mdata.start - slot + mdata.ndim_tot) % mdata.ndim_tot

\* The slots that Mixing::mix_data combines.
UsedSlots(mdata) == 0 .. mdata.ndim_use - 1
=============================================================================
