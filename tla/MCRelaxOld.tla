----------------------------- MODULE MCRelaxOld -----------------------------
(***************************************************************************)
(* Settings for checking RelaxOld.                                         *)
(***************************************************************************)
EXTENDS RelaxOld

\* A cell is only looked at in cell-relax.
AllInputs ==
    {i \in Settings : i.calculation = "relax" => ~i.if_cell_can_change}

BfgsInCells ==
    {[calculation |-> "cell-relax", relax_method |-> "bfgs",
      if_atoms_can_move |-> TRUE, if_cell_can_change |-> TRUE]}
=============================================================================
