----------------------------- MODULE MCIonicLoop -----------------------------
(***************************************************************************)
(* Settings for checking IonicLoop: every driver with and without a moving *)
(* cell and with every extrapolation.                                      *)
(***************************************************************************)
EXTENDS IonicLoop

SmallMoves == {<<0, 0>>, <<1, 0>>, <<-1, 0>>, <<1, 1>>}

\* Without the cell-relax of Relax_old with second-order extrapolation, where
\* the steps of the cell do not shift the displacements.
AllInputs ==
    {i \in Settings :
        ~(i.driver = "relax_old" /\ i.cell_moves /\ i.chg_extrap = "second-order")}
=============================================================================
