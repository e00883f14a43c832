---------------------------- MODULE MDTrajectory ----------------------------
(***************************************************************************)
(* What a molecular dynamics run promises whatever interrupts it: the step *)
(* it works on follows the one before, or is the one it was saved at last. *)
(* A save replaces the earlier one in place, so that it is lost when the   *)
(* run is interrupted in the middle; a run started from such a save begins *)
(* at step 0.                                                              *)
(***************************************************************************)
EXTENDS Integers

CONSTANT Nstep  \* the last step

VARIABLES
    now,    \* the step the run is at, past Nstep at the end
    saved   \* the step a restarted run begins at, -1 when it cannot begin

vars == <<now, saved>>

Init == now = 0 /\ saved = -1

Advance == now <= Nstep /\ now' = now + 1 /\ UNCHANGED saved

Erase == saved' = 0 /\ UNCHANGED now

Save == saved' = now /\ UNCHANGED now

Resume == saved # -1 /\ now' = saved /\ UNCHANGED saved

Next == Advance \/ Erase \/ Save \/ Resume

Spec == Init /\ [][Next]_vars
=============================================================================
