------------------------------ MODULE MCRunMD ------------------------------
(***************************************************************************)
(* Settings for checking RunMD: every kind, with a constant and with a     *)
(* rising target temperature, and frames and restart files of every or of  *)
(* every second step.                                                      *)
(***************************************************************************)
EXTENDS RunMD

Setting(kind, tfirst, tlast, dumpfreq, restartfreq) ==
    [kind |-> kind, md_tfirst |-> tfirst, md_tlast |-> tlast,
     dumpfreq |-> dumpfreq, restartfreq |-> restartfreq,
     samechain |-> TRUE, relaxed |-> Nstep + 1]

AllInputs ==
    {Setting(kind, "T0", tlast, 1, 2) :
        kind \in {"verlet", "nhc", "npt"}, tlast \in {"T0", "T1"}}
    \cup {Setting(kind, "unset", "T0", 2, 1) :
            kind \in {"verlet", "langevin", "nhc", "npt", "msst"}}
    \cup {[Setting("npt", "unset", "T0", 1, 1) EXCEPT !.samechain = FALSE],
          Setting("nhc", "T0", "unset", 1, 1)}
    \cup {[Setting("fire", "T0", "unset", 1, 2) EXCEPT !.relaxed = r] :
            r \in {Nstep - 1, Nstep + 1}}
=============================================================================
