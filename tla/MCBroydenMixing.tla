--------------------------- MODULE MCBroydenMixing ---------------------------
(***************************************************************************)
(* Instance of BroydenMixing for TLC.  Ten calls of mix_rho overwrite      *)
(* every slot of rings of length three and four more than once, with a     *)
(* restart or a reset possible between any two of them.                    *)
(***************************************************************************)
EXTENDS BroydenMixing
==============================================================================
