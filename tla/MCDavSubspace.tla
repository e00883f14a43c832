---------------------------- MODULE MCDavSubspace ----------------------------
(***************************************************************************)
(* Settings for checking DavSubspace: with and without vectors from a      *)
(* subspace, in self-consistent and in other calculations.                 *)
(***************************************************************************)
EXTENDS DavSubspace

AllInputs == [is_subspace : BOOLEAN, scf_type : BOOLEAN]
=============================================================================
