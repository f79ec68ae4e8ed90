--------------------------- MODULE MCVaultSocket ---------------------------
(***************************************************************************)
(* Instances of VaultSocket for TLC.                                       *)
(***************************************************************************)
EXTENDS VaultSocket

CONSTANTS s1, s2, s3

ThreeMC == {s1, s2, s3}
===========================================================================
