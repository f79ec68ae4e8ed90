--------------------------- MODULE MCVaultFiles ---------------------------
(***************************************************************************)
(* Instances of VaultFiles for TLC.                                        *)
(***************************************************************************)
EXTENDS VaultFiles

CONSTANTS f1, f2, n1, w1, w2

OneProgramMC == {f1}
TwoProgramsMC == {f1, f2}
OneNameMC == {n1}
TwoValuesMC == {w1, w2}
DecryptOpsMC == {"set", "decrypt"}
QueueOpsMC == {"set", "get"}
===========================================================================
