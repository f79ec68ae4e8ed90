------------------------ MODULE MCCredentialRename ------------------------
(***************************************************************************)
(* Instances of CredentialRename for TLC.                                  *)
(***************************************************************************)
EXTENDS CredentialRename

CONSTANTS f1, f2, n1, n2, w1

ProgramsMC == {f1, f2}
QueuersMC == {f2}
NamesMC == {n1, n2}
ValuesMC == {w1}
AllOpsMC == {"set", "delete", "get", "encrypt", "decrypt"}
===========================================================================
