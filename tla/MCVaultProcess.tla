-------------------------- MODULE MCVaultProcess --------------------------
(***************************************************************************)
(* Instances of VaultProcess for TLC.                                      *)
(***************************************************************************)
EXTENDS VaultProcess, TLC

CONSTANTS p1, p2, c1, c2, k1, v1

ProcessesMC == {p1, p2}
ClientsMC == {c1, c2}
OneClientMC == {c1}
CredsMC == {k1}
NoValuesMC == {}
OneValueMC == {v1}

ChangesMC == {"get", "set", "lock"}
ReadsMC == {"get"}
LocksMC == {"lock"}

NoLimitMC == {0}
LimitsMC == {0, 2}

\* The credential is bound before the unlock and has no value yet: the first
\* set gives it one, so every change of what is held is a request's.
BoundInit == /\ Init
             /\ held[First] = [k \in Creds |-> NoValue]
             /\ allowed[First] = Creds

BoundSpec == BoundInit /\ [][Next]_vars

Symmetry == Permutations(ClientsMC)
===========================================================================
