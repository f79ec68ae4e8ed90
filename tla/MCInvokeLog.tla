---------------------------- MODULE MCInvokeLog ----------------------------
(***************************************************************************)
(* Instances of InvokeLog for TLC.                                         *)
(***************************************************************************)
EXTENDS InvokeLog

CONSTANTS l1, l2

WritersMC == {l1, l2}
RetentionsMC == {0, 1}
FailuresMC == {"ends", "torn"}
===========================================================================
