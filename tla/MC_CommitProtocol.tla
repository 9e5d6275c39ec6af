------------------------- MODULE MC_CommitProtocol -------------------------
(* CommitProtocol on a small instance; the configurations choose the file  *)
(* system and the faults.                                                  *)
EXTENDS CommitProtocol
=============================================================================
