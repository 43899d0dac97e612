---------------------------- MODULE MCSyncEngine ----------------------------
(***************************************************************************)
(* Small instances of SyncEngine for TLC.                                  *)
(***************************************************************************)
EXTENDS SyncEngine, TLC

\* Rows and slots are interchangeable.
MCSymmetry == Permutations(Runs) \cup Permutations(Slots)

=============================================================================
