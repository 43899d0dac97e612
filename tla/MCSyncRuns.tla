----------------------------- MODULE MCSyncRuns -----------------------------
(***************************************************************************)
(* Small instances of SyncRuns for TLC.                                    *)
(***************************************************************************)
EXTENDS SyncRuns, TLC

\* Rows, workers and requests are interchangeable; only safety runs use it.
MCSymmetry == Permutations(Runs) \cup Permutations(Workers) \cup Permutations(Clients)

=============================================================================
