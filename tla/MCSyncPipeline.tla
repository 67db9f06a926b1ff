--------------------------- MODULE MCSyncPipeline ---------------------------
(***************************************************************************)
(* SyncPipeline on a chain of a few blocks for TLC.                        *)
(***************************************************************************)
EXTENDS SyncPipeline

=============================================================================
