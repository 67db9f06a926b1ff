---------------------------- MODULE MCFirstStart ----------------------------
(***************************************************************************)
(* FirstStart on a chain of a few blocks for TLC.                          *)
(***************************************************************************)
EXTENDS FirstStart

=============================================================================
