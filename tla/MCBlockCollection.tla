------------------------- MODULE MCBlockCollection -------------------------
(***************************************************************************)
(* Block collection with its epoch changes on a chain of a few blocks.     *)
(***************************************************************************)
EXTENDS EpochLists

=============================================================================
