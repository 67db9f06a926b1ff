-------------------------- MODULE MCTokenDetection --------------------------
(***************************************************************************)
(* TokenDetection with the scripts before it, on a small instance.         *)
(***************************************************************************)
EXTENDS TokenDetection

\* A contract that meets all three standards, each a fallback of the one before.
Full721And1155 == Token({"erc165", "erc721", "metadata", "enumerable", "erc1155"})

SmallProfiles == {Account, Erc20, Full721And1155, Unnamed721, Fallback}
=============================================================================
