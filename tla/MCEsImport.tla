----------------------------- MODULE MCEsImport -----------------------------
(***************************************************************************)
(* The seven services of EsImportService.                                  *)
(***************************************************************************)
EXTENDS EsImport, TLC

SharedServices == {"Block", "Transaction", "DelegateReward"}
OwnServices    == {"Erc20Tx", "Erc721Tx", "Erc1155Tx", "TransferTx"}
=============================================================================
