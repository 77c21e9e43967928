--------------------------- MODULE MCEncodeContract ---------------------------
(* Small clients for the run on EncodeContract.                            *)
EXTENDS EncodeContract, MCEncoder

PlainInfo == {Info(3, 0, FALSE, FALSE, FALSE)}
WrapOnly == {"wrap"}
==============================================================================
