------------------------------ MODULE MCContract ------------------------------
(* A small client and file for the run on DecodeContract.                  *)
EXTENDS DecodeContract, MCDecoder

OneFile == {TwoFrames}

PixelCalls == {"SubscribeEvents", "SetInput", "SetImageOutBuffer", "ProcessInput"}

ListEvents == {{"FRAME"}}

WholeRaw == {Piece(0, 3, FALSE)}
==============================================================================
