--------------------------- MODULE MCTransferQueue ---------------------------
(***************************************************************************)
(* Instances of TransferQueue: jobs between two servers and this machine.  *)
(***************************************************************************)
EXTENDS TransferQueue, TLC

CONSTANTS j1, j2, j3

\* Two jobs use both servers, in opposite directions; the third is local.
CrossSource == j1 :> 1 @@ j2 :> 2 @@ j3 :> 0
CrossTarget == j1 :> 2 @@ j2 :> 1 @@ j3 :> 0

\* One job between two servers.
SoloSource == j1 :> 1
SoloTarget == j1 :> 2

\* Two jobs only, in opposite directions.
PairSource == j1 :> 1 @@ j2 :> 2
PairTarget == j1 :> 2 @@ j2 :> 1
=============================================================================
