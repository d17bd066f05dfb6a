------------------------- MODULE MCTransferRouting -------------------------
(* Two jobs for one destination and one for another on the same disk.       *)
EXTENDS TransferRouting, TLC

CONSTANTS a, b, c

MCKind == (a :> "photos") @@ (b :> "photos") @@ (c :> "backup")
MCStorage == (a :> {"disk1"}) @@ (b :> {"disk1"}) @@ (c :> {"disk1", "disk2"})
=============================================================================
