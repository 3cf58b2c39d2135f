--------------------------- MODULE MCInsertBatch ---------------------------
(***************************************************************************)
(* InsertBatch for TLC: four quotes of two ISINs with equal and different  *)
(* send times and zero to three prices, in every batch of up to three.     *)
(***************************************************************************)
EXTENDS InsertBatch, TLC

CONSTANTS m1, m2, m3, m4, i1, i2

MCMessages == {m1, m2, m3, m4}
MCIsinOf == m1 :> i1 @@ m2 :> i1 @@ m3 :> i2 @@ m4 :> i1
MCSendTime == m1 :> 1 @@ m2 :> 2 @@ m3 :> 1 @@ m4 :> 2
MCPrices == m1 :> 1 @@ m2 :> 3 @@ m3 :> 0 @@ m4 :> 2
MCBatches == {b \in UNION {[1 .. n -> MCMessages] : n \in 1 .. 3} : IsInjective(b)}
=============================================================================
