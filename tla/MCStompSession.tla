--------------------------- MODULE MCStompSession ---------------------------
(***************************************************************************)
(* StompSession with tokens of the shortest length main can log and of a   *)
(* usual one.                                                              *)
(***************************************************************************)
EXTENDS StompSession

MCTokenLengths == {20, 36}
=============================================================================
