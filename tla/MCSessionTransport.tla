-------------------------- MODULE MCSessionTransport --------------------------
(***************************************************************************)
(* SessionTransport with two goroutines, so that one may be closing its    *)
(* connections, or have a reader still at work, while the other logs in,   *)
(* and a buffer of two bytes for messages that fit, that fill it and that  *)
(* do not fit.                                                             *)
(***************************************************************************)
EXTENDS SessionTransport

MCTokenLengths == {20, 36}
MCLengths == {1, 3}
=============================================================================
