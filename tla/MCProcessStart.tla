---------------------------- MODULE MCProcessStart ----------------------------
(***************************************************************************)
(* ProcessStart with few lines to a file, and with four files: a gap that  *)
(* an interrupted shift leaves costs a file only from four on.             *)
(***************************************************************************)
EXTENDS ProcessStart

CONSTANTS app, bond, fund
MCNacosKeys == {bond, fund}
=============================================================================
