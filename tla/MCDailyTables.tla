--------------------------- MODULE MCDailyTables ---------------------------
(***************************************************************************)
(* DailyTables from a start on any day of a week to the end of the third   *)
(* week, so that the loop wakes up twice.                                  *)
(***************************************************************************)
EXTENDS DailyTables

MCFirstDays == 0 .. 6
=============================================================================
