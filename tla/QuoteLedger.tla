---------------------------- MODULE QuoteLedger ----------------------------
(***************************************************************************)
(* The account the quote pipeline keeps of every message, whatever its     *)
(* goroutines and channels do: a message is offered by a producer, taken   *)
(* up or dropped, and each one taken up is settled at most once, as a dead *)
(* letter, in a committed batch or in a batch whose transaction failed.    *)
(* The latest table only ever holds messages of committed batches.         *)
(***************************************************************************)
CONSTANTS
    Messages,   \* the quotes in play
    Isins,      \* the security ids
    IsinOf,     \* the ISIN of a message
    NoMsg       \* "no row"

VARIABLES
    ledger,     \* the stage each message has reached
    latest      \* the latest table: a message per ISIN

vars == <<ledger, latest>>

Stages == {"offered", "accepted", "dropped", "dead", "stored", "failed"}
Settled == {"dropped", "dead", "stored", "failed"}

Init ==
    /\ ledger = [m \in Messages |-> "offered"]
    /\ latest = [i \in Isins |-> NoMsg]

Move(S, stage) == ledger' = [m \in Messages |-> IF m \in S THEN stage ELSE ledger[m]]

Accept(m) == ledger[m] = "offered" /\ Move({m}, "accepted") /\ UNCHANGED latest

Drop(m) == ledger[m] = "offered" /\ Move({m}, "dropped") /\ UNCHANGED latest

DeadLetter(m) == ledger[m] = "accepted" /\ Move({m}, "dead") /\ UNCHANGED latest

\* A batch commits: its messages are stored together, and the row of every
\* ISIN the batch mentions becomes one of the batch's messages of that ISIN.
Commit(S) ==
    /\ \A m \in S : ledger[m] = "accepted"
    /\ Move(S, "stored")
    /\ latest' \in [Isins -> Messages \cup {NoMsg}]
    /\ \A i \in Isins :
        LET Own == {m \in S : IsinOf[m] = i}
        IN  IF Own = {} THEN latest'[i] = latest[i] ELSE latest'[i] \in Own

\* A batch's transaction fails: its messages are given up together and no
\* row changes.
Abort(S) ==
    /\ \A m \in S : ledger[m] = "accepted"
    /\ Move(S, "failed")
    /\ UNCHANGED latest

Next ==
    \/ \E m \in Messages : Accept(m) \/ Drop(m) \/ DeadLetter(m)
    \/ \E S \in SUBSET Messages : Commit(S) \/ Abort(S)

Spec == Init /\ [][Next]_vars
=============================================================================
