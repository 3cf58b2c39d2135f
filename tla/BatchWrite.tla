----------------------------- MODULE BatchWrite -----------------------------
(***************************************************************************)
(* What InsertBatch (service/bond_quote_service.go) leaves in the day's    *)
(* "latest" table when its transaction commits.  A message stands for one  *)
(* ParsedQuote: its ISIN, its sendTime (an int64 of milliseconds) and      *)
(* nothing else of its payload.  Module InsertBatch models the loop and    *)
(* the transaction step by step and checks that they compute this.         *)
(***************************************************************************)
EXTENDS Integers, Sequences, Functions

CONSTANTS
    Messages,       \* the quotes in play, in one calendar day
    Isins,          \* the security ids, the key of the latest table
    IsinOf,         \* the ISIN of a message
    SendTime,       \* the sendTime of a message
    MaxSendTime,    \* the largest sendTime (an int64)
    NoMsg           \* "no row": an ISIN the latest table does not hold

ASSUME NoMsgAssumption == NoMsg \notin Messages
ASSUME IsinAssumption == IsinOf \in [Messages -> Isins]
ASSUME SendTimeAssumption == /\ MaxSendTime \in Nat
                             /\ SendTime \in [Messages -> 0 .. MaxSendTime]

\* The rows of the latest table: at most one message per ISIN.
Rows == [Isins -> Messages \cup {NoMsg}]

BatchIsins(batch) == {IsinOf[m] : m \in Range(batch)}

\* Position k beats position j of a batch: strictly later sendTime, or the
\* same sendTime and met first by the loop (sendTime.After is strict).
Beats(batch, k, j) ==
    \/ SendTime[batch[k]] > SendTime[batch[j]]
    \/ SendTime[batch[k]] = SendTime[batch[j]] /\ k <= j

IsWinner(batch, i, k) ==
    /\ k \in DOMAIN batch
    /\ IsinOf[batch[k]] = i
    /\ \A j \in DOMAIN batch : IsinOf[batch[j]] = i => Beats(batch, k, j)

Winner(batch, i) == batch[CHOOSE k \in DOMAIN batch : IsWinner(batch, i, k)]

\* INSERT ... ON DUPLICATE KEY UPDATE of every column: the batch's winner of
\* an ISIN replaces the row whatever the row holds.
Upsert(rows, batch) ==
    [i \in Isins |-> IF i \in BatchIsins(batch) THEN Winner(batch, i) ELSE rows[i]]
=============================================================================
