-------------------------- MODULE MCQuotePipeline --------------------------
(***************************************************************************)
(* Instances of QuotePipeline for TLC.  A message is m1, m2, ...; its ISIN *)
(* and its send time are given by the functions below.                     *)
(***************************************************************************)
EXTENDS QuotePipelineProps, TLC

CONSTANTS m1, m2, m3, m4, i1, i2, p1, p2, w1, w2

MCIsins == {i1, i2}

\* The partition is that of hash on eight-bit integers; the sum of the second
\* string wraps around and is negative.
Hash == INSTANCE IsinHash WITH Half <- 128
Letters == i1 :> <<3, 5>> @@ i2 :> <<7, 2>>
MCPartition == [i \in MCIsins |-> <<w1, w2>>[Hash!WorkerIndex(Letters[i], 2) + 1]]

\* Every sum but -128, that of <<4, 4>>, gives the index of one of three workers, and the sums
\* of a string's beginnings are what the loop goes through.
ASSUME HashAssumption ==
    \A s \in UNION {[1 .. k -> 0 .. 9] : k \in 0 .. 3} :
        LET sum == Hash!Sum(s)
        IN  /\ Hash!IsLoop(s, [k \in 0 .. Len(s) |-> Hash!Sum(SubSeq(s, 1, k))])
            /\ sum # -128 <=> Hash!WorkerIndex(s, 3) \in 0 .. 2
OneWriter == [i \in MCIsins |-> w1]

\* Two quotes of one ISIN and a malformed one from the server, a test quote
\* of the other ISIN from the generator.
MixedMessages == {m1, m2, m3, m4}
MixedIsinOf == m1 :> i1 @@ m2 :> i1 @@ m3 :> i2 @@ m4 :> i2
MixedSendTime == m1 :> 1 @@ m2 :> 2 @@ m3 :> 1 @@ m4 :> 1
MixedFeed == <<m1, m3, m2>>
MixedTestFeed == <<m4>>
MixedMalformed == {m3}

\* Two malformed messages before the server's quote, so that a parse worker
\* that finds DeadChan full leaves the quote to the other one.
DeadFeed == <<m2, m3, m1>>
DeadMalformed == {m2, m3}

\* Two quotes of one ISIN.
TwoMessages == {m1, m2}
TwoIsinOf == m1 :> i1 @@ m2 :> i1
TwoSendTime == m1 :> 1 @@ m2 :> 2
TwoFeed == <<m1, m2>>

NoFeed == <<>>
ParseSymmetry == Permutations({p1, p2})
=============================================================================
