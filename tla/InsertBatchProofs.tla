------------------------- MODULE InsertBatchProofs -------------------------
(***************************************************************************)
(* Proofs about InsertBatch for every batch, every number of prices and    *)
(* every chunk size.                                                       *)
(***************************************************************************)
EXTENDS InsertBatch, FiniteSetTheorems, TLAPS

\* The detail rows of a message among the first n are a number.
LEMMA RowsOfType == ASSUME NEW m, NEW n \in Nat PROVE RowsOf(m, n) \in Nat
<1>1. IsFiniteSet(1 .. n)
  BY FS_Interval
<1>2. IsFiniteSet({j \in 1 .. n : details[j] = m})
  BY <1>1, FS_Subset
<1> QED
  BY <1>2, FS_CardinalityType DEF RowsOf

\* Detail rows only add to the counts of the day's table.
LEMMA InsertDetailsType ==
    ASSUME TypeOK, NEW n \in Nat, InsertDetails(n)
    PROVE  detailTable' \in [Days -> [Messages -> Nat]]
<1>1. \A m \in Messages : RowsOf(m, n) \in Nat
  BY RowsOfType
<1> QED
  BY <1>1 DEF TypeOK, InsertDetails

\* One iteration of the loop keeps the types.
LEMMA AggregateType == ASSUME TypeOK, Aggregate PROVE TypeOK'
<1> DEFINE m == batch[k + 1]
           added == [j \in 1 .. Prices[m] |-> m]
<1>1. k + 1 \in 1 .. Len(batch) /\ k + 1 \in Nat
  BY DEF Aggregate, TypeOK
<1>2. m \in Messages /\ IsinOf[m] \in Isins /\ Prices[m] \in Nat
  BY <1>1, IsinAssumption, BatchAssumption DEF TypeOK
<1>3. added \in Seq(Messages)
  BY <1>2
<1>4. /\ details' = details \o added /\ k' = k + 1
      /\ latestMap' \in {latestMap, [latestMap EXCEPT ![IsinOf[m]] = m]}
      /\ UNCHANGED <<day, pc, batch, detailDay, latestDay, inserted, tableVars, passed>>
  BY DEF Aggregate
<1> HIDE DEF m, added
<1>5. details' \in Seq(Messages) /\ inserted' \in 0 .. Len(details')
  BY <1>3, <1>4 DEF TypeOK
<1>6. latestMap' \in Rows
  BY <1>2, <1>4 DEF TypeOK, Rows
<1> QED
  BY <1>1, <1>4, <1>5, <1>6 DEF TypeOK, tableVars

\* Whatever is in the batches, the loop and the inserts stay within them.
THEOREM TypeCorrect == Spec => []TypeOK
<1>1. Init => TypeOK
  BY BatchAssumption DEF Init, TypeOK, Days, NoRows, Rows
<1>2. TypeOK /\ [Next]_vars => TypeOK'
  <2> SUFFICES ASSUME TypeOK, [Next]_vars PROVE TypeOK'
    OBVIOUS
  <2>1. CASE UNCHANGED vars \/ Done
    BY <2>1 DEF TypeOK, Done, vars, callVars, tableVars
  <2>2. CASE Midnight
    BY <2>2, BatchAssumption DEF TypeOK, Midnight, Days, callVars, tableVars
  <2>3. CASE \E b \in Batches : Call(b)
    <3>1. PICK b \in Batches : Call(b)
      BY <2>3
    <3>2. b \in Seq(Messages) /\ Range(b) \subseteq Messages
      BY BatchAssumption DEF Range
    <3> QED
      BY <3>1, <3>2 DEF TypeOK, Call, NoRows, Rows, tableVars
  <2>4. CASE InsertChunk
    <3>1. inserted' \in 0 .. Len(details) /\ UNCHANGED details
      BY <2>4, BatchAssumption DEF TypeOK, InsertChunk
    <3> QED
      BY <2>4, <3>1 DEF TypeOK, InsertChunk, tableVars
  <2>5. CASE NameLatest \/ Begin \/ UpsertLatest \/ Fail
    BY <2>5 DEF TypeOK, NameLatest, Begin, UpsertLatest, Fail, tableVars
  <2>6. CASE Commit
    <3>1. detailTable' \in [Days -> [Messages -> Nat]]
      <4>1. inserted \in Nat /\ InsertDetails(inserted)
        BY <2>6 DEF Commit, TypeOK
      <4> QED
        BY <4>1, InsertDetailsType
    <3>2. latestTable' \in [Days -> Rows]
      BY <2>6 DEF Commit, TypeOK, Rows
    <3> QED
      BY <2>6, <3>1, <3>2 DEF Commit, TypeOK
  <2> QED
    BY <2>1, <2>2, <2>3, <2>4, <2>5, <2>6, AggregateType DEF Next
<1> QED
  BY <1>1, <1>2, PTL DEF Spec
-----------------------------------------------------------------------------
\* The quote the loop keeps for ISIN i after n quotes.
Keeps(i, n, m) ==
    \E w \in 1 .. n : /\ m = batch[w] /\ IsinOf[batch[w]] = i
                      /\ \A j \in 1 .. n : IsinOf[batch[j]] = i => Beats(batch, w, j)

\* One iteration of the loop keeps the winner of each ISIN the winner.
LEMMA LoopStep == ASSUME TypeOK, LoopKeepsWinner, Aggregate PROVE LoopKeepsWinner'
<1> DEFINE n == k + 1
           m == batch[n]
<1>1. n \in 1 .. Len(batch) /\ k \in Nat /\ n \in Nat
  BY DEF Aggregate, TypeOK
<1>2. \A j \in 1 .. n : batch[j] \in Messages /\ SendTime[batch[j]] \in Nat
  BY <1>1, SendTimeAssumption DEF TypeOK
<1>3. m \in Messages /\ IsinOf[m] \in Isins
  BY <1>1, IsinAssumption DEF TypeOK
<1>4. /\ k' = n /\ UNCHANGED batch
      /\ latestMap' = IF Replaces(m) THEN [latestMap EXCEPT ![IsinOf[m]] = m] ELSE latestMap
      /\ latestMap \in [Isins -> Messages \cup {NoMsg}]
  BY DEF Aggregate, TypeOK, Rows
<1> SUFFICES ASSUME NEW i \in Isins
             PROVE  IF \E j \in 1 .. n : IsinOf[batch[j]] = i
                    THEN Keeps(i, n, latestMap'[i])
                    ELSE latestMap'[i] = NoMsg
  BY <1>4 DEF LoopKeepsWinner, Keeps, Beats
<1>5. IF \E j \in 1 .. k : IsinOf[batch[j]] = i
      THEN Keeps(i, k, latestMap[i]) ELSE latestMap[i] = NoMsg
  BY DEF LoopKeepsWinner, Keeps
<1>6. 1 .. n = (1 .. k) \cup {n}
  BY <1>1
<1>7. CASE IsinOf[m] # i
  <2>1. latestMap'[i] = latestMap[i]
    BY <1>3, <1>4, <1>7
  <2> QED
    BY <1>5, <1>6, <1>7, <2>1 DEF Keeps
<1>8. CASE IsinOf[m] = i
  <2>1. CASE Replaces(m)
    <3>1. latestMap'[i] = m
      BY <1>3, <1>4, <1>8, <2>1
    <3>2. ASSUME NEW j \in 1 .. n, IsinOf[batch[j]] = i PROVE Beats(batch, n, j)
      <4>1. CASE j = n
        BY <1>1, <4>1 DEF Beats
      <4>2. CASE j \in 1 .. k
        <5>1. PICK w \in 1 .. k : latestMap[i] = batch[w] /\ Beats(batch, w, j)
          BY <1>5, <3>2, <4>2 DEF Keeps
        <5>2. SendTime[m] > SendTime[batch[w]]
          BY <1>2, <1>6, <1>8, <2>1, <5>1, NoMsgAssumption DEF Replaces
        <5>3. SendTime[batch[w]] >= SendTime[batch[j]]
          BY <1>2, <1>6, <5>1 DEF Beats
        <5>4. SendTime[batch[w]] \in Nat /\ SendTime[batch[j]] \in Nat /\ SendTime[m] \in Nat
          BY <1>1, <1>2, <1>6
        <5> QED
          BY <5>2, <5>3, <5>4 DEF Beats
      <4> QED
        BY <1>6, <4>1, <4>2
    <3> QED
      BY <1>1, <1>8, <3>1, <3>2 DEF Keeps
  <2>2. CASE ~Replaces(m)
    <3>1. latestMap'[i] = latestMap[i] /\ latestMap[i] # NoMsg /\ ~(SendTime[m] > SendTime[latestMap[i]])
      BY <1>4, <1>8, <2>2 DEF Replaces
    <3>2. PICK w \in 1 .. k :
              /\ latestMap[i] = batch[w] /\ IsinOf[batch[w]] = i
              /\ \A j \in 1 .. k : IsinOf[batch[j]] = i => Beats(batch, w, j)
      BY <1>5, <3>1 DEF Keeps
    <3>3. Beats(batch, w, n)
      <4>1. SendTime[batch[w]] \in Nat /\ SendTime[m] \in Nat /\ w <= n
        BY <1>1, <1>2, <1>6
      <4> QED
        BY <3>1, <3>2, <4>1 DEF Beats
    <3> QED
      BY <1>6, <3>1, <3>2, <3>3 DEF Keeps
  <2> QED
    BY <2>1, <2>2
<1> QED
  BY <1>7, <1>8

\* For every batch, in any order of send times, the loop holds after each
\* quote the latest one met of every ISIN, the first of equals.
THEOREM LoopCorrect == Spec => []LoopKeepsWinner
<1>1. Init => LoopKeepsWinner
  BY DEF Init, LoopKeepsWinner, NoRows
<1>2. TypeOK /\ LoopKeepsWinner /\ [Next]_vars => LoopKeepsWinner'
  <2> SUFFICES ASSUME TypeOK, LoopKeepsWinner, [Next]_vars PROVE LoopKeepsWinner'
    OBVIOUS
  <2>1. CASE \E b \in Batches : Call(b)
    BY <2>1 DEF Call, LoopKeepsWinner, NoRows
  <2>2. CASE UNCHANGED <<batch, k, latestMap>>
    BY <2>2 DEF LoopKeepsWinner, Beats
  <2>3. CASE UNCHANGED vars \/ Done \/ Midnight
    BY <2>2, <2>3 DEF Done, Midnight, vars, callVars
  <2>4. CASE NameLatest \/ Begin \/ InsertChunk \/ UpsertLatest \/ Commit \/ Fail
    BY <2>2, <2>4 DEF NameLatest, Begin, InsertChunk, UpsertLatest, Commit, Fail
  <2> QED
    BY <2>1, <2>3, <2>4, LoopStep DEF Next
<1> QED
  BY <1>1, <1>2, TypeCorrect, PTL DEF Spec
-----------------------------------------------------------------------------
\* The detail rows of a message after count more of message x are appended.
LEMMA AppendedRows ==
    ASSUME NEW x, NEW m, NEW count \in Nat, details \in Seq(Messages), x \in Messages,
           details' = details \o [j \in 1 .. count |-> x]
    PROVE  RowsOf(m, Len(details))' = RowsOf(m, Len(details)) + (IF m = x THEN count ELSE 0)
<1> DEFINE n == Len(details)
           old == {j \in 1 .. n : details[j] = m}
           new == IF m = x THEN n + 1 .. n + count ELSE {}
           tail == [j \in 1 .. count |-> x]
<1>1. n \in Nat /\ tail \in Seq(Messages) /\ Len(tail) = count
  OBVIOUS
<1>2. /\ Len(details') = n + count
      /\ \A j \in 1 .. n + count :
            details'[j] = IF j <= n THEN details[j] ELSE x
  BY <1>1
<1>3. {j \in 1 .. n + count : details'[j] = m} = old \cup new
  BY <1>1, <1>2
<1>4. IsFiniteSet(old) /\ Cardinality(old) \in Nat
  <2>1. IsFiniteSet(1 .. n)
    BY <1>1, FS_Interval
  <2>2. IsFiniteSet(old)
    BY <2>1, FS_Subset
  <2> QED
    BY <2>2, FS_CardinalityType
<1>5. IsFiniteSet(new) /\ Cardinality(new) = IF m = x THEN count ELSE 0
  <2>1. CASE m = x
    <3>1. n + 1 \in Int /\ n + count \in Int
      BY <1>1
    <3>2. IsFiniteSet(n + 1 .. n + count)
      BY <3>1, FS_Interval
    <3>3. Cardinality(n + 1 .. n + count) =
            IF n + 1 > n + count THEN 0 ELSE (n + count) - (n + 1) + 1
      BY <3>1, FS_Interval
    <3> QED
      BY <1>1, <2>1, <3>2, <3>3
  <2>2. CASE m # x
    BY <2>2, FS_EmptySet
  <2> QED
    BY <2>1, <2>2
<1>6. old \cap new = {}
  BY <1>1
<1>7. Cardinality(old \cup new) = Cardinality(old) + Cardinality(new)
  <2> HIDE DEF old, new
  <2>1. Cardinality(old \cup new)
          = Cardinality(old) + Cardinality(new) - Cardinality(old \cap new)
    BY <1>4, <1>5, FS_Union
  <2>2. Cardinality(old \cap new) = 0
    BY <1>6, FS_EmptySet
  <2>3. Cardinality(new) \in Nat
    BY <1>5, FS_CardinalityType
  <2> QED
    BY <1>4, <2>1, <2>2, <2>3
<1> QED
  BY <1>2, <1>3, <1>5, <1>7 DEF RowsOf

\* The loop has collected one detail row per price of the quotes it has done,
\* and the transaction ends only when all of them are inserted.
RowsCollected ==
    /\ batch = <<>> \/ batch \in Batches
    /\ pc \in {"insert", "commit"} => k = Len(batch)
    /\ pc = "commit" => inserted = Len(details)
    /\ \A m \in Messages :
         RowsOf(m, Len(details)) = IF \E j \in 1 .. k : batch[j] = m THEN Prices[m] ELSE 0

\* A quote is met once in a batch, so its rows are appended once.
LEMMA RowsStep == ASSUME TypeOK, RowsCollected, Aggregate PROVE RowsCollected'
<1> DEFINE x == batch[k + 1]
<1>1. k + 1 \in 1 .. Len(batch) /\ k \in Nat
  BY DEF Aggregate, TypeOK
<1>2. x \in Messages /\ Prices[x] \in Nat
  BY <1>1, BatchAssumption DEF TypeOK
<1>3. /\ details' = details \o [j \in 1 .. Prices[x] |-> x]
      /\ k' = k + 1 /\ pc = "loop" /\ UNCHANGED <<pc, batch, inserted>>
  BY DEF Aggregate
<1>4. \A j \in 1 .. k : batch[j] # x
  <2>1. IsInjective(batch)
    BY <1>1, BatchAssumption DEF RowsCollected
  <2>2. \A j \in 1 .. k : j \in DOMAIN batch /\ k + 1 \in DOMAIN batch /\ j # k + 1
    BY <1>1 DEF TypeOK
  <2> QED
    BY <2>1, <2>2 DEF IsInjective
<1>5. ASSUME NEW m \in Messages
      PROVE  RowsOf(m, Len(details))'
                = IF \E j \in 1 .. k + 1 : batch[j] = m THEN Prices[m] ELSE 0
  <2>1. RowsOf(m, Len(details))' = RowsOf(m, Len(details)) + (IF m = x THEN Prices[x] ELSE 0)
    <3> HIDE DEF x
    <3>1. details \in Seq(Messages)
      BY DEF TypeOK
    <3> QED
      BY <1>2, <1>3, <3>1, AppendedRows
  <2>2. RowsOf(m, Len(details)) = IF \E j \in 1 .. k : batch[j] = m THEN Prices[m] ELSE 0
    BY DEF RowsCollected
  <2>3. 1 .. k + 1 = (1 .. k) \cup {k + 1}
    BY <1>1
  <2>4. Prices[m] \in Nat
    BY BatchAssumption
  <2>5. CASE m = x
    BY <1>4, <2>1, <2>2, <2>3, <2>4, <2>5
  <2>6. CASE m # x
    BY <2>1, <2>2, <2>3, <2>4, <2>6
  <2> QED
    BY <2>5, <2>6
<1> QED
  BY <1>3, <1>5 DEF RowsCollected

\* Every step keeps the rows those of the messages that the loop has passed.
LEMMA RowsInductive == ASSUME TypeOK, RowsCollected, [Next]_vars PROVE RowsCollected'
<1>1. CASE UNCHANGED <<pc, batch, k, details, inserted>>
  BY <1>1 DEF RowsCollected, RowsOf
<1>2. CASE UNCHANGED vars \/ Done \/ Midnight
  BY <1>1, <1>2 DEF Done, Midnight, vars, callVars
<1>3. CASE \E b \in Batches : Call(b)
  <2>1. PICK b \in Batches : Call(b)
    BY <1>3
  <2>2. details' = <<>> /\ k' = 0 /\ pc' = "names" /\ batch' = b
    BY <2>1 DEF Call
  <2>3. \A m \in Messages : RowsOf(m, Len(details))' = 0
    <3>1. \A m : {j \in 1 .. Len(details') : details'[j] = m} = {}
      BY <2>2
    <3> QED
      BY <3>1, FS_EmptySet DEF RowsOf
  <2> QED
    BY <2>2, <2>3 DEF RowsCollected
<1>4. CASE NameLatest \/ Begin
  BY <1>4 DEF NameLatest, Begin, RowsCollected, RowsOf
<1>5. CASE InsertChunk
  BY <1>5 DEF InsertChunk, RowsCollected, RowsOf
<1>6. CASE UpsertLatest \/ Commit \/ Fail
  BY <1>6 DEF UpsertLatest, Commit, Fail, RowsCollected, RowsOf
<1> QED
  BY <1>2, <1>3, <1>4, <1>5, <1>6, RowsStep DEF Next

\* What a committed transaction has inserted: one row per price of every
\* quote of the batch.
LEMMA CommittedRows ==
    ASSUME TypeOK, RowsCollected, Commit
    PROVE  \A m \in Messages :
             RowsOf(m, inserted) = IF m \in Range(batch) THEN Prices[m] ELSE 0
<1>1. k = Len(batch) /\ inserted = Len(details)
  BY DEF Commit, RowsCollected
<1>2. batch \in Seq(Messages) /\ DOMAIN batch = 1 .. k
  BY <1>1 DEF TypeOK
<1>3. \A m : m \in Range(batch) <=> \E j \in 1 .. k : batch[j] = m
  BY <1>2 DEF Range
<1> QED
  BY <1>1, <1>3 DEF RowsCollected

\* A batch has one winner of an ISIN.
LEMMA OneWinner ==
    ASSUME NEW b \in Seq(Messages), NEW i, NEW v, NEW w, IsWinner(b, i, v), IsWinner(b, i, w)
    PROVE  v = w
<1>1. /\ v \in 1 .. Len(b) /\ w \in 1 .. Len(b)
      /\ SendTime[b[v]] \in Int /\ SendTime[b[w]] \in Int
  BY SendTimeAssumption DEF IsWinner
<1>2. Beats(b, v, w) /\ Beats(b, w, v)
  BY DEF IsWinner
<1> QED
  BY <1>1, <1>2 DEF Beats

\* When the loop has ended, what it kept is what BatchWrite promises.
LEMMA LoopKeptUpsert ==
    ASSUME TypeOK, LoopKeepsWinner, RowsCollected, Commit, NEW i \in Isins, NEW row
    PROVE  (IF latestMap[i] # NoMsg THEN latestMap[i] ELSE row)
             = IF i \in BatchIsins(batch) THEN Winner(batch, i) ELSE row
<1>1. k = Len(batch) /\ batch \in Seq(Messages) /\ DOMAIN batch = 1 .. k
  BY DEF Commit, RowsCollected, TypeOK
<1>2. i \in BatchIsins(batch) <=> \E j \in 1 .. k : IsinOf[batch[j]] = i
  BY <1>1 DEF BatchIsins, Range
<1>3. CASE \E j \in 1 .. k : IsinOf[batch[j]] = i
  <2>1. PICK w \in 1 .. k : latestMap[i] = batch[w] /\ IsWinner(batch, i, w)
    BY <1>1, <1>3 DEF LoopKeepsWinner, IsWinner
  <2>2. w = CHOOSE v \in DOMAIN batch : IsWinner(batch, i, v)
    BY <1>1, <2>1, OneWinner
  <2>3. latestMap[i] = Winner(batch, i) /\ latestMap[i] # NoMsg
    BY <1>1, <2>1, <2>2, NoMsgAssumption DEF Winner
  <2> QED
    BY <1>2, <1>3, <2>3
<1>4. CASE ~\E j \in 1 .. k : IsinOf[batch[j]] = i
  BY <1>2, <1>4 DEF LoopKeepsWinner
<1> QED
  BY <1>3, <1>4
\* One step of the transaction: all of its rows or none.
LEMMA AtomicStep ==
    ASSUME TypeOK, LoopKeepsWinner, RowsCollected, [Next]_vars
    PROVE  \/ UNCHANGED tableVars
           \/ /\ detailTable' = [detailTable EXCEPT ![detailDay] =
                    [m \in Messages |-> @[m] + (IF m \in Range(batch) THEN Prices[m] ELSE 0)]]
              /\ latestTable' = [latestTable EXCEPT ![latestDay] = Upsert(@, batch)]
<1>1. CASE ~Commit
  BY <1>1 DEF Next, Midnight, Call, NameLatest, Aggregate, Begin, InsertChunk, UpsertLatest,
              Fail, Done, vars, tableVars
<1>2. CASE Commit
  <2>1. detailDay \in Days /\ latestDay \in Days
        /\ detailTable \in [Days -> [Messages -> Nat]] /\ latestTable \in [Days -> Rows]
    BY DEF TypeOK
  <2>2. detailTable' = [detailTable EXCEPT ![detailDay] =
                           [m \in Messages |-> @[m] + RowsOf(m, inserted)]]
    BY <1>2 DEF Commit, InsertDetails
  <2>3. [m \in Messages |-> detailTable[detailDay][m] + RowsOf(m, inserted)]
          = [m \in Messages |-> detailTable[detailDay][m]
                                  + (IF m \in Range(batch) THEN Prices[m] ELSE 0)]
    BY <1>2, CommittedRows
  <2>4. [i \in Isins |-> IF latestMap[i] # NoMsg THEN latestMap[i] ELSE latestTable[latestDay][i]]
          = Upsert(latestTable[latestDay], batch)
    BY <1>2, LoopKeptUpsert DEF Upsert
  <2>5. latestTable' = [latestTable EXCEPT ![latestDay] = Upsert(@, batch)]
    BY <1>2, <2>1, <2>4 DEF Commit
  <2>6. detailTable' = [detailTable EXCEPT ![detailDay] =
           [m \in Messages |-> @[m] + (IF m \in Range(batch) THEN Prices[m] ELSE 0)]]
    BY <2>1, <2>2, <2>3
  <2> QED
    BY <2>5, <2>6
<1> QED
  BY <1>1, <1>2

\* The rows of a batch are counted right in every reachable state.
THEOREM RowsCorrect == Spec => []RowsCollected
<1>1. Init => RowsCollected
  <2> SUFFICES ASSUME Init PROVE RowsCollected
    OBVIOUS
  <2>1. \A m : {j \in 1 .. Len(details) : details[j] = m} = {}
    BY DEF Init
  <2>2. \A m : RowsOf(m, Len(details)) = 0
    BY <2>1, FS_EmptySet DEF RowsOf
  <2> QED
    BY <2>2 DEF Init, RowsCollected
<1>2. TypeOK /\ RowsCollected /\ [Next]_vars => RowsCollected'
  BY RowsInductive
<1> QED
  BY <1>1, <1>2, TypeCorrect, PTL DEF Spec

\* For every batch and chunk size, a call leaves in the tables every detail
\* row of the batch and BatchWrite's upsert of the latest table, in one step,
\* or leaves them as they are.
THEOREM CallIsAtomic == Spec => CommitIsAtomic
<1>1. TypeOK /\ LoopKeepsWinner /\ RowsCollected /\ [Next]_vars
        => [UNCHANGED tableVars
            \/ /\ detailTable' = [detailTable EXCEPT ![detailDay] =
                     [m \in Messages |-> @[m] + (IF m \in Range(batch) THEN Prices[m] ELSE 0)]]
               /\ latestTable' = [latestTable EXCEPT ![latestDay] = Upsert(@, batch)]]_vars
  BY AtomicStep
<1> QED
  BY <1>1, TypeCorrect, LoopCorrect, RowsCorrect, PTL DEF Spec, CommitIsAtomic
-----------------------------------------------------------------------------
\* A quote has detail rows only once its call has committed, and the detail
\* table was named no later than the latest table.
TablesMatch ==
    /\ \A d \in Days, m \in Messages : m \notin passed => detailTable[d][m] = 0
    /\ pc # "idle" => /\ Range(batch) \subseteq passed
                      /\ \A d \in Days : \A m \in Range(batch) : detailTable[d][m] = 0
    /\ pc = "names" => detailDay <= day
    /\ pc \in {"loop", "insert", "commit"} => detailDay <= latestDay

\* What the loop keeps is a quote of the batch.
LEMMA KeptIsOfBatch ==
    ASSUME TypeOK, LoopKeepsWinner, NEW i \in Isins, latestMap[i] # NoMsg
    PROVE  latestMap[i] \in Range(batch)
<1>1. batch \in Seq(Messages) /\ k \in 0 .. Len(batch)
  BY DEF TypeOK
<1>2. PICK w \in 1 .. k : latestMap[i] = batch[w]
  BY DEF LoopKeepsWinner
<1> QED
  BY <1>1, <1>2 DEF Range

\* Every step keeps the detail rows those of committed calls, and all of a latest quote.
LEMMA TablesStep ==
    ASSUME TypeOK, LoopKeepsWinner, RowsCollected, TablesMatch, LatestRowHasDetails, [Next]_vars
    PROVE  TablesMatch' /\ LatestRowHasDetails'
<1>1. CASE \E b \in Batches : Call(b)
  <2>1. PICK b \in Batches : Call(b)
    BY <1>1
  <2>2. Range(b) \subseteq Messages
    BY BatchAssumption DEF Range
  <2>3. /\ Range(b) \cap passed = {} /\ passed' = passed \cup Range(b) /\ batch' = b
        /\ pc' = "names" /\ detailDay' = day /\ UNCHANGED <<day, tableVars>>
    BY <2>1 DEF Call
  <2>4. Range(batch)' = Range(b)
    BY <2>3 DEF Range
  <2>5. TablesMatch'
    BY <2>2, <2>3, <2>4 DEF TablesMatch, TypeOK, Days, tableVars
  <2> QED
    BY <2>3, <2>5 DEF LatestRowHasDetails, tableVars
<1>2. CASE Commit
  <2>1. /\ detailDay \in Days /\ latestDay \in Days /\ detailDay <= latestDay
        /\ detailTable \in [Days -> [Messages -> Nat]] /\ latestTable \in [Days -> Rows]
        /\ latestMap \in Rows
    BY <1>2 DEF TypeOK, TablesMatch, Commit
  <2>2. /\ pc' = "idle" /\ UNCHANGED <<passed, batch>>
        /\ latestTable' = [latestTable EXCEPT ![latestDay] =
                [i \in Isins |-> IF latestMap[i] # NoMsg THEN latestMap[i] ELSE @[i]]]
        /\ detailTable' = [detailTable EXCEPT ![detailDay] =
                [m \in Messages |-> @[m] + RowsOf(m, inserted)]]
    BY <1>2 DEF Commit, InsertDetails
  <2>3. /\ \A m \in Messages : RowsOf(m, inserted) = IF m \in Range(batch) THEN Prices[m] ELSE 0
        /\ \A m \in Messages : Prices[m] \in Nat
    BY <1>2, CommittedRows, BatchAssumption
  <2>4. \A e \in Days, m \in Messages :
           detailTable'[e][m] = detailTable[e][m]
              + (IF e = detailDay /\ m \in Range(batch) THEN Prices[m] ELSE 0)
    BY <2>1, <2>2, <2>3
  <2>5. /\ Range(batch) \subseteq passed
        /\ \A d \in Days : \A m \in Range(batch) : detailTable[d][m] = 0
    BY <1>2 DEF TablesMatch, Commit
  <2>6. TablesMatch'
    BY <2>2, <2>4, <2>5 DEF TablesMatch
  <2>7. ASSUME NEW d \in Days, NEW i \in Isins, latestTable'[d][i] # NoMsg
        PROVE  \E e \in 0 .. d : detailTable'[e][latestTable'[d][i]] = Prices[latestTable'[d][i]]
    <3>1. CASE d = latestDay /\ latestMap[i] # NoMsg
      <4>1. latestTable'[d][i] = latestMap[i] /\ latestMap[i] \in Messages
        BY <2>1, <2>2, <3>1 DEF Rows
      <4>2. latestMap[i] \in Range(batch)
        BY <3>1, KeptIsOfBatch
      <4>3. detailTable'[detailDay][latestMap[i]] = Prices[latestMap[i]]
        BY <2>1, <2>3, <2>4, <2>5, <4>1, <4>2
      <4> QED
        BY <2>1, <3>1, <4>1, <4>3 DEF Days
    <3>2. CASE ~(d = latestDay /\ latestMap[i] # NoMsg)
      <4>1. latestTable'[d][i] = latestTable[d][i] /\ latestTable[d][i] \in Messages
        BY <2>1, <2>2, <2>7, <3>2 DEF Rows
      <4>2. PICK e \in 0 .. d : detailTable[e][latestTable[d][i]] = Prices[latestTable[d][i]]
        BY <2>7, <4>1 DEF LatestRowHasDetails
      <4>3. e \in Days
        BY BatchAssumption DEF Days
      <4>4. detailTable'[e][latestTable[d][i]] = Prices[latestTable[d][i]]
        BY <2>1, <2>3, <2>4, <2>5, <4>1, <4>2, <4>3
      <4> QED
        BY <4>1, <4>4
    <3> QED
      BY <3>1, <3>2
  <2> QED
    BY <2>6, <2>7 DEF LatestRowHasDetails
<1>3. CASE UNCHANGED tableVars /\ UNCHANGED <<passed, batch, detailDay>>
           /\ \/ UNCHANGED <<day, pc, latestDay>>
              \/ UNCHANGED <<pc, latestDay>> /\ day' = day + 1
              \/ pc = "names" /\ pc' = "loop" /\ latestDay' = day
              \/ UNCHANGED latestDay /\ pc \in {"loop", "insert", "commit"}
                   /\ pc' \in {"idle", "insert", "commit"}
  <2>1. detailDay \in Int /\ day \in Int
    BY DEF TypeOK, Days
  <2>2. Range(batch)' = Range(batch)
    BY <1>3 DEF Range
  <2>3. TablesMatch'
    BY <1>3, <2>1, <2>2 DEF TablesMatch, tableVars
  <2> QED
    BY <1>3, <2>3 DEF LatestRowHasDetails, tableVars
<1>4. CASE UNCHANGED vars \/ Done
  BY <1>3, <1>4 DEF Done, vars, callVars
<1>5. CASE Midnight
  BY <1>3, <1>5 DEF Midnight, callVars
<1>6. CASE NameLatest \/ Aggregate
  BY <1>3, <1>6 DEF NameLatest, Aggregate
<1>7. CASE Begin \/ InsertChunk \/ UpsertLatest \/ Fail
  BY <1>3, <1>7 DEF Begin, InsertChunk, UpsertLatest, Fail
<1> QED
  BY <1>1, <1>2, <1>4, <1>5, <1>6, <1>7 DEF Next

\* Midnight may fall anywhere and any statement may fail: a row of a latest
\* table always has all its detail rows in the table of that day or one before.
THEOREM LatestHasItsDetails == Spec => []LatestRowHasDetails
<1>1. Init => TablesMatch /\ LatestRowHasDetails
  BY DEF Init, TablesMatch, LatestRowHasDetails, NoRows
<1>2. TypeOK /\ LoopKeepsWinner /\ RowsCollected /\ TablesMatch /\ LatestRowHasDetails /\ [Next]_vars
        => TablesMatch' /\ LatestRowHasDetails'
  BY TablesStep
<1> QED
  BY <1>1, <1>2, TypeCorrect, LoopCorrect, RowsCorrect, PTL DEF Spec
=============================================================================
