---------------------------- MODULE InsertBatch ----------------------------
(***************************************************************************)
(* InsertBatch (service/bond_quote_service.go:219-325), statement by       *)
(* statement, as the DB workers call it: the two table names read from the *)
(* clock, the loop that collects detail rows and picks the latest quote of *)
(* each ISIN, and the transaction that inserts the detail rows in chunks   *)
(* and upserts the latest rows.  A statement, or the commit, may fail and  *)
(* the transaction is rolled back; the caller logs that and goes on.       *)
(*                                                                         *)
(* Two DB workers write rows of different ISINs (QuotePipelineProps!       *)
(* SingleWriterPerIsin), so one call at a time is what each of them sees.  *)
(***************************************************************************)
EXTENDS BatchWrite, FiniteSets

CONSTANTS
    Prices,     \* how many ask and bid prices a message carries
    Batches,    \* the batches flush may pass, a message at most once in each
    ChunkSize,  \* rows per INSERT of CreateInBatches (1000)
    LastDay     \* bound on the calendar: days are 0 .. LastDay

ASSUME BatchAssumption ==
    /\ Prices \in [Messages -> Nat]
    /\ Batches \subseteq Seq(Messages) \ {<<>>}
    /\ \A b \in Batches : IsInjective(b)
    /\ ChunkSize \in Nat \ {0} /\ LastDay \in Nat

Days == 0 .. LastDay
NoRows == [i \in Isins |-> NoMsg]

VARIABLES
    day,            \* the calendar day of time.Now()
    pc,             \* the statement InsertBatch is at, "idle" between calls
    batch,          \* its argument
    detailDay, latestDay,   \* the days in detailName and lastestName
    k,              \* the loop has done the first k quotes
    latestMap,      \* the latest quote met of each ISIN
    details,        \* the detail rows to insert, each as its message
    inserted,       \* how many of them the transaction has inserted
    detailTable,    \* per day, the committed detail rows of each message
    latestTable,    \* per day, the committed latest rows
    passed          \* messages already passed to InsertBatch

callVars == <<pc, batch, detailDay, latestDay, k, latestMap, details, inserted>>
tableVars == <<detailTable, latestTable>>
vars == <<day, callVars, tableVars, passed>>

Init ==
    /\ day = 0 /\ pc = "idle" /\ batch = <<>>
    /\ detailDay = 0 /\ latestDay = 0
    /\ k = 0 /\ latestMap = NoRows /\ details = <<>> /\ inserted = 0
    /\ detailTable = [d \in Days |-> [m \in Messages |-> 0]]
    /\ latestTable = [d \in Days |-> NoRows]
    /\ passed = {}

\* Midnight falls between any two statements.
Midnight ==
    /\ day < LastDay
    /\ day' = day + 1
    /\ UNCHANGED <<callVars, tableVars, passed>>

\* The call, and GetTodayDetailTableName.
Call(b) ==
    /\ pc = "idle"
    /\ Range(b) \cap passed = {}
    /\ pc' = "names" /\ batch' = b /\ passed' = passed \cup Range(b)
    /\ detailDay' = day
    /\ k' = 0 /\ latestMap' = NoRows /\ details' = <<>> /\ inserted' = 0
    /\ UNCHANGED <<day, latestDay, tableVars>>

\* GetTodayLatestTableName reads the clock again.
NameLatest ==
    /\ pc = "names"
    /\ pc' = "loop" /\ latestDay' = day
    /\ UNCHANGED <<day, batch, detailDay, k, latestMap, details, inserted, tableVars, passed>>

\* shouldUpdate: the ISIN is new to the batch, or the quote is strictly later.
\* Variant: "not earlier" for "later".
ReplacesOrTies(m) ==
    LET lq == latestMap[IsinOf[m]] IN lq = NoMsg \/ SendTime[m] >= SendTime[lq]
Replaces(m) ==
    LET lq == latestMap[IsinOf[m]] IN lq = NoMsg \/ SendTime[m] > SendTime[lq]

\* One iteration of the loop over the batch.
Aggregate ==
    /\ pc = "loop" /\ k < Len(batch)
    /\ LET m == batch[k + 1]
       IN  /\ details' = details \o [j \in 1 .. Prices[m] |-> m]
           /\ latestMap' = IF Replaces(m) THEN [latestMap EXCEPT ![IsinOf[m]] = m] ELSE latestMap
    /\ k' = k + 1
    /\ UNCHANGED <<day, pc, batch, detailDay, latestDay, inserted, tableVars, passed>>

Begin ==
    /\ pc = "loop" /\ k = Len(batch)
    /\ pc' = "insert"
    /\ UNCHANGED <<day, batch, detailDay, latestDay, k, latestMap, details, inserted, tableVars, passed>>

\* Variant: the last chunk is counted as a full one.
InsertChunkOvershoot ==
    /\ pc = "insert" /\ inserted < Len(details)
    /\ inserted' = inserted + ChunkSize
    /\ UNCHANGED <<day, pc, batch, detailDay, latestDay, k, latestMap, details, tableVars, passed>>

\* One INSERT of CreateInBatches; none when the batch has no price.
InsertChunk ==
    /\ pc = "insert" /\ inserted < Len(details)
    /\ inserted' = IF inserted + ChunkSize < Len(details) THEN inserted + ChunkSize ELSE Len(details)
    /\ UNCHANGED <<day, pc, batch, detailDay, latestDay, k, latestMap, details, tableVars, passed>>

\* Variant: a long batch is cut off after its first chunk.
UpsertAfterFirstChunk ==
    /\ pc = "insert" /\ (inserted > 0 \/ details = <<>>)
    /\ pc' = "commit"
    /\ UNCHANGED <<day, batch, detailDay, latestDay, k, latestMap, details, inserted, tableVars, passed>>

\* The upsert, at the end of which only the commit is left to fail.
UpsertLatest ==
    /\ pc = "insert" /\ inserted = Len(details)
    /\ pc' = "commit"
    /\ UNCHANGED <<day, batch, detailDay, latestDay, k, latestMap, details, inserted, tableVars, passed>>

\* How many of the first n detail rows are of message m.
RowsOf(m, n) == Cardinality({j \in 1 .. n : details[j] = m})

InsertDetails(n) ==
    detailTable' = [detailTable EXCEPT ![detailDay] = [m \in Messages |-> @[m] + RowsOf(m, n)]]

Commit ==
    /\ pc = "commit"
    /\ InsertDetails(inserted)
    /\ latestTable' = [latestTable EXCEPT ![latestDay] =
                        [i \in Isins |-> IF latestMap[i] # NoMsg THEN latestMap[i] ELSE @[i]]]
    /\ pc' = "idle"
    /\ UNCHANGED <<day, batch, detailDay, latestDay, k, latestMap, details, inserted, passed>>

\* An error of any statement rolls the transaction back; InsertBatch returns it.
\* Variant: no transaction, so the chunks inserted before the error stay.
FailWithoutRollback ==
    /\ pc \in {"insert", "commit"}
    /\ InsertDetails(inserted)
    /\ pc' = "idle"
    /\ UNCHANGED <<day, batch, detailDay, latestDay, k, latestMap, details, inserted, latestTable, passed>>
Fail ==
    /\ pc \in {"insert", "commit"}
    /\ pc' = "idle"
    /\ UNCHANGED <<day, batch, detailDay, latestDay, k, latestMap, details, inserted, tableVars, passed>>

\* Nothing is left to pass.
Done ==
    /\ pc = "idle" /\ \A b \in Batches : Range(b) \cap passed # {}
    /\ UNCHANGED vars

Next ==
    \/ Midnight
    \/ \E b \in Batches : Call(b)
    \/ NameLatest \/ Aggregate \/ Begin
    \/ InsertChunk \/ UpsertLatest \/ Commit \/ Fail
    \/ Done

Spec == Init /\ [][Next]_vars
-----------------------------------------------------------------------------
\* Type correctness: the loop and the inserts stay within the batch and its
\* rows, and the tables hold counts and messages only.
TypeOK ==
    /\ day \in Days /\ detailDay \in Days /\ latestDay \in Days
    /\ pc \in {"idle", "names", "loop", "insert", "commit"}
    /\ batch \in Seq(Messages) /\ k \in 0 .. Len(batch)
    /\ latestMap \in Rows
    /\ details \in Seq(Messages) /\ inserted \in 0 .. Len(details)
    /\ detailTable \in [Days -> [Messages -> Nat]]
    /\ latestTable \in [Days -> Rows]
    /\ passed \subseteq Messages

\* After k quotes, latestMap holds for each ISIN the latest of those k, the
\* first of equals ("based on the message's send time",
\* bond_quote_service.go:271-296), whatever the order of the batch.
LoopKeepsWinner ==
    \A i \in Isins :
        IF \E j \in 1 .. k : IsinOf[batch[j]] = i
        THEN \E w \in 1 .. k :
                /\ latestMap[i] = batch[w] /\ IsinOf[batch[w]] = i
                /\ \A j \in 1 .. k : IsinOf[batch[j]] = i => Beats(batch, w, j)
        ELSE latestMap[i] = NoMsg

\* What a call does to the tables happens in one step or not at all: every
\* price of every quote of the batch becomes a detail row, and the latest
\* table is upserted as BatchWrite says.
CommitIsAtomic ==
    [][UNCHANGED tableVars
       \/ /\ detailTable' = [detailTable EXCEPT ![detailDay] =
                [m \in Messages |-> @[m] + (IF m \in Range(batch) THEN Prices[m] ELSE 0)]]
          /\ latestTable' = [latestTable EXCEPT ![latestDay] = Upsert(@, batch)]]_vars

\* The tables agree across midnight: the quote of a latest row has all its
\* detail rows in the table of one day, that day or, when midnight fell
\* between the two reads of the clock, one before it, and no more of them.
LatestRowHasDetails ==
    \A d \in Days, i \in Isins :
        LET m == latestTable[d][i]
        IN  m # NoMsg => \E e \in 0 .. d : detailTable[e][m] = Prices[m]
=============================================================================
