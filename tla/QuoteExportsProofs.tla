------------------------- MODULE QuoteExportsProofs -------------------------
(***************************************************************************)
(* Proofs about QuoteExports for any quotes, any calendar, any time zone   *)
(* and any number of ISINs: the types, the tables that readers and writers *)
(* share, and what the sheets of the exports hold.  The rows of a sheet    *)
(* come from functions that are recursive over the data; what they compute *)
(* is proved by induction, for a set of numbers that holds 0 and what      *)
(* follows each of its members (lemma Induct).                             *)
(***************************************************************************)
EXTENDS QuoteExports, FiniteSetTheorems, SequenceTheorems, TLAPS

\* The calendar and an empty call are what they should be.
LEMMA Basics ==
    /\ Days \subseteq Nat /\ 0 \in Days /\ NoBatch \in Batch
    /\ \A d \in Days : None # d
    /\ \A q \in Quotes : q.isin \in Isins /\ Prices(q) \subseteq AllPrices
BY ExportAssumption DEF Days, NoBatch, Batch, Isins, AllPrices

\* Everything but the tables, the calendar and the calls.
Reads == <<day, tables, details, latest, pending, batch>>

\* The requests and the periodic export read and never write.
LEMMA ReadersRead == ASSUME Export \/ Query PROVE UNCHANGED Reads
<1>1. CASE Export
  BY <1>1 DEF Export, Tick, Find, Save, Upload, Send, RemoveFile, ExportFails, ExportStep, Reads
<1>2. CASE Query
  BY <1>2 DEF Query, AskDailyEnd, NextDay, DailyEndReplies, AskTimeRange, NextGroup,
     TimeRangeReplies, CurrentLatest, QueryFails, Answered, QueryStep, Reads
<1> QED
  BY <1>1, <1>2

\* A step of an InsertBatch call, whichever: the call it leaves, and what it
\* commits.
LEMMA InsertStep ==
    ASSUME TablesOK, NEW i \in Isins, Insert(i)
    PROVE  /\ UNCHANGED <<day, tables>> /\ pending' \subseteq pending
           /\ \E b \in Batch :
                /\ batch' = [batch EXCEPT ![i] = b]
                /\ \/ /\ b.pc = "named" /\ b.quote \in Quotes /\ b.quote.isin = i /\ b.detail = day
                      /\ b.latest = None /\ UNCHANGED <<details, latest>>
                   \/ /\ batch[i].pc = "named" /\ b.pc = "ready"
                      /\ b.quote = batch[i].quote /\ b.detail = batch[i].detail
                      /\ b.latest = day /\ UNCHANGED <<details, latest>>
                   \/ /\ batch[i].pc = "ready" /\ b = NoBatch
                      /\ UNCHANGED <<details, latest>> \/ Commit(i)
<1>1. /\ batch \in [Isins -> Batch] /\ BatchOK(i) /\ batch[i] \in Batch /\ day \in Days
      /\ pending \subseteq Quotes
  BY DEF TablesOK
<1>2. CASE NameDetail(i)
  <2>1. PICK q \in pending :
            /\ q.isin = i /\ pending' = pending \ {q}
            /\ batch' = [batch EXCEPT ![i] =
                  [pc |-> "named", quote |-> q, detail |-> day, latest |-> None]]
    BY <1>2 DEF NameDetail
  <2>2. PICK b : b = [pc |-> "named", quote |-> q, detail |-> day, latest |-> None]
    OBVIOUS
  <2>3. batch' = [batch EXCEPT ![i] = b]
    BY <2>1, <2>2
  <2>4. b \in Batch
    BY <1>1, <2>1, <2>2 DEF Batch
  <2>5. UNCHANGED <<day, tables, details, latest>> /\ pending' \subseteq pending
    BY <1>2, <2>1 DEF NameDetail
  <2>6. /\ b.pc = "named" /\ b.quote \in Quotes /\ b.quote.isin = i
        /\ b.detail = day /\ b.latest = None
    BY <1>1, <2>1, <2>2
  <2> QED
    BY <2>3, <2>4, <2>5, <2>6
<1>3. CASE NameLatest(i)
  <2> DEFINE b == [batch[i] EXCEPT !.pc = "ready", !.latest = day]
  <2>1. /\ batch[i].pc = "named" /\ batch' = [batch EXCEPT ![i] = b]
        /\ UNCHANGED <<day, tables, details, latest, pending>>
    BY <1>1, <1>3 DEF NameLatest
  <2>2. /\ b \in Batch /\ b.pc = "ready" /\ b.quote = batch[i].quote
        /\ b.detail = batch[i].detail /\ b.latest = day
    BY <1>1 DEF Batch
  <2> QED
    BY <2>1, <2>2
<1>4. CASE Commit(i)
  BY <1>4, Basics DEF Commit
<1>5. CASE Rollback(i)
  BY <1>5, Basics DEF Rollback
<1> QED
  BY <1>2, <1>3, <1>4, <1>5 DEF Insert

\* The step of a call keeps what is known of it, and a commit keeps one
\* quote per ISIN in the latest table.
LEMMA InsertType == ASSUME TablesOK, NEW i \in Isins, Insert(i) PROVE TablesOK'
<1>1. PICK b \in Batch :
        /\ batch' = [batch EXCEPT ![i] = b]
        /\ \/ /\ b.pc = "named" /\ b.quote \in Quotes /\ b.quote.isin = i /\ b.detail = day
              /\ b.latest = None /\ UNCHANGED <<details, latest>>
           \/ /\ batch[i].pc = "named" /\ b.pc = "ready"
              /\ b.quote = batch[i].quote /\ b.detail = batch[i].detail
              /\ b.latest = day /\ UNCHANGED <<details, latest>>
           \/ /\ batch[i].pc = "ready" /\ b = NoBatch
              /\ UNCHANGED <<details, latest>> \/ Commit(i)
  BY InsertStep
<1>2. UNCHANGED <<day, tables>> /\ pending' \subseteq pending
  BY InsertStep
<1>3. batch \in [Isins -> Batch] /\ BatchOK(i) /\ day \in Nat /\ \A j \in Isins : BatchOK(j)
  BY Basics DEF TablesOK
<1>4. batch' \in [Isins -> Batch] /\ batch'[i] = b /\ \A j \in Isins : j # i => batch'[j] = batch[j]
  BY <1>1, <1>3
<1>5. /\ b.pc # "idle" => b.quote \in Quotes /\ b.quote.isin = i /\ b.detail \in 0 .. day
      /\ b.pc = "ready" => b.latest \in b.detail .. day
  BY <1>1, <1>3 DEF BatchOK, NoBatch
<1>6. \A j \in Isins : BatchOK(j)'
  BY <1>2, <1>3, <1>4, <1>5 DEF BatchOK
<1>7. CASE UNCHANGED <<details, latest>>
  BY <1>2, <1>4, <1>6, <1>7 DEF TablesOK
<1>8. CASE Commit(i)
  <2> DEFINE q == batch[i].quote
             d == batch[i].detail
             e == batch[i].latest
  <2>1. /\ q \in Quotes /\ q.isin = i /\ d \in Days /\ e \in Days
        /\ details' = [details EXCEPT ![d] = @ \cup Prices(q)]
        /\ latest' = [latest EXCEPT ![e] = Upsert(@, q)]
    <3>1. batch[i].pc = "ready" /\ day \in Days
      BY <1>8 DEF Commit, TablesOK
    <3> QED
      BY <1>3, <1>8, <3>1, ExportAssumption DEF Commit, BatchOK, Days
  <2> HIDE DEF q, d, e
  <2>2. /\ details \in [Days -> SUBSET AllPrices] /\ latest \in [Days -> SUBSET Quotes]
        /\ \A c \in Days : \A x, y \in latest[c] : x.isin = y.isin => x = y
    BY DEF TablesOK
  <2>3. details' \in [Days -> SUBSET AllPrices]
    BY <2>1, <2>2, Basics
  <2>4. /\ Upsert(latest[e], q) \in SUBSET Quotes
        /\ \A x, y \in Upsert(latest[e], q) : x.isin = y.isin => x = y
    BY <2>1, <2>2 DEF Upsert
  <2>5. /\ latest' \in [Days -> SUBSET Quotes]
        /\ \A c \in Days : \A x, y \in latest'[c] : x.isin = y.isin => x = y
    BY <2>1, <2>2, <2>4
  <2> QED
    BY <1>2, <1>4, <1>6, <2>3, <2>5 DEF TablesOK
<1> QED
  BY <1>1, <1>7, <1>8

\* Where nothing is written, the tables and the calls keep their types.
LEMMA ReadsType == ASSUME TablesOK, UNCHANGED Reads PROVE TablesOK'
BY DEF TablesOK, BatchOK, Reads

\* The days are what they were, but one more has come.
LEMMA TomorrowType == ASSUME TablesOK, Tomorrow PROVE TablesOK'
<1>1. /\ day \in Nat /\ day' = day + 1 /\ day' \in Days
      /\ UNCHANGED <<tables, details, latest, pending, batch>>
  BY ExportAssumption DEF TablesOK, Tomorrow, Days
<1>2. \A i \in Isins : BatchOK(i)'
  <2> SUFFICES ASSUME NEW i \in Isins PROVE BatchOK(i)'
    OBVIOUS
  <2>1. BatchOK(i) /\ batch[i] \in Batch
    BY DEF TablesOK
  <2> QED
    BY <1>1, <2>1 DEF BatchOK
<1> QED
  BY <1>1, <1>2 DEF TablesOK

\* createTableService only adds a table.
LEMMA CreateType == ASSUME TablesOK, NEW d \in Days, CreateTables(d) PROVE TablesOK'
<1>1. /\ tables' \subseteq {"detail", "latest"} \X Days
      /\ UNCHANGED <<day, details, latest, pending, batch>>
  BY DEF TablesOK, CreateTables
<1> QED
  BY <1>1 DEF TablesOK, BatchOK

\* Every step keeps the tables and the calls what they are.
LEMMA TablesStep == ASSUME TablesOK, [Next]_vars PROVE TablesOK'
<1>1. CASE UNCHANGED vars
  BY <1>1, ReadsType DEF vars, Reads
<1> QED
  BY <1>1, InsertType, ReadersRead, ReadsType, CreateType, TomorrowType DEF Next

\* Nothing is written at the start.
LEMMA TablesInit == ASSUME Init PROVE TablesOK
BY Basics DEF Init, TablesOK, BatchOK, NoBatch

\* Whatever is exported, asked for, created and inserted, the tables hold
\* quotes and prices, and a latest table one quote per ISIN.
THEOREM TablesCorrect == Spec => []TablesOK
<1>1. Init => TablesOK
  BY TablesInit
<1>2. TablesOK /\ [Next]_vars => TablesOK'
  BY TablesStep
<1> QED
  BY <1>1, <1>2, PTL DEF Spec
-----------------------------------------------------------------------------
\* The two tables of a call are those of one day or of two days in a row.
NamedTogether ==
    \A i \in Isins :
        /\ batch[i].pc = "named" => batch[i].detail \in {day - 1, day}
        /\ batch[i].pc = "ready" => batch[i].latest \in {batch[i].detail, batch[i].detail + 1}

\* A commit writes the prices of the quote into the detail table of the day of
\* its latest row or of the day before.
LEMMA CommitDetails ==
    ASSUME TablesOK, NamedTogether, LatestHasDetails, NEW i \in Isins, Commit(i)
    PROVE  LatestHasDetails'
<1> DEFINE q == batch[i].quote
           d == batch[i].detail
           e == batch[i].latest
<1>1. /\ q \in Quotes /\ d \in Days /\ e \in Days /\ e \in {d, d + 1}
      /\ details' = [details EXCEPT ![d] = @ \cup Prices(q)]
      /\ latest' = [latest EXCEPT ![e] = Upsert(@, q)]
  <2>1. batch[i].pc = "ready" /\ day \in Days /\ BatchOK(i)
    BY DEF Commit, TablesOK
  <2> QED
    BY <2>1, ExportAssumption DEF Commit, BatchOK, Days, NamedTogether
<1>2. /\ details \in [Days -> SUBSET AllPrices] /\ latest \in [Days -> SUBSET Quotes]
      /\ Days \subseteq Nat /\ \A c \in Days : c > 0 => c - 1 \in Days
  BY ExportAssumption DEF TablesOK, Days
<1> HIDE DEF q, d, e
<1>3. \A c \in Days : details[c] \subseteq details'[c]
  BY <1>1, <1>2
<1>4. Prices(q) \subseteq details'[d]
  BY <1>1, <1>2
<1> SUFFICES ASSUME NEW c \in Days, NEW r \in latest'[c]
             PROVE  Prices(r) \subseteq details'[c] \cup (IF c > 0 THEN details'[c - 1] ELSE {})
  BY DEF LatestHasDetails
<1>5. CASE r \in latest[c]
  BY <1>2, <1>3, <1>5 DEF LatestHasDetails
<1>6. CASE c = e /\ r = q
  BY <1>1, <1>2, <1>4, <1>6
<1>7. r \in latest[c] \/ (c = e /\ r = q)
  BY <1>1, <1>2 DEF Upsert
<1> QED
  BY <1>5, <1>6, <1>7

\* Every step keeps the two names together and the details of what is latest.
LEMMA NamedStep ==
    ASSUME TablesOK, NamedTogether, LatestHasDetails, [Next]_vars
    PROVE  NamedTogether' /\ LatestHasDetails'
<1>1. CASE UNCHANGED Reads
  BY <1>1 DEF NamedTogether, LatestHasDetails, Reads
<1>2. CASE UNCHANGED vars \/ Export \/ Query
  BY <1>1, <1>2, ReadersRead DEF vars, Reads
<1>3. CASE \E d \in Days : CreateTables(d)
  BY <1>3 DEF CreateTables, NamedTogether, LatestHasDetails
<1>4. CASE Tomorrow
  <2>1. /\ day \in Nat /\ day' = day + 1 /\ UNCHANGED <<details, latest, batch>>
        /\ \A i \in Isins : batch[i].pc = "named" => batch[i].detail = day
    BY <1>4, Basics DEF TablesOK, Tomorrow
  <2> QED
    BY <2>1 DEF NamedTogether, LatestHasDetails
<1>5. ASSUME NEW i \in Isins, Insert(i) PROVE NamedTogether' /\ LatestHasDetails'
  <2>1. PICK b \in Batch :
          /\ batch' = [batch EXCEPT ![i] = b]
          /\ \/ /\ b.pc = "named" /\ b.quote \in Quotes /\ b.quote.isin = i /\ b.detail = day
                /\ b.latest = None /\ UNCHANGED <<details, latest>>
             \/ /\ batch[i].pc = "named" /\ b.pc = "ready"
                /\ b.quote = batch[i].quote /\ b.detail = batch[i].detail
                /\ b.latest = day /\ UNCHANGED <<details, latest>>
             \/ /\ batch[i].pc = "ready" /\ b = NoBatch
                /\ UNCHANGED <<details, latest>> \/ Commit(i)
    BY <1>5, InsertStep
  <2>2. UNCHANGED day /\ batch \in [Isins -> Batch] /\ day \in Nat
    BY <1>5, InsertStep, Basics DEF TablesOK
  <2>3. \A j \in Isins : batch'[j] = IF j = i THEN b ELSE batch[j]
    BY <2>1, <2>2
  <2>4. /\ b.pc = "named" => b.detail \in {day - 1, day}
        /\ b.pc = "ready" => b.latest \in {b.detail, b.detail + 1}
    BY <2>1, <2>2 DEF NamedTogether, NoBatch
  <2>5. NamedTogether'
    BY <2>2, <2>3, <2>4 DEF NamedTogether
  <2>6. LatestHasDetails'
    <3>1. CASE UNCHANGED <<details, latest>>
      BY <3>1 DEF LatestHasDetails
    <3> QED
      BY <2>1, <3>1, CommitDetails
  <2> QED
    BY <2>5, <2>6
<1> QED
  BY <1>2, <1>3, <1>4, <1>5 DEF Next

\* Every latest quote has its prices in the detail table of its day or of the
\* day before, wherever midnight fell in the call that wrote it.
THEOREM LatestQuotesHaveDetails == Spec => []LatestHasDetails
<1>1. Init => NamedTogether /\ LatestHasDetails
  BY DEF Init, NamedTogether, LatestHasDetails, NoBatch
<1>2. TablesOK /\ NamedTogether /\ LatestHasDetails /\ [Next]_vars
        => NamedTogether' /\ LatestHasDetails'
  BY NamedStep
<1> QED
  BY <1>1, <1>2, TablesCorrect, PTL DEF Spec
-----------------------------------------------------------------------------
\* No step writes to a final day or names its tables again.
LEMMA FinalStep ==
    ASSUME TablesOK, [Next]_vars, NEW d \in Days, Final(d)
    PROVE  Final(d)' /\ latest'[d] = latest[d] /\ details'[d] = details[d]
<1>0. d \in Nat /\ day \in Nat /\ None # d
  BY Basics DEF TablesOK
<1>1. CASE UNCHANGED <<details, latest, batch>> /\ day' \in {day, day + 1}
  BY <1>0, <1>1 DEF Final
<1>2. CASE UNCHANGED vars \/ Export \/ Query
  BY <1>1, <1>2, ReadersRead DEF vars, Reads
<1>3. CASE Tomorrow \/ \E c \in Days : CreateTables(c)
  BY <1>1, <1>3 DEF Tomorrow, CreateTables
<1>4. ASSUME NEW i \in Isins, Insert(i)
      PROVE  Final(d)' /\ latest'[d] = latest[d] /\ details'[d] = details[d]
  <2>1. PICK b \in Batch :
          /\ batch' = [batch EXCEPT ![i] = b]
          /\ \/ /\ b.pc = "named" /\ b.quote \in Quotes /\ b.quote.isin = i /\ b.detail = day
                /\ b.latest = None /\ UNCHANGED <<details, latest>>
             \/ /\ batch[i].pc = "named" /\ b.pc = "ready"
                /\ b.quote = batch[i].quote /\ b.detail = batch[i].detail
                /\ b.latest = day /\ UNCHANGED <<details, latest>>
             \/ /\ batch[i].pc = "ready" /\ b = NoBatch
                /\ UNCHANGED <<details, latest>> \/ Commit(i)
    BY <1>4, InsertStep
  <2>2. UNCHANGED day /\ batch \in [Isins -> Batch]
    BY <1>4, InsertStep DEF TablesOK
  <2>3. \A j \in Isins : batch'[j] = IF j = i THEN b ELSE batch[j]
    BY <2>1, <2>2
  <2>4. d < day /\ \A j \in Isins : d # batch[j].detail /\ d # batch[j].latest
    BY DEF Final
  <2>5. d # b.detail /\ d # b.latest
    BY <1>0, <2>1, <2>4 DEF NoBatch
  <2>6. Final(d)'
    BY <2>2, <2>3, <2>4, <2>5 DEF Final
  <2>7. CASE Commit(i)
    <3>1. /\ details' = [details EXCEPT ![batch[i].detail] = @ \cup Prices(batch[i].quote)]
          /\ latest' = [latest EXCEPT ![batch[i].latest] = Upsert(@, batch[i].quote)]
          /\ DOMAIN details = Days /\ DOMAIN latest = Days
      BY <2>7 DEF Commit, TablesOK
    <3> QED
      BY <2>4, <2>6, <3>1
  <2> QED
    BY <2>1, <2>6, <2>7
<1> QED
  BY <1>2, <1>3, <1>4 DEF Next

\* A past day whose calls are over never changes, so that an export of it
\* reads the same at any later time.
THEOREM PastDaysAreFinal == Spec => PastDayIsFinal
<1>1. TablesOK /\ [Next]_vars
        => [\A d \in Days : Final(d) =>
              Final(d)' /\ latest'[d] = latest[d] /\ details'[d] = details[d]]_vars
  BY FinalStep
<1> QED
  BY <1>1, TablesCorrect, PTL DEF Spec, PastDayIsFinal
-----------------------------------------------------------------------------
\* Whatever sheet it holds, the export is at one of its steps.
ExportRuns ==
    export \in [pc : {"idle", "table", "laid out", "saved", "uploaded", "sent"},
                table : {export.table}, sheet : {export.sheet}]

\* A step of the export goes on, or fails, or removes what it has sent.
LEMMA ExportGoesOn ==
    ASSUME ExportRuns, [Next]_vars
    PROVE  ExportRuns' /\ [OnDisk /\ ~OnDisk' => export.pc = "sent" \/ left']_export
<1>1. CASE UNCHANGED export
  BY <1>1 DEF ExportRuns
<1>2. CASE Tick
  BY <1>2 DEF Tick, ExportStep, ExportRuns, NoExport, OnDisk
<1>3. CASE Find
  BY <1>3 DEF Find, ExportStep, ExportRuns, OnDisk
<1>4. CASE Save
  BY <1>4 DEF Save, ExportStep, ExportRuns, NoExport, OnDisk
<1>5. CASE Upload \/ Send
  BY <1>5 DEF Upload, Send, ExportStep, ExportRuns, OnDisk
<1>6. CASE RemoveFile \/ ExportFails
  <2>1. export' = NoExport
    BY <1>6 DEF RemoveFile, ExportFails, ExportStep
  <2>2. ExportFails /\ OnDisk => left'
    <3> HIDE DEF OnDisk
    <3> QED
      BY DEF ExportFails
  <2>3. ExportRuns'
    BY <2>1 DEF ExportRuns, NoExport
  <2>4. RemoveFile => export.pc = "sent"
    BY DEF RemoveFile
  <2> QED
    BY <1>6, <2>2, <2>3, <2>4
<1>7. ASSUME NEW i \in Isins, Insert(i) PROVE UNCHANGED export
  BY <1>7 DEF Insert, NameDetail, NameLatest, Commit, Rollback
<1>8. Query => UNCHANGED export
  BY DEF Query, AskDailyEnd, NextDay, DailyEndReplies, AskTimeRange, NextGroup,
     TimeRangeReplies, CurrentLatest, QueryFails, Answered, QueryStep
<1>9. Tomorrow \/ (\E d \in Days : CreateTables(d)) => UNCHANGED export
  BY DEF Tomorrow, CreateTables
<1> QED
  BY <1>1, <1>2, <1>3, <1>4, <1>5, <1>6, <1>7, <1>8, <1>9 DEF Next, Export, vars

\* The periodic export takes no file from the disk before its link is sent,
\* unless a step failed, which leaves the file.
THEOREM FilesWaitForTheirLink == Spec => FileKeptUntilSent
<1>1. Init => ExportRuns
  BY DEF Init, NoExport, ExportRuns
<1>2. ExportRuns /\ [Next]_vars => ExportRuns'
  BY ExportGoesOn
<1>3. ExportRuns /\ [Next]_vars => [OnDisk /\ ~OnDisk' => export.pc = "sent" \/ left']_export
  BY ExportGoesOn
<1> QED
  BY <1>1, <1>2, <1>3, PTL DEF Spec, FileKeptUntilSent
-----------------------------------------------------------------------------
(* Induction, and what the laying out of a table computes.                 *)

LessThan == OpToRel(<, Nat)

\* The order of the naturals is well founded.
LEMMA LessThanWellFounded == IsWellFoundedOn(LessThan, Nat)
BY NatLessThanWellFounded DEF LessThan

\* It is the order that < names.
LEMMA LessThanIs == \A x, y \in Nat : <<x, y>> \in LessThan <=> x < y
BY DEF LessThan, OpToRel

\* A nonempty set of naturals has a least element.
LEMMA LeastElement ==
    ASSUME NEW T \in SUBSET Nat, T # {}
    PROVE  \E x \in T : \A y \in T : x <= y
<1>1. PICK x \in T : \A y \in T : ~ (<<y, x>> \in LessThan)
  BY LessThanWellFounded, WFMin
<1>2. \A y \in T : ~ (y < x)
  BY <1>1, LessThanIs
<1> QED
  BY <1>2

\* Induction over the naturals: the least number outside S would have its
\* predecessor in S.
LEMMA Induct ==
    ASSUME NEW S \in SUBSET Nat, 0 \in S, \A n \in S : n + 1 \in S
    PROVE  S = Nat
<1> SUFFICES ASSUME Nat \ S # {} PROVE FALSE
  OBVIOUS
<1>1. PICK x \in Nat \ S : \A y \in Nat \ S : x <= y
  BY LeastElement
<1>2. x - 1 \in Nat \ S
  BY <1>1
<1> QED
  BY <1>1, <1>2

\* FlattenSeq joins its sequences from the left: it is the last of the parts
\* that begin with the first sequence and gain one each.
LEMMA FlattenParts ==
    ASSUME NEW S, NEW ss \in Seq(Seq(S)), ss # <<>>
    PROVE  \E f : /\ FlattenSeq(ss) = f[Len(ss)]
                  /\ f[1] = ss[1]
                  /\ \A i \in 2 .. Len(ss) : f[i] = f[i - 1] \o ss[i]
<1> DEFINE Step(f, i) == IF i = 1 THEN ss[i] ELSE f[i - 1] \o ss[i]
           Joins(n, f) == f = [i \in 1 .. n |-> Step(f, i)]
           N == {n \in Nat : \E f : Joins(n, f)}
<1>1. N = Nat
  <2>1. 0 \in N
    <3>1. Joins(0, <<>>)
      OBVIOUS
    <3> QED
      BY <3>1
  <2>2. ASSUME NEW n \in N PROVE n + 1 \in N
    <3>1. PICK f : Joins(n, f)
      OBVIOUS
    <3> DEFINE g == [i \in 1 .. n + 1 |-> IF i = n + 1 THEN Step(f, i) ELSE f[i]]
    <3>2. ASSUME NEW i \in 1 .. n + 1 PROVE g[i] = Step(g, i)
      <4>1. i # 1 => g[i - 1] = f[i - 1]
        OBVIOUS
      <4>2. i \in 1 .. n => f[i] = Step(f, i)
        BY <3>1
      <4>3. g[i] = Step(f, i)
        BY <4>2
      <4> QED
        BY <4>1, <4>3
    <3>3. Joins(n + 1, g)
      BY <3>2
    <3>4. n + 1 \in Nat
      OBVIOUS
    <3> HIDE DEF Joins
    <3> QED
      BY <3>3, <3>4
  <2> HIDE DEF N
  <2> QED
    BY <2>1, <2>2, Induct DEF N
<1>2. Len(ss) \in Nat /\ Len(ss) # 0
  BY EmptySeq
<1>3. PICK f : Joins(Len(ss), f) /\ FlattenSeq(ss) = f[Len(ss)]
  BY <1>1, <1>2 DEF FlattenSeq
<1>4. f[1] = ss[1]
  BY <1>2, <1>3
<1>5. ASSUME NEW i \in 2 .. Len(ss) PROVE f[i] = f[i - 1] \o ss[i]
  <2>1. i \in 1 .. Len(ss) /\ i # 1
    BY <1>2, <1>5
  <2>2. f[i] = Step(f, i)
    BY <1>3, <2>1
  <2> QED
    BY <2>1, <2>2
<1> QED
  BY <1>3, <1>4, <1>5
-----------------------------------------------------------------------------
(* The sheet of a latest table.                                            *)

\* The row of a quote that has its k-th bid and its k-th ask.
RowOf(d, q, bids, asks, k) ==
    [day |-> d, of |-> q,
     bid |-> IF k \in DOMAIN bids THEN bids[k] ELSE None,
     ask |-> IF k \in DOMAIN asks THEN asks[k] ELSE None]

\* The rows r hold both sides.
HoldSides(r, d, q, bids, asks) ==
    /\ r \in Seq(Row) /\ Len(r) \in Nat \ {0}
    /\ DOMAIN bids \subseteq 1 .. Len(r) /\ DOMAIN asks \subseteq 1 .. Len(r)
    /\ \A k \in 1 .. Len(r) : r[k] = RowOf(d, q, bids, asks, k)

\* The rows of a quote are enough for both of its sides, and one at least.
LEMMA RowsAre ==
    ASSUME NEW d \in Days, NEW q \in Quotes, NEW bids \in Seq(AllPrices), NEW asks \in Seq(AllPrices)
    PROVE  HoldSides(Rows(d, q, bids, asks), d, q, bids, asks)
<1> DEFINE n == RowCount(bids, asks)
           r == Rows(d, q, bids, asks)
<1>1. /\ Len(bids) \in Nat /\ DOMAIN bids = 1 .. Len(bids)
      /\ Len(asks) \in Nat /\ DOMAIN asks = 1 .. Len(asks)
  OBVIOUS
<1>2. /\ \A k \in 1 .. Len(bids) : bids[k] \in AllPrices
      /\ \A k \in 1 .. Len(asks) : asks[k] \in AllPrices
  OBVIOUS
<1>3. n \in Nat \ {0} /\ Len(bids) <= n /\ Len(asks) <= n
  BY <1>1 DEF RowCount
<1> HIDE DEF n
<1>4. ASSUME NEW k \in 1 .. n
      PROVE  RowOf(d, q, bids, asks, k) \in Row
  BY <1>1, <1>2 DEF RowOf, Row
<1>5. r = [k \in 1 .. n |-> RowOf(d, q, bids, asks, k)]
  <2>1. \A k \in 1 .. n : (k <= Len(bids) <=> k \in DOMAIN bids) /\ (k <= Len(asks) <=> k \in DOMAIN asks)
    BY <1>1, <1>3
  <2>2. r = [k \in 1 .. n |->
               [day |-> d, of |-> q,
                bid |-> IF k <= Len(bids) THEN bids[k] ELSE None,
                ask |-> IF k <= Len(asks) THEN asks[k] ELSE None]]
    BY DEF Rows, n
  <2> HIDE DEF r
  <2> QED
    BY <2>1, <2>2 DEF RowOf
<1> HIDE DEF r
<1>6. r \in Seq(Row) /\ Len(r) = n
  BY <1>3, <1>4, <1>5
<1>7. DOMAIN bids \subseteq 1 .. n /\ DOMAIN asks \subseteq 1 .. n
  BY <1>1, <1>3
<1> QED
  BY <1>3, <1>5, <1>6, <1>7 DEF r, HoldSides

\* The prices of a quote as it stands in the latest table.
BidsOf(q) == [k \in DOMAIN q.bids |-> <<q, "BID", k>>]
AsksOf(q) == [k \in DOMAIN q.asks |-> <<q, "ASK", k>>]

\* They are prices of that quote, and sequences of them.
LEMMA SidesAre ==
    ASSUME NEW q \in Quotes
    PROVE  BidsOf(q) \in Seq(AllPrices) /\ AsksOf(q) \in Seq(AllPrices)
<1>1. /\ q.bids \in Seq(Nat) /\ q.asks \in Seq(Nat)
  BY ExportAssumption
<1>2. /\ \A k \in DOMAIN q.bids : <<q, "BID", k>> \in AllPrices
      /\ \A k \in DOMAIN q.asks : <<q, "ASK", k>> \in AllPrices
  BY DEF AllPrices, Prices
<1>3. /\ Len(q.bids) \in Nat /\ DOMAIN q.bids = 1 .. Len(q.bids)
      /\ Len(q.asks) \in Nat /\ DOMAIN q.asks = 1 .. Len(q.asks)
  BY <1>1
<1> QED
  BY <1>2, <1>3 DEF BidsOf, AsksOf

\* Every one of these rows is about q.
AllOf(r, q) == \A k \in 1 .. Len(r) : r[k].of = q

\* The sheet t says of p what s says.
SaysTheSame(t, s, p) ==
    /\ RowsOf(t, p) = RowsOf(s, p)
    /\ \A k \in RowsOf(s, p) : t[k] = s[k]

\* The rows below s are about q: for every other quote the sheet is as it was.
LEMMA OtherRows ==
    ASSUME NEW s \in Seq(Row), NEW r \in Seq(Row), NEW q, AllOf(r, q),
           NEW p, p # q
    PROVE  SaysTheSame(s \o r, s, p)
<1> DEFINE t == s \o r
<1>1. /\ Len(s) \in Nat /\ Len(r) \in Nat /\ DOMAIN s = 1 .. Len(s)
      /\ DOMAIN t = 1 .. Len(s) + Len(r)
      /\ \A k \in 1 .. Len(s) + Len(r) : t[k] = IF k <= Len(s) THEN s[k] ELSE r[k - Len(s)]
  BY ConcatProperties
<1> HIDE DEF t
<1>2. \A k \in DOMAIN s : k \in DOMAIN t /\ t[k] = s[k]
  BY <1>1
<1>3. ASSUME NEW k \in DOMAIN t, k \notin DOMAIN s PROVE t[k].of = q
  <2>1. k - Len(s) \in 1 .. Len(r) /\ t[k] = r[k - Len(s)]
    BY <1>1, <1>3
  <2> QED
    BY <2>1 DEF AllOf
<1> QED
  BY <1>2, <1>3 DEF RowsOf, SaysTheSame, t

\* The rows below s are the ones about q, when s has none.
LEMMA OwnRows ==
    ASSUME NEW s \in Seq(Row), NEW r \in Seq(Row), NEW q, AllOf(r, q),
           RowsOf(s, q) = {}
    PROVE  /\ RowsOf(s \o r, q) = {Len(s) + k : k \in 1 .. Len(r)}
           /\ \A k \in 1 .. Len(r) : (s \o r)[Len(s) + k] = r[k]
<1> DEFINE t == s \o r
<1>1. /\ Len(s) \in Nat /\ Len(r) \in Nat /\ DOMAIN s = 1 .. Len(s)
      /\ DOMAIN t = 1 .. Len(s) + Len(r)
      /\ \A k \in 1 .. Len(s) + Len(r) : t[k] = IF k <= Len(s) THEN s[k] ELSE r[k - Len(s)]
  BY ConcatProperties
<1> HIDE DEF t
<1>2. ASSUME NEW k \in 1 .. Len(r)
      PROVE  Len(s) + k \in DOMAIN t /\ t[Len(s) + k] = r[k]
  <2>1. Len(s) + k \in 1 .. Len(s) + Len(r) /\ ~(Len(s) + k <= Len(s)) /\ (Len(s) + k) - Len(s) = k
    BY <1>1
  <2> QED
    BY <1>1, <2>1
<1>3. ASSUME NEW k \in RowsOf(t, q) PROVE \E j \in 1 .. Len(r) : k = Len(s) + j
  <2>1. k \in 1 .. Len(s) + Len(r) /\ t[k].of = q
    BY <1>1 DEF RowsOf
  <2>2. k \notin 1 .. Len(s)
    <3>1. k \in 1 .. Len(s) => t[k] = s[k]
      BY <1>1, <2>1
    <3> QED
      BY <1>1, <2>1, <3>1 DEF RowsOf
  <2>3. k - Len(s) \in 1 .. Len(r) /\ k = Len(s) + (k - Len(s))
    BY <1>1, <2>1, <2>2
  <2> QED
    BY <2>3
<1>4. ASSUME NEW k \in 1 .. Len(r) PROVE Len(s) + k \in RowsOf(t, q)
  BY <1>2 DEF RowsOf, AllOf
<1> QED
  BY <1>2, <1>3, <1>4 DEF t

\* The rows of a quote of the latest table.
LEMMA QuoteRowsAre ==
    ASSUME NEW d \in Days, NEW q \in Quotes, NEW r, r = QuoteRows(d, q)
    PROVE  /\ r \in Seq(Row) /\ Len(r) \in Nat \ {0}
           /\ DOMAIN q.bids \subseteq 1 .. Len(r) /\ DOMAIN q.asks \subseteq 1 .. Len(r)
           /\ \A k \in 1 .. Len(r) :
                /\ r[k].day = d /\ r[k].of = q
                /\ r[k].bid = IF k \in DOMAIN q.bids THEN <<q, "BID", k>> ELSE None
                /\ r[k].ask = IF k \in DOMAIN q.asks THEN <<q, "ASK", k>> ELSE None
<1>1. HoldSides(r, d, q, BidsOf(q), AsksOf(q))
  BY SidesAre, RowsAre DEF QuoteRows, BidsOf, AsksOf
<1>2. DOMAIN BidsOf(q) = DOMAIN q.bids /\ \A k \in DOMAIN q.bids : BidsOf(q)[k] = <<q, "BID", k>>
  BY DEF BidsOf
<1>3. DOMAIN AsksOf(q) = DOMAIN q.asks /\ \A k \in DOMAIN q.asks : AsksOf(q)[k] = <<q, "ASK", k>>
  BY DEF AsksOf
<1>4. ASSUME NEW k \in 1 .. Len(r)
      PROVE  /\ r[k].day = d /\ r[k].of = q
             /\ r[k].bid = IF k \in DOMAIN q.bids THEN <<q, "BID", k>> ELSE None
             /\ r[k].ask = IF k \in DOMAIN q.asks THEN <<q, "ASK", k>> ELSE None
  <2>1. r[k] = RowOf(d, q, BidsOf(q), AsksOf(q), k)
    BY <1>1 DEF HoldSides
  <2> QED
    BY <1>2, <1>3, <2>1 DEF RowOf
<1> QED
  BY <1>1, <1>2, <1>3, <1>4 DEF HoldSides

\* The rows of one more quote below those of a sheet.
LEMMA ShowsOneMore ==
    ASSUME NEW d \in Days, NEW s \in Seq(Row), NEW Q, Shows(s, d, Q), NEW q \in Quotes, q \notin Q,
           NEW r, r = QuoteRows(d, q)
    PROVE  s \o r \in Seq(Row) /\ Shows(s \o r, d, Q \cup {q})
<1> DEFINE t == s \o r
<1>1. /\ r \in Seq(Row) /\ Len(r) \in Nat \ {0}
      /\ DOMAIN q.bids \subseteq 1 .. Len(r) /\ DOMAIN q.asks \subseteq 1 .. Len(r)
  BY QuoteRowsAre
<1>2. \A k \in 1 .. Len(r) :
        /\ r[k].day = d /\ r[k].of = q
        /\ r[k].bid = IF k \in DOMAIN q.bids THEN <<q, "BID", k>> ELSE None
        /\ r[k].ask = IF k \in DOMAIN q.asks THEN <<q, "ASK", k>> ELSE None
  BY QuoteRowsAre
<1>3. t \in Seq(Row) /\ Range(t) = Range(s) \cup Range(r) /\ Len(t) = Len(s) + Len(r) /\ Len(s) \in Nat
  <2>1. Range(t) = Range(s) \cup Range(r)
    BY <1>1, RangeConcatenation
  <2>2. t \in Seq(Row) /\ Len(t) = Len(s) + Len(r)
    BY <1>1, ConcatProperties
  <2> QED
    BY <2>1, <2>2
<1>4. RowsOf(s, q) = {} /\ AllOf(r, q)
  BY <1>2 DEF Shows, RowsOf, Range, AllOf
<1>5. /\ RowsOf(t, q) = {Len(s) + k : k \in 1 .. Len(r)}
      /\ \A k \in 1 .. Len(r) : t[Len(s) + k] = r[k]
  BY <1>1, <1>4, OwnRows
<1>6. ASSUME NEW p \in Q PROVE SaysTheSame(t, s, p)
  <2>1. p # q /\ AllOf(r, q) /\ r \in Seq(Row)
    BY <1>1, <1>4
  <2> QED
    BY <2>1, OtherRows
<1> HIDE DEF t
<1>7. ShowsInOrder(t, q)
  <2>1. Len(s) \in 0 .. Len(t)
    BY <1>3
  <2>2. ASSUME NEW k \in DOMAIN q.bids \cup DOMAIN q.asks PROVE Len(s) + k \in RowsOf(t, q)
    BY <1>1, <1>5
  <2>3. ASSUME NEW k \in RowsOf(t, q)
        PROVE  /\ t[k].bid = IF k - Len(s) \in DOMAIN q.bids THEN <<q, "BID", k - Len(s)>> ELSE None
               /\ t[k].ask = IF k - Len(s) \in DOMAIN q.asks THEN <<q, "ASK", k - Len(s)>> ELSE None
    <3>1. PICK j \in 1 .. Len(r) : k = Len(s) + j
      BY <1>5
    <3>2. k - Len(s) = j /\ t[k] = r[j]
      BY <1>3, <1>5, <3>1
    <3> QED
      BY <1>2, <3>2
  <2> QED
    BY <2>1, <2>2, <2>3 DEF ShowsInOrder
<1>8. ASSUME NEW p \in Q PROVE ShowsInOrder(t, p)
  <2>1. PICK at \in 0 .. Len(s) :
          /\ \A k \in DOMAIN p.bids \cup DOMAIN p.asks : at + k \in RowsOf(s, p)
          /\ \A k \in RowsOf(s, p) :
              /\ s[k].bid = IF k - at \in DOMAIN p.bids THEN <<p, "BID", k - at>> ELSE None
              /\ s[k].ask = IF k - at \in DOMAIN p.asks THEN <<p, "ASK", k - at>> ELSE None
    BY DEF Shows, ShowsInOrder
  <2>2. at \in 0 .. Len(t)
    BY <1>3, <2>1
  <2> QED
    BY <1>6, <2>1, <2>2 DEF ShowsInOrder, SaysTheSame
<1>9. {x.of : x \in Range(r)} = {q} /\ \A x \in Range(r) : x.day = d
  <2>1. DOMAIN r = 1 .. Len(r) /\ 1 \in 1 .. Len(r)
    BY <1>1
  <2>2. ASSUME NEW x \in Range(r) PROVE x.of = q /\ x.day = d
    <3>1. PICK k \in 1 .. Len(r) : x = r[k]
      BY <2>1 DEF Range
    <3>2. r[k].day = d /\ r[k].of = q
      BY <1>2
    <3> QED
      BY <3>1, <3>2
  <2>3. r[1] \in Range(r)
    BY <2>1 DEF Range
  <2> QED
    BY <2>2, <2>3
<1>10. {x.of : x \in Range(t)} = Q \cup {q} /\ \A x \in Range(t) : x.day = d
  BY <1>3, <1>9 DEF Shows
<1> QED
  BY <1>3, <1>7, <1>8, <1>10 DEF Shows, t

\* An empty sheet shows nothing.
LEMMA ShowsNothing == ASSUME NEW d PROVE <<>> \in Seq(Row) /\ Shows(<<>>, d, {})
BY DEF Shows, Range

\* An enumeration of a finite set meets each of its elements once.
LEMMA EnumerationIs ==
    ASSUME NEW T, IsFiniteSet(T), NEW f \in SetToSeqs(T)
    PROVE  /\ f \in Seq(T) /\ Len(f) \in Nat
           /\ Range(f) = T
           /\ \A i, j \in 1 .. Len(f) : i # j => f[i] # f[j]
<1> DEFINE n == Cardinality(T)
<1>1. n \in Nat
  BY FS_CardinalityType
<1>2. f \in [1 .. n -> T] /\ \A i, j \in 1 .. n : i # j => f[i] # f[j]
  BY DEF SetToSeqs
<1>3. f \in Injection(1 .. n, T)
  BY <1>2 DEF Injection, IsInjective
<1>4. Cardinality(1 .. n) = n
  BY <1>1, FS_Interval
<1> HIDE DEF n
<1>5. f \in Surjection(1 .. n, T)
  BY <1>3, <1>4, FS_Injection DEF n
<1>6. f \in Seq(T) /\ Len(f) = n
  BY <1>1, <1>2
<1>7. Range(f) = T
  BY <1>2, <1>5 DEF Surjection, Range
<1> QED
  BY <1>1, <1>2, <1>6, <1>7

\* Find returns the quotes of a latest table in some order, and the sheet made
\* of them shows the table, whatever the order.
LEMMA SheetShows ==
    ASSUME NEW d \in Days, latest[d] \subseteq Quotes, IsFiniteSet(latest[d]), NEW s \in LatestSheets(d)
    PROVE  s \in Seq(Row) /\ Shows(s, d, latest[d])
<1>1. PICK f \in SetToSeqs(latest[d]) : s = FlattenSeq([k \in DOMAIN f |-> QuoteRows(d, f[k])])
  BY DEF LatestSheets
<1> DEFINE ss == [k \in DOMAIN f |-> QuoteRows(d, f[k])]
<1>2. /\ f \in Seq(latest[d]) /\ Len(f) \in Nat /\ DOMAIN f = 1 .. Len(f)
      /\ Range(f) = latest[d]
      /\ \A i, j \in 1 .. Len(f) : i # j => f[i] # f[j]
  <2>1. f \in Seq(latest[d]) /\ Len(f) \in Nat /\ Range(f) = latest[d]
        /\ \A i, j \in 1 .. Len(f) : i # j => f[i] # f[j]
    BY EnumerationIs
  <2> QED
    BY <2>1
<1>3. \A k \in 1 .. Len(f) : f[k] \in Quotes /\ QuoteRows(d, f[k]) \in Seq(Row)
  <2> SUFFICES ASSUME NEW k \in 1 .. Len(f) PROVE f[k] \in Quotes /\ QuoteRows(d, f[k]) \in Seq(Row)
    OBVIOUS
  <2>1. f[k] \in Quotes
    BY <1>2
  <2> QED
    BY <2>1, QuoteRowsAre
<1>4. ss \in Seq(Seq(Row)) /\ Len(ss) = Len(f) /\ \A k \in 1 .. Len(f) : ss[k] = QuoteRows(d, f[k])
  BY <1>2, <1>3
<1>5. CASE Len(f) = 0
  <2>1. latest[d] = {} /\ ss = <<>>
    BY <1>2, <1>4, <1>5 DEF Range
  <2>2. s = <<>>
    BY <1>1, <2>1 DEF FlattenSeq
  <2> QED
    BY <2>1, <2>2, ShowsNothing
<1>6. CASE Len(f) # 0
  <2> HIDE DEF ss
  <2>1. PICK g : /\ s = g[Len(f)] /\ g[1] = ss[1]
                 /\ \A i \in 2 .. Len(f) : g[i] = g[i - 1] \o ss[i]
    <3>1. ss # <<>>
      BY <1>4, <1>6
    <3>2. s = FlattenSeq(ss)
      BY <1>1 DEF ss
    <3>3. \E g : /\ FlattenSeq(ss) = g[Len(ss)] /\ g[1] = ss[1]
                  /\ \A i \in 2 .. Len(ss) : g[i] = g[i - 1] \o ss[i]
      BY <1>4, <3>1, FlattenParts
    <3> QED
      BY <1>4, <3>2, <3>3
  <2> DEFINE Seen(k) == {f[i] : i \in 1 .. k}
             Laid(k) == g[k] \in Seq(Row) /\ Shows(g[k], d, Seen(k))
             N == {n \in Nat : n + 1 \in 1 .. Len(f) => Laid(n + 1)}
  <2>2. 0 \in N
    <3>1. 1 \in 1 .. Len(f) /\ f[1] \in Quotes /\ g[1] = QuoteRows(d, f[1])
      BY <1>2, <1>3, <1>4, <1>6, <2>1
    <3>2. <<>> \o g[1] \in Seq(Row) /\ Shows(<<>> \o g[1], d, {} \cup {f[1]})
      BY <3>1, ShowsNothing, ShowsOneMore
    <3>3. <<>> \o g[1] = g[1]
      BY <1>3, <3>1, ConcatEmptySeq
    <3>4. Seen(1) = {} \cup {f[1]}
      OBVIOUS
    <3>5. Laid(1)
      BY <3>2, <3>3, <3>4
    <3> HIDE DEF Laid
    <3> QED
      BY <3>5
  <2>3. ASSUME NEW n \in N PROVE n + 1 \in N
    <3> SUFFICES ASSUME (n + 1) + 1 \in 1 .. Len(f) PROVE Laid((n + 1) + 1)
      OBVIOUS
    <3> DEFINE k == n + 1
    <3>1. k \in 1 .. Len(f) /\ k + 1 \in 2 .. Len(f) /\ (k + 1) - 1 = k /\ k + 1 \in 1 .. Len(f)
      BY <1>2
    <3>2. Laid(k)
      BY <3>1
    <3>3. f[k + 1] \in Quotes /\ f[k + 1] \notin Seen(k)
      BY <1>2, <1>3, <3>1
    <3>4. g[k + 1] = g[k] \o QuoteRows(d, f[k + 1])
      BY <1>4, <2>1, <3>1
    <3>5. Seen(k + 1) = Seen(k) \cup {f[k + 1]}
      BY <3>1
    <3> HIDE DEF k, Seen
    <3>6. g[k] \in Seq(Row) /\ Shows(g[k], d, Seen(k))
      BY <3>2
    <3> HIDE DEF Laid
    <3>7. ASSUME NEW x, x = g[k], NEW Q, Q = Seen(k), NEW q \in Quotes, q \notin Q, NEW r, r = QuoteRows(d, q)
          PROVE  x \o r \in Seq(Row) /\ Shows(x \o r, d, Q \cup {q})
      BY <3>6, <3>7, ShowsOneMore
    <3>8. /\ g[k] \o QuoteRows(d, f[k + 1]) \in Seq(Row)
          /\ Shows(g[k] \o QuoteRows(d, f[k + 1]), d, Seen(k) \cup {f[k + 1]})
      BY <3>3, <3>7
    <3>9. g[k + 1] \in Seq(Row) /\ Shows(g[k + 1], d, Seen(k) \cup {f[k + 1]})
      BY <3>4, <3>8
    <3> QED
      BY <3>5, <3>9 DEF k, Laid
  <2>4. N = Nat
    <3> HIDE DEF N
    <3>1. N \in SUBSET Nat
      BY DEF N
    <3> QED
      BY <2>2, <2>3, <3>1, Induct
  <2>5. Laid(Len(f))
    <3>1. Len(f) - 1 \in Nat /\ (Len(f) - 1) + 1 = Len(f) /\ Len(f) \in 1 .. Len(f)
      BY <1>2, <1>6
    <3> HIDE DEF Laid
    <3>2. (Len(f) - 1) \in N
      BY <2>4, <3>1
    <3> QED
      BY <3>1, <3>2
  <2>6. Seen(Len(f)) = latest[d]
    BY <1>2 DEF Range
  <2> QED
    BY <2>1, <2>5, <2>6
<1> QED
  BY <1>5, <1>6
-----------------------------------------------------------------------------
(* What is stored, and what is read from it.                               *)

\* A transaction stores all the prices of a message: a detail table has a
\* message with every price or not at all.
Whole(ps) ==
    \A p \in ps : /\ p[1] \in Quotes /\ p \in Prices(p[1])
                  /\ Prices(p[1]) \subseteq ps

\* The tables are finite, and the messages of a detail table are whole.
StoredOK ==
    \A d \in Days : /\ IsFiniteSet(latest[d]) /\ IsFiniteSet(details[d])
                    /\ Whole(details[d])

\* A message has finitely many prices, and the first part of each is the
\* message.
LEMMA PricesFinite ==
    ASSUME NEW q \in Quotes
    PROVE  /\ IsFiniteSet(Prices(q)) /\ \A p \in Prices(q) : p[1] = q
           /\ Whole(Prices(q))
<1>1. q.bids \in Seq(Nat) /\ q.asks \in Seq(Nat)
  BY ExportAssumption
<1> DEFINE n == Len(q.asks)
           m == Len(q.bids)
           A == {<<q, "ASK", k>> : k \in 1 .. n}
           B == {<<q, "BID", k>> : k \in 1 .. m}
<1>2. n \in Nat /\ m \in Nat /\ DOMAIN q.asks = 1 .. n /\ DOMAIN q.bids = 1 .. m
  BY <1>1
<1> HIDE DEF n, m
<1>3. IsFiniteSet(1 .. n) /\ IsFiniteSet(1 .. m)
  BY <1>2, FS_Interval
<1>4. [k \in 1 .. n |-> <<q, "ASK", k>>] \in Surjection(1 .. n, A)
  BY DEF Surjection
<1>5. [k \in 1 .. m |-> <<q, "BID", k>>] \in Surjection(1 .. m, B)
  BY DEF Surjection
<1>6. IsFiniteSet(A) /\ IsFiniteSet(B)
  <2> HIDE DEF A, B
  <2> QED
    BY <1>3, <1>4, <1>5, FS_Surjection
<1>7. Prices(q) = A \cup B
  BY <1>2 DEF Prices
<1>8. IsFiniteSet(A \cup B)
  <2> HIDE DEF A, B
  <2> QED
    BY <1>6, FS_Union
<1>9. \A p \in Prices(q) : p[1] = q
  BY DEF Prices
<1> QED
  BY <1>7, <1>8, <1>9 DEF Whole

\* A transaction adds a whole message and one quote.
LEMMA CommitStores ==
    ASSUME TablesOK, StoredOK, NEW i \in Isins, Commit(i)
    PROVE  StoredOK' /\ \A d \in Days : details[d] \subseteq details'[d]
<1> DEFINE q == batch[i].quote
           d == batch[i].detail
           e == batch[i].latest
<1>1. /\ q \in Quotes /\ d \in Days /\ e \in Days
      /\ details' = [details EXCEPT ![d] = @ \cup Prices(q)]
      /\ latest' = [latest EXCEPT ![e] = Upsert(@, q)]
  <2>1. batch[i].pc = "ready" /\ day \in Days /\ BatchOK(i)
    BY DEF Commit, TablesOK
  <2> QED
    BY <2>1, ExportAssumption DEF Commit, BatchOK, Days
<1> HIDE DEF q, d, e
<1>2. details \in [Days -> SUBSET AllPrices] /\ latest \in [Days -> SUBSET Quotes]
  BY DEF TablesOK
<1>3. IsFiniteSet(Upsert(latest[e], q))
  <2> DEFINE others == {r \in latest[e] : r.isin # q.isin}
  <2>1. IsFiniteSet(latest[e]) /\ others \subseteq latest[e]
    BY <1>1 DEF StoredOK
  <2>2. Upsert(latest[e], q) = others \cup {q}
    BY DEF Upsert
  <2> HIDE DEF others
  <2>3. IsFiniteSet(others)
    BY <2>1, FS_Subset
  <2> QED
    BY <2>2, <2>3, FS_AddElement
<1>4. IsFiniteSet(details[d] \cup Prices(q)) /\ Whole(details[d] \cup Prices(q))
  <2>1. IsFiniteSet(details[d]) /\ Whole(details[d])
    BY <1>1 DEF StoredOK
  <2>2. IsFiniteSet(Prices(q)) /\ Whole(Prices(q))
    BY <1>1, PricesFinite
  <2>3. IsFiniteSet(details[d] \cup Prices(q))
    BY <2>1, <2>2, FS_Union
  <2>4. Whole(details[d] \cup Prices(q))
    BY <2>1, <2>2 DEF Whole
  <2> QED
    BY <2>3, <2>4
<1>5. ASSUME NEW c \in Days
      PROVE  /\ details[c] \subseteq details'[c]
             /\ IsFiniteSet(latest'[c]) /\ IsFiniteSet(details'[c]) /\ Whole(details'[c])
  <2>1. details'[c] = IF c = d THEN details[d] \cup Prices(q) ELSE details[c]
    BY <1>1, <1>2
  <2>2. latest'[c] = IF c = e THEN Upsert(latest[e], q) ELSE latest[c]
    BY <1>1, <1>2
  <2>3. IsFiniteSet(latest[c]) /\ IsFiniteSet(details[c]) /\ Whole(details[c])
    BY DEF StoredOK
  <2> QED
    BY <1>3, <1>4, <2>1, <2>2, <2>3
<1> QED
  BY <1>5 DEF StoredOK

\* Every step keeps the messages whole, and takes no price away.
LEMMA StoredStep ==
    ASSUME TablesOK, StoredOK, [Next]_vars
    PROVE  StoredOK' /\ \A d \in Days : details[d] \subseteq details'[d]
<1>1. CASE UNCHANGED <<details, latest>>
  BY <1>1 DEF StoredOK
<1>2. ASSUME NEW i \in Isins, Insert(i), ~ Commit(i) PROVE UNCHANGED <<details, latest>>
  BY <1>2 DEF Insert, NameDetail, NameLatest, Rollback
<1>3. UNCHANGED vars \/ Tomorrow \/ (\E d \in Days : CreateTables(d)) => UNCHANGED <<details, latest>>
  BY DEF vars, Tomorrow, CreateTables
<1>4. Export \/ Query => UNCHANGED <<details, latest>>
  BY ReadersRead DEF Reads
<1>5. (\E i \in Isins : Commit(i)) \/ UNCHANGED <<details, latest>>
  BY <1>2, <1>3, <1>4 DEF Next
<1> QED
  BY <1>1, <1>5, CommitStores

\* The tables are finite and their messages whole.
LEMMA Stored == Spec => []StoredOK
<1>1. Init => StoredOK
  BY FS_EmptySet DEF Init, StoredOK, Whole
<1>2. TablesOK /\ StoredOK /\ [Next]_vars => StoredOK'
  BY StoredStep
<1> QED
  BY <1>1, <1>2, TablesCorrect, PTL DEF Spec
-----------------------------------------------------------------------------
(* The periodic export.                                                    *)

\* The export is at one of its steps, and its sheet is made of rows.
ExportOK == ExportRuns /\ export.sheet \in Seq(Row)

\* Find lays out the table it names as it stands.
LEMMA FindShows ==
    ASSUME TablesOK, StoredOK, ExportOK, Find
    PROVE  /\ export' = [export EXCEPT !.pc = "laid out", !.sheet = export'.sheet]
           /\ export'.sheet \in Seq(Row)
           /\ Shows(export'.sheet, export.table, latest[export.table])
<1>1. PICK s \in LatestSheets(export.table) :
        export' = [export EXCEPT !.pc = "laid out", !.sheet = s]
  BY DEF Find, ExportStep
<1>2. export'.sheet = s
  BY <1>1 DEF ExportOK, ExportRuns
<1>3. export.table \in Days
  BY DEF Find, TablesOK
<1>4. latest[export.table] \subseteq Quotes /\ IsFiniteSet(latest[export.table])
  BY <1>3 DEF TablesOK, StoredOK
<1>5. s \in Seq(Row) /\ Shows(s, export.table, latest[export.table])
  BY <1>3, <1>4, SheetShows
<1> QED
  BY <1>1, <1>2, <1>5

\* The other steps of the export leave the sheet or drop it, and none of them
\* lays one out.
LEMMA OtherExportSteps ==
    ASSUME ExportOK, Tick \/ Save \/ Upload \/ Send \/ RemoveFile \/ ExportFails
    PROVE  export'.pc # "laid out" /\ export'.sheet \in {export.sheet, <<>>}
<1>1. CASE Upload \/ Send
  BY <1>1 DEF ExportOK, ExportRuns, Upload, Send, ExportStep
<1>2. CASE Tick \/ Save
  BY <1>2 DEF Tick, Save, ExportStep, NoExport
<1>3. CASE RemoveFile \/ ExportFails
  <2>1. export' = NoExport
    BY <1>3 DEF RemoveFile, ExportFails, ExportStep
  <2> QED
    BY <2>1 DEF NoExport
<1> QED
  BY <1>1, <1>2, <1>3

\* The export stays at one of its steps, and what it lays out is the table.
LEMMA ExportStays ==
    ASSUME TablesOK, StoredOK, ExportOK, [Next]_vars
    PROVE  /\ ExportOK'
           /\ [export.pc = "table" /\ export'.pc = "laid out"
                 => Shows(export'.sheet, export.table, latest[export.table])]_export
<1>1. ExportRuns'
  BY ExportGoesOn DEF ExportOK
<1>2. CASE Find
  BY <1>1, <1>2, FindShows DEF ExportOK
<1>3. CASE Tick \/ Save \/ Upload \/ Send \/ RemoveFile \/ ExportFails
  <2>1. export'.pc # "laid out" /\ export'.sheet \in {export.sheet, <<>>}
    BY <1>3, OtherExportSteps
  <2>2. <<>> \in Seq(Row) /\ export.sheet \in Seq(Row)
    BY DEF ExportOK
  <2> QED
    BY <1>1, <2>1, <2>2 DEF ExportOK
<1>4. CASE UNCHANGED export
  BY <1>1, <1>4 DEF ExportOK
<1>5. ASSUME NEW i \in Isins, Insert(i) PROVE UNCHANGED export
  BY <1>5 DEF Insert, NameDetail, NameLatest, Commit, Rollback
<1>6. Query => UNCHANGED export
  BY DEF Query, AskDailyEnd, NextDay, DailyEndReplies, AskTimeRange, NextGroup,
     TimeRangeReplies, CurrentLatest, QueryFails, Answered, QueryStep
<1>7. UNCHANGED vars \/ Tomorrow \/ (\E d \in Days : CreateTables(d)) => UNCHANGED export
  BY DEF vars, Tomorrow, CreateTables
<1> QED
  BY <1>2, <1>3, <1>4, <1>5, <1>6, <1>7 DEF Next, Export

\* No export holds anything but rows.
LEMMA ExportsHoldRows == Spec => []ExportOK
<1>1. Init => ExportOK
  BY DEF Init, NoExport, ExportOK, ExportRuns
<1>2. TablesOK /\ StoredOK /\ ExportOK /\ [Next]_vars => ExportOK'
  BY ExportStays
<1> QED
  BY <1>1, <1>2, TablesCorrect, Stored, PTL DEF Spec

\* Whatever the database returns its records in, and whoever writes meanwhile,
\* the sheet of the periodic export is the latest table it has named: every
\* quote with each price in its row and in the column of its side.
THEOREM ExportsShowTheTable == Spec => ExportShowsTable
<1>1. TablesOK /\ StoredOK /\ ExportOK /\ [Next]_vars
        => [export.pc = "table" /\ export'.pc = "laid out"
              => Shows(export'.sheet, export.table, latest[export.table])]_export
  BY ExportStays
<1> QED
  BY <1>1, TablesCorrect, Stored, ExportsHoldRows, PTL DEF Spec, ExportShowsTable
-----------------------------------------------------------------------------
(* A request.                                                              *)

\* The request is at one of its steps, and its sheet is made of rows.
QueryRuns ==
    /\ query \in [pc : {"idle", "days", "groups", "replied"},
                  kind : {None, "daily-end", "time-range"}, from : Nat, to : Nat,
                  day : Nat, groups : Seq(Quotes), sheet : Seq(Row), status : {0, 200, 500}]
    /\ query.pc = "days" => query.kind = "daily-end"

\* A message that a request y is about: it is stored, in ps, with all its
\* prices, and one of them is in the range.
AskedFor(q, y, ps) ==
    /\ q \in Quotes /\ Prices(q) \subseteq ps
    /\ \E p \in Prices(q) : Hour(p) - Zone - y.day * HoursPerDay \in y.from .. y.to

\* The sheet shows such messages, once, and its groups are ones it lacks.
ShownAndToShow(y, ps) ==
    /\ \A k \in 1 .. Len(y.groups) : AskedFor(y.groups[k], y, ps) /\ RowsOf(y.sheet, y.groups[k]) = {}
    /\ \A j, k \in 1 .. Len(y.groups) : j # k => y.groups[j] # y.groups[k]
    /\ \A k \in 1 .. Len(y.sheet) :
        AskedFor(y.sheet[k].of, y, ps) /\ ShowsOnce(y.sheet, y.sheet[k].of)

\* A request for a range of hours is showing messages, or has shown them.
ShowsMessages ==
    query.pc = "groups" \/ (query.kind = "time-range" /\ query.pc = "replied" /\ query.status = 200)
        => query.day \in Days /\ ShownAndToShow(query, details[query.day])

\* What is below a sheet leaves it a prefix and can be cut off again.
LEMMA BelowSheet ==
    ASSUME NEW s \in Seq(Row), NEW t \in Seq(Row)
    PROVE  /\ s \o t \in Seq(Row) /\ IsPrefix(s, s \o t)
           /\ SubSeq(s \o t, Len(s) + 1, Len(s \o t)) = t
<1> DEFINE u == s \o t
<1>1. /\ Len(s) \in Nat /\ Len(t) \in Nat /\ u \in Seq(Row) /\ Len(u) = Len(s) + Len(t)
      /\ DOMAIN t = 1 .. Len(t)
      /\ \A i \in 1 .. Len(s) + Len(t) : u[i] = IF i <= Len(s) THEN s[i] ELSE t[i - Len(s)]
  BY ConcatProperties
<1>2. IsPrefix(s, u)
  <2>1. SubSeq(s, 1, Len(s)) = SubSeq(u, 1, Len(s))
    <3>1. CASE Len(s) = 0
      BY <1>1, <3>1, SubSeqEmpty
    <3>2. CASE Len(s) # 0
      BY <1>1, <3>2, SubSeqOfConcat1
    <3> QED
      BY <3>1, <3>2
  <2> QED
    BY <1>1, <2>1 DEF IsPrefix
<1>3. SubSeq(u, Len(s) + 1, Len(u)) = t
  <2>1. CASE Len(t) = 0
    <3>1. t = <<>> /\ Len(u) < Len(s) + 1 /\ Len(u) \in Int /\ Len(s) + 1 \in Int
      BY <1>1, <2>1, EmptySeq
    <3> QED
      BY <3>1, SubSeqEmpty
  <2>2. CASE Len(t) # 0
    <3>1. SubSeq(u, Len(s) + 1, Len(u)) = SubSeq(t, 1, Len(t))
      <4>1. /\ Len(s) + 1 \in Len(s) + 1 .. Len(s) + Len(t)
            /\ Len(s) + Len(t) \in Len(s) + 1 .. Len(s) + Len(t)
            /\ (Len(s) + 1) - Len(s) = 1 /\ (Len(s) + Len(t)) - Len(s) = Len(t)
        BY <1>1, <2>2
      <4> QED
        BY <1>1, <4>1, SubSeqOfConcat2
    <3> QED
      BY <3>1, SubSeqFull
  <2> QED
    BY <2>1, <2>2
<1> QED
  BY <1>1, <1>2, <1>3

\* What a day of the range adds to the sheet.
AddsDay ==
    \/ query'.sheet = query.sheet
    \/ /\ <<"latest", query.day>> \in tables
       /\ IsPrefix(query.sheet, query'.sheet)
       /\ Shows(SubSeq(query'.sheet, Len(query.sheet) + 1, Len(query'.sheet)),
                query.day, latest[query.day])

\* A day of the range is laid out as it stands, below the days before it, or
\* skipped.
LEMMA DayShows ==
    ASSUME TablesOK, StoredOK, QueryRuns, NextDay
    PROVE  QueryRuns' /\ query'.pc = "days" /\ AddsDay
<1>1. query.pc = "days" /\ query.kind = "daily-end" /\ query.sheet \in Seq(Row) /\ query.day \in Nat
  BY DEF NextDay, QueryRuns
<1>2. CASE /\ <<"latest", query.day>> \in tables
           /\ \E s \in LatestSheets(query.day) :
                query' = [query EXCEPT !.day = @ + 1, !.sheet = @ \o s]
  <2>1. PICK s \in LatestSheets(query.day) : query' = [query EXCEPT !.day = @ + 1, !.sheet = @ \o s]
    BY <1>2
  <2>2. query.day \in Days
    BY <1>2 DEF TablesOK
  <2>3. latest[query.day] \subseteq Quotes /\ IsFiniteSet(latest[query.day])
    BY <2>2 DEF TablesOK, StoredOK
  <2>4. s \in Seq(Row) /\ Shows(s, query.day, latest[query.day])
    BY <2>2, <2>3, SheetShows
  <2>5. /\ query.sheet \o s \in Seq(Row) /\ IsPrefix(query.sheet, query.sheet \o s)
        /\ SubSeq(query.sheet \o s, Len(query.sheet) + 1, Len(query.sheet \o s)) = s
    BY <1>1, <2>4, BelowSheet
  <2>6. query'.sheet = query.sheet \o s /\ query'.pc = "days"
    BY <1>1, <2>1 DEF QueryRuns
  <2>7. QueryRuns'
    <3>1. PICK u \in Seq(Row) : u = query.sheet \o s
      BY <2>5
    <3>2. query' = [query EXCEPT !.day = query.day + 1, !.sheet = u]
      BY <2>1, <3>1
    <3>3. query' = [pc |-> query.pc, kind |-> query.kind, from |-> query.from, to |-> query.to,
                    day |-> query.day + 1, groups |-> query.groups, sheet |-> u,
                    status |-> query.status]
      BY <3>2 DEF QueryRuns
    <3>4. /\ query.from \in Nat /\ query.to \in Nat /\ query.groups \in Seq(Quotes)
          /\ query.status \in {0, 200, 500}
      BY DEF QueryRuns
    <3> QED
      BY <1>1, <3>3, <3>4 DEF QueryRuns
  <2>8. AddsDay
    BY <1>2, <2>4, <2>5, <2>6 DEF AddsDay
  <2> QED
    BY <2>6, <2>7, <2>8
<1>3. CASE query' = [query EXCEPT !.day = @ + 1]
  <2>1. query'.sheet = query.sheet /\ query'.pc = "days"
    BY <1>1, <1>3 DEF QueryRuns
  <2>2. QueryRuns'
    BY <1>1, <1>3 DEF QueryRuns
  <2> QED
    BY <2>1, <2>2 DEF AddsDay
<1> QED
  BY <1>2, <1>3 DEF NextDay, QueryStep

\* What stays stored stays asked for.
LEMMA AskedForMore ==
    ASSUME NEW y, NEW z, z.day = y.day, z.from = y.from, z.to = y.to,
           NEW ps, NEW qs, ps \subseteq qs, NEW q, AskedFor(q, y, ps)
    PROVE  AskedFor(q, z, qs)
BY DEF AskedFor

\* A sheet that says the same of a quote shows it once, if the other did.
LEMMA OnceStays ==
    ASSUME NEW s, NEW t, NEW p, SaysTheSame(t, s, p), ShowsOnce(s, p)
    PROVE  ShowsOnce(t, p)
BY DEF SaysTheSame, ShowsOnce

\* The prices of the message g among those of a detail table are all of them.
LEMMA GroupIsWhole ==
    ASSUME NEW ps, Whole(ps), NEW g \in Quotes, Prices(g) \subseteq ps
    PROVE  {p \in ps : p[1] = g} = Prices(g)
BY PricesFinite DEF Whole

\* The database gives the prices of a side in some order, each once, and none
\* of them is a blank.
LEMMA SideIs ==
    ASSUME NEW q \in Quotes, NEW side \in {"BID", "ASK"}, NEW f \in SetToSeqs(Side(Prices(q), side))
    PROVE  /\ f \in Seq(AllPrices) /\ Len(f) \in Nat /\ DOMAIN f = 1 .. Len(f)
           /\ {f[k] : k \in DOMAIN f} = Side(Prices(q), side)
           /\ \A i, j \in DOMAIN f : i # j => f[i] # f[j]
           /\ None \notin Prices(q)
<1>1. IsFiniteSet(Side(Prices(q), side))
  <2>1. IsFiniteSet(Prices(q)) /\ Side(Prices(q), side) \subseteq Prices(q)
    BY PricesFinite DEF Side
  <2> QED
    BY <2>1, FS_Subset
<1>2. /\ f \in Seq(Side(Prices(q), side)) /\ Len(f) \in Nat
      /\ Range(f) = Side(Prices(q), side)
      /\ \A i, j \in 1 .. Len(f) : i # j => f[i] # f[j]
  BY <1>1, EnumerationIs
<1>3. DOMAIN f = 1 .. Len(f)
  BY <1>2
<1>4. Side(Prices(q), side) \subseteq AllPrices
  BY DEF Side, AllPrices
<1>5. f \in Seq(AllPrices)
  BY <1>2, <1>3, <1>4
<1>6. None \notin Prices(q)
  BY ExportAssumption DEF Prices
<1>7. {f[k] : k \in DOMAIN f} = Side(Prices(q), side)
  BY <1>2 DEF Range
<1> QED
  BY <1>2, <1>3, <1>5, <1>6, <1>7

\* The rows of a message below a sheet that lacks it show it once.
LEMMA RowsShowOnce ==
    ASSUME NEW d \in Days, NEW q \in Quotes, NEW s \in Seq(Row), RowsOf(s, q) = {},
           NEW bids \in SetToSeqs(Side(Prices(q), "BID")),
           NEW asks \in SetToSeqs(Side(Prices(q), "ASK")),
           NEW r, r = Rows(d, q, bids, asks)
    PROVE  /\ r \in Seq(Row) /\ s \o r \in Seq(Row) /\ AllOf(r, q)
           /\ ShowsOnce(s \o r, q)
<1>1. /\ bids \in Seq(AllPrices) /\ asks \in Seq(AllPrices)
      /\ {bids[k] : k \in DOMAIN bids} = Side(Prices(q), "BID")
      /\ {asks[k] : k \in DOMAIN asks} = Side(Prices(q), "ASK")
      /\ None \notin Prices(q)
  BY SideIs
<1>2. /\ \A i, j \in DOMAIN bids : i # j => bids[i] # bids[j]
      /\ \A i, j \in DOMAIN asks : i # j => asks[i] # asks[j]
  BY SideIs
<1>3. HoldSides(r, d, q, bids, asks)
  BY <1>1, RowsAre
<1>4. /\ r \in Seq(Row) /\ Len(r) \in Nat
      /\ DOMAIN bids \subseteq 1 .. Len(r) /\ DOMAIN asks \subseteq 1 .. Len(r)
  BY <1>3 DEF HoldSides
<1>5. ASSUME NEW k \in 1 .. Len(r)
      PROVE  /\ r[k].of = q
             /\ r[k].bid = IF k \in DOMAIN bids THEN bids[k] ELSE None
             /\ r[k].ask = IF k \in DOMAIN asks THEN asks[k] ELSE None
  <2>1. r[k] = RowOf(d, q, bids, asks, k)
    BY <1>3 DEF HoldSides
  <2> QED
    BY <2>1 DEF RowOf
<1>6. AllOf(r, q)
  BY <1>5 DEF AllOf
<1> DEFINE t == s \o r
<1>7. t \in Seq(Row) /\ Len(s) \in Nat
  BY <1>4, ConcatProperties
<1>8. /\ RowsOf(t, q) = {Len(s) + k : k \in 1 .. Len(r)}
      /\ \A k \in 1 .. Len(r) : t[Len(s) + k] = r[k]
  BY <1>4, <1>6, OwnRows
<1> HIDE DEF t
<1>9. {t[k].bid : k \in RowsOf(t, q)} \ {None} = Side(Prices(q), "BID")
  <2>1. \A k \in 1 .. Len(r) : Len(s) + k \in RowsOf(t, q) /\ t[Len(s) + k] = r[k]
    BY <1>8
  <2>2. ASSUME NEW x \in Side(Prices(q), "BID") PROVE x \in {t[k].bid : k \in RowsOf(t, q)} \ {None}
    <3>1. PICK k \in DOMAIN bids : x = bids[k]
      BY <1>1
    <3>2. k \in 1 .. Len(r) /\ r[k].bid = x /\ x # None
      BY <1>1, <1>4, <1>5, <3>1 DEF Side
    <3> QED
      BY <2>1, <3>2
  <2>3. ASSUME NEW k \in RowsOf(t, q), t[k].bid # None PROVE t[k].bid \in Side(Prices(q), "BID")
    <3>1. PICK j \in 1 .. Len(r) : t[k] = r[j]
      BY <1>8
    <3> QED
      BY <1>1, <1>5, <2>3, <3>1
  <2> QED
    BY <2>2, <2>3
<1>10. {t[k].ask : k \in RowsOf(t, q)} \ {None} = Side(Prices(q), "ASK")
  <2>1. \A k \in 1 .. Len(r) : Len(s) + k \in RowsOf(t, q) /\ t[Len(s) + k] = r[k]
    BY <1>8
  <2>2. ASSUME NEW x \in Side(Prices(q), "ASK") PROVE x \in {t[k].ask : k \in RowsOf(t, q)} \ {None}
    <3>1. PICK k \in DOMAIN asks : x = asks[k]
      BY <1>1
    <3>2. k \in 1 .. Len(r) /\ r[k].ask = x /\ x # None
      BY <1>1, <1>4, <1>5, <3>1 DEF Side
    <3> QED
      BY <2>1, <3>2
  <2>3. ASSUME NEW k \in RowsOf(t, q), t[k].ask # None PROVE t[k].ask \in Side(Prices(q), "ASK")
    <3>1. PICK j \in 1 .. Len(r) : t[k] = r[j]
      BY <1>8
    <3> QED
      BY <1>1, <1>5, <2>3, <3>1
  <2> QED
    BY <2>2, <2>3
<1>11. ASSUME NEW j \in RowsOf(t, q), NEW k \in RowsOf(t, q), j # k
       PROVE  /\ t[j].bid = t[k].bid => t[j].bid = None
              /\ t[j].ask = t[k].ask => t[j].ask = None
  <2>1. PICK i \in 1 .. Len(r) : j = Len(s) + i /\ t[j] = r[i]
    BY <1>8
  <2>2. PICK m \in 1 .. Len(r) : k = Len(s) + m /\ t[k] = r[m]
    BY <1>8
  <2>3. i # m
    BY <1>11, <2>1, <2>2
  <2> QED
    BY <1>2, <1>5, <2>1, <2>2, <2>3
<1>12. ShowsOnce(t, q)
  BY <1>9, <1>10, <1>11 DEF ShowsOnce
<1> QED
  BY <1>4, <1>6, <1>7, <1>12 DEF t

\* The groups of a request are messages it is about, each once.
LEMMA GroupsAsked ==
    ASSUME NEW y, NEW d \in Days, y.day = d, y.from \in Nat, y.to \in Nat, TablesOK, StoredOK,
           NEW s \in SetToSeqs(Groups(y))
    PROVE  /\ s \in Seq(Quotes)
           /\ \A k \in 1 .. Len(s) : AskedFor(s[k], y, details[d])
           /\ \A j, k \in 1 .. Len(s) : j # k => s[j] # s[k]
<1> DEFINE ps == {x \in details[d] : Selected(y, x)}
<1>1. IsFiniteSet(details[d]) /\ Whole(details[d])
  BY DEF StoredOK
<1>2. IsFiniteSet(Groups(y))
  <2>1. IsFiniteSet(ps)
    BY <1>1, FS_Subset
  <2>2. Groups(y) = {p[1] : p \in ps}
    BY DEF Groups
  <2>3. [p \in ps |-> p[1]] \in Surjection(ps, Groups(y))
    BY <2>2 DEF Surjection
  <2> HIDE DEF ps
  <2> QED
    BY <2>1, <2>3, FS_Surjection
<1>3. ASSUME NEW g \in Groups(y) PROVE AskedFor(g, y, details[d])
  <2>1. PICK p \in details[d] : Selected(y, p) /\ g = p[1]
    BY <1>3 DEF Groups
  <2>2. g \in Quotes /\ p \in Prices(g) /\ Prices(g) \subseteq details[d]
    BY <1>1, <2>1 DEF Whole
  <2> DEFINE midnight == y.day * HoursPerDay
  <2>3. midnight \in Int /\ Zone \in Int
    BY ExportAssumption DEF Days
  <2>4. PICK h \in y.from .. y.to : Hour(p) = midnight + h + Zone
    BY <2>1 DEF Selected, Window
  <2> HIDE DEF midnight
  <2>5. Hour(p) - Zone - midnight = h
    BY <2>3, <2>4
  <2> QED
    BY <2>2, <2>4, <2>5 DEF AskedFor, midnight
<1>4. /\ s \in Seq(Groups(y)) /\ Len(s) \in Nat
      /\ \A j, k \in 1 .. Len(s) : j # k => s[j] # s[k]
  BY <1>2, EnumerationIs
<1>5. \A k \in 1 .. Len(s) : s[k] \in Groups(y)
  BY <1>4
<1>6. \A k \in 1 .. Len(s) : AskedFor(s[k], y, details[d]) /\ s[k] \in Quotes
  BY <1>3, <1>5 DEF AskedFor
<1>7. s \in Seq(Quotes)
  BY <1>4, <1>6
<1> QED
  BY <1>4, <1>6, <1>7

\* One more group is shown, with the prices the detail table has by now.
LEMMA GroupShown ==
    ASSUME StoredOK, QueryRuns, query.day \in Days,
           ShownAndToShow(query, details[query.day]), NextGroup
    PROVE  /\ QueryRuns' /\ query'.pc = "groups" /\ query'.day = query.day
           /\ ShownAndToShow(query', details[query.day])
<1> DEFINE g == Head(query.groups)
           rest == Tail(query.groups)
           ps == details[query.day]
           s == query.sheet
<1>1. /\ query.pc = "groups" /\ query.groups \in Seq(Quotes) /\ query.groups # <<>>
      /\ s \in Seq(Row)
  BY DEF NextGroup, QueryRuns
<1>2. /\ Len(query.groups) \in Nat /\ Len(query.groups) > 0 /\ 1 \in 1 .. Len(query.groups)
      /\ g = query.groups[1] /\ rest \in Seq(Quotes) /\ Len(rest) = Len(query.groups) - 1
      /\ \A k \in 1 .. Len(rest) : rest[k] = query.groups[k + 1]
  <2>1. Len(query.groups) \in Nat /\ Len(query.groups) > 0
    BY <1>1, EmptySeq
  <2>2. /\ rest \in Seq(Quotes) /\ Len(rest) = Len(query.groups) - 1
        /\ \A k \in 1 .. Len(rest) : rest[k] = query.groups[k + 1]
    BY <1>1, HeadTailProperties
  <2>3. g = query.groups[1]
    OBVIOUS
  <2> QED
    BY <2>1, <2>2, <2>3
<1>3. AskedFor(g, query, ps) /\ RowsOf(s, g) = {} /\ g \in Quotes
  BY <1>2 DEF ShownAndToShow, AskedFor
<1>4. GroupDetails(query, g) = Prices(g)
  <2>1. Whole(ps) /\ Prices(g) \subseteq ps
    BY <1>3 DEF StoredOK, AskedFor
  <2>2. GroupDetails(query, g) = {p \in ps : p[1] = g}
    BY DEF GroupDetails
  <2> HIDE DEF g, ps
  <2> QED
    BY <1>3, <2>1, <2>2, GroupIsWhole
<1>5. PICK bids \in SetToSeqs(Side(Prices(g), "BID")), asks \in SetToSeqs(Side(Prices(g), "ASK")) :
        query' = [query EXCEPT !.groups = rest, !.sheet = s \o Rows(query.day, g, bids, asks)]
  BY <1>4 DEF NextGroup, QueryStep
<1> DEFINE r == Rows(query.day, g, bids, asks)
<1> HIDE DEF g, rest, ps, s
<1>6. /\ r \in Seq(Row) /\ s \o r \in Seq(Row) /\ AllOf(r, g) /\ ShowsOnce(s \o r, g)
  BY <1>1, <1>3, RowsShowOnce
<1> HIDE DEF r
<1>7. PICK t \in Seq(Row) : t = s \o r
  BY <1>6
<1>8. query' = [pc |-> query.pc, kind |-> query.kind, from |-> query.from, to |-> query.to,
                day |-> query.day, groups |-> rest, sheet |-> t, status |-> query.status]
  <2>1. query' = [query EXCEPT !.groups = rest, !.sheet = t]
    BY <1>5, <1>7 DEF r
  <2> QED
    BY <2>1 DEF QueryRuns
<1>9. QueryRuns'
  <2>1. /\ query.from \in Nat /\ query.to \in Nat /\ query.day \in Nat
        /\ query.status \in {0, 200, 500} /\ query.kind \in {None, "daily-end", "time-range"}
    BY DEF QueryRuns
  <2> QED
    BY <1>1, <1>2, <1>8, <2>1 DEF QueryRuns
<1>10. \A p : p # g => SaysTheSame(t, s, p)
  BY <1>1, <1>6, <1>7, OtherRows
<1>11. /\ \A k \in 1 .. Len(query.groups) :
            AskedFor(query.groups[k], query, ps) /\ RowsOf(s, query.groups[k]) = {}
       /\ \A j, k \in 1 .. Len(query.groups) : j # k => query.groups[j] # query.groups[k]
       /\ \A k \in 1 .. Len(s) : AskedFor(s[k].of, query, ps) /\ ShowsOnce(s, s[k].of)
  BY DEF ShownAndToShow, ps, s
<1>12. \A q : AskedFor(q, query, ps) => AskedFor(q, query', ps)
  BY <1>8, AskedForMore
<1>13. ASSUME NEW k \in 1 .. Len(rest)
       PROVE  AskedFor(rest[k], query', ps) /\ RowsOf(t, rest[k]) = {}
  <2>1. k + 1 \in 1 .. Len(query.groups) /\ rest[k] = query.groups[k + 1] /\ k + 1 # 1
    BY <1>2
  <2>2. rest[k] # g
    BY <1>2, <1>11, <2>1
  <2> QED
    BY <1>10, <1>11, <1>12, <2>1, <2>2 DEF SaysTheSame
<1>14. ASSUME NEW j \in 1 .. Len(rest), NEW k \in 1 .. Len(rest), j # k PROVE rest[j] # rest[k]
  <2>1. /\ j + 1 \in 1 .. Len(query.groups) /\ k + 1 \in 1 .. Len(query.groups) /\ j + 1 # k + 1
        /\ rest[j] = query.groups[j + 1] /\ rest[k] = query.groups[k + 1]
    BY <1>2, <1>14
  <2> QED
    BY <1>11, <2>1
<1>15. ASSUME NEW k \in 1 .. Len(t)
       PROVE  AskedFor(t[k].of, query', ps) /\ ShowsOnce(t, t[k].of)
  <2>1. CASE t[k].of = g
    BY <1>3, <1>6, <1>7, <1>12, <2>1
  <2>2. CASE t[k].of # g
    <3>1. SaysTheSame(t, s, t[k].of)
      BY <1>10, <2>2
    <3>2. k \in RowsOf(t, t[k].of)
      BY DEF RowsOf
    <3>3. k \in RowsOf(s, t[k].of)
      BY <3>1, <3>2 DEF SaysTheSame
    <3>4. k \in 1 .. Len(s) /\ s[k].of = t[k].of
      BY <1>1, <3>3 DEF RowsOf
    <3>5. AskedFor(t[k].of, query, ps) /\ ShowsOnce(s, t[k].of)
      BY <1>11, <3>4
    <3> QED
      BY <1>12, <3>1, <3>5, OnceStays
  <2> QED
    BY <2>1, <2>2
<1>16. ShownAndToShow(query', ps)
  <2>1. query'.groups = rest /\ query'.sheet = t
    BY <1>8
  <2> QED
    BY <1>13, <1>14, <1>15, <2>1 DEF ShownAndToShow
<1> QED
  BY <1>1, <1>8, <1>9, <1>16 DEF ps

\* What is stored meanwhile leaves the sheet and its messages what they are.
LEMMA ShownMore ==
    ASSUME NEW y, NEW ps, NEW qs, ps \subseteq qs, ShownAndToShow(y, ps)
    PROVE  ShownAndToShow(y, qs)
<1>1. \A q : AskedFor(q, y, ps) => AskedFor(q, y, qs)
  BY AskedForMore
<1> QED
  BY <1>1 DEF ShownAndToShow

\* The reply to a request that fails shows nothing.
LEMMA ErrorIs ==
    /\ Reply500 = [pc |-> "replied", kind |-> None, from |-> 0, to |-> 0, day |-> 0,
                   groups |-> <<>>, sheet |-> <<>>, status |-> 500]
    /\ <<>> \in Seq(Quotes) /\ <<>> \in Seq(Row)
<1>1. PICK y : y = NoQuery
  OBVIOUS
<1>2. Reply500 = [y EXCEPT !.pc = "replied", !.status = 500]
  BY <1>1 DEF Reply500
<1>3. y = [pc |-> "idle", kind |-> None, from |-> 0, to |-> 0, day |-> 0,
           groups |-> <<>>, sheet |-> <<>>, status |-> 0]
  BY <1>1 DEF NoQuery
<1>4. PICK x : x = [y EXCEPT !.pc = "replied"]
  OBVIOUS
<1>5. x = [pc |-> "replied", kind |-> None, from |-> 0, to |-> 0, day |-> 0,
           groups |-> <<>>, sheet |-> <<>>, status |-> 0]
  BY <1>3, <1>4
<1>6. Reply500 = [x EXCEPT !.status = 500]
  BY <1>2, <1>4
<1>7. Reply500 = [pc |-> "replied", kind |-> None, from |-> 0, to |-> 0, day |-> 0,
                  groups |-> <<>>, sheet |-> <<>>, status |-> 500]
  BY <1>5, <1>6
<1> QED
  BY <1>7

\* A request for a range of hours begins with nothing shown.
LEMMA HoursAsked ==
    ASSUME TablesOK, StoredOK, AskTimeRange
    PROVE  /\ QueryRuns' /\ query'.pc \in {"groups", "replied"}
           /\ query'.pc = "replied" => query'.status = 500
           /\ query'.pc = "groups" =>
                query'.day \in Days /\ ShownAndToShow(query', details[query'.day])
<1>1. PICK d \in Days, from \in 0 .. HoursPerDay - 1, to \in 0 .. HoursPerDay - 1 :
        LET q == [NoQuery EXCEPT !.kind = "time-range", !.from = from, !.to = to, !.day = d] IN
        \/ query' = Reply500
        \/ /\ <<"detail", d>> \in tables
           /\ \E s \in SetToSeqs(Groups(q)) :
                query' = [q EXCEPT !.pc = "groups", !.groups = s]
  BY DEF AskTimeRange, QueryStep
<1>2. d \in Nat /\ from \in Nat /\ to \in Nat
  BY Basics, ExportAssumption
<1>3. CASE query' = Reply500
  BY <1>3, ErrorIs DEF QueryRuns
<1>4. CASE query' # Reply500
  <2>0. PICK y : y = [NoQuery EXCEPT !.kind = "time-range", !.from = from, !.to = to, !.day = d]
    OBVIOUS
  <2>1. y = [pc |-> "idle", kind |-> "time-range", from |-> from, to |-> to, day |-> d,
             groups |-> <<>>, sheet |-> <<>>, status |-> 0]
    BY <2>0 DEF NoQuery
  <2>2. PICK s \in SetToSeqs(Groups(y)) : query' = [y EXCEPT !.pc = "groups", !.groups = s]
    BY <1>1, <1>4, <2>0
  <2>3. y.day = d /\ y.from = from /\ y.to = to
    BY <2>1
  <2>4. query' = [pc |-> "groups", kind |-> "time-range", from |-> from, to |-> to, day |-> d,
                  groups |-> s, sheet |-> <<>>, status |-> 0]
    BY <2>1, <2>2
  <2>5. /\ s \in Seq(Quotes)
        /\ \A k \in 1 .. Len(s) : AskedFor(s[k], y, details[d])
        /\ \A j, k \in 1 .. Len(s) : j # k => s[j] # s[k]
    BY <1>2, <2>2, <2>3, GroupsAsked
  <2>6. QueryRuns'
    <3>1. <<>> \in Seq(Row)
      OBVIOUS
    <3> QED
      BY <1>2, <2>4, <2>5, <3>1 DEF QueryRuns
  <2>7. \A q : AskedFor(q, y, details[d]) => AskedFor(q, query', details[d])
    BY <2>3, <2>4, AskedForMore
  <2>8. /\ query'.groups = s /\ query'.sheet = <<>> /\ query'.day = d /\ query'.pc = "groups"
    BY <2>4
  <2>9. ShownAndToShow(query', details[d])
    <3>1. \A q : RowsOf(<<>>, q) = {}
      BY DEF RowsOf
    <3>2. Len(<<>>) = 0
      OBVIOUS
    <3> QED
      BY <2>5, <2>7, <2>8, <3>1, <3>2 DEF ShownAndToShow
  <2> QED
    BY <2>6, <2>8, <2>9
<1> QED
  BY <1>3, <1>4

\* The other steps of a request begin it, end it, or let it be forgotten; a
\* reply leaves what was shown.
LEMMA OtherQuerySteps ==
    ASSUME QueryRuns, ShowsMessages,
           \/ AskDailyEnd \/ DailyEndReplies \/ TimeRangeReplies
           \/ CurrentLatest \/ QueryFails \/ Answered
    PROVE  /\ QueryRuns' /\ ~(query.pc = "days" /\ query'.pc = "days")
           /\ \/ query'.pc # "groups" /\ ~(query'.kind = "time-range" /\ query'.status = 200)
              \/ query.pc = "groups" /\ query' = Reply200
<1>1. <<>> \in Seq(Quotes) /\ <<>> \in Seq(Row)
  OBVIOUS
<1>2. CASE AskDailyEnd
  <2>1. PICK from \in Days, to \in Days :
          query' = [NoQuery EXCEPT !.pc = "days", !.kind = "daily-end",
                                   !.from = from, !.to = to, !.day = from]
    BY <1>2 DEF AskDailyEnd, QueryStep
  <2>2. query' = [pc |-> "days", kind |-> "daily-end", from |-> from, to |-> to, day |-> from,
                  groups |-> <<>>, sheet |-> <<>>, status |-> 0]
    BY <2>1 DEF NoQuery
  <2>3. from \in Nat /\ to \in Nat /\ query.pc = "idle"
    BY <1>2, Basics DEF AskDailyEnd
  <2> QED
    BY <1>1, <2>2, <2>3 DEF QueryRuns
<1>3. CASE DailyEndReplies \/ TimeRangeReplies
  <2>1. query' = Reply200 /\ query.pc \in {"days", "groups"}
    BY <1>3 DEF DailyEndReplies, TimeRangeReplies, QueryStep
  <2>2. query' = [pc |-> "replied", kind |-> query.kind, from |-> query.from, to |-> query.to,
                  day |-> query.day, groups |-> query.groups, sheet |-> query.sheet,
                  status |-> 200]
    <3>1. PICK x : x = [query EXCEPT !.pc = "replied"]
      OBVIOUS
    <3>2. x = [pc |-> "replied", kind |-> query.kind, from |-> query.from, to |-> query.to,
               day |-> query.day, groups |-> query.groups, sheet |-> query.sheet,
               status |-> query.status]
      BY <3>1 DEF QueryRuns
    <3>3. query' = [x EXCEPT !.status = 200]
      BY <2>1, <3>1 DEF Reply200
    <3> QED
      BY <3>2, <3>3
  <2>3. QueryRuns'
    BY <2>2 DEF QueryRuns
  <2>4. query.pc = "days" => query.kind = "daily-end"
    BY DEF QueryRuns
  <2> QED
    BY <2>1, <2>2, <2>3, <2>4
<1>4. CASE CurrentLatest \/ QueryFails
  <2>1. query' = Reply500
    BY <1>4 DEF CurrentLatest, QueryFails, QueryStep
  <2>2. query'.pc = "replied" /\ query'.kind = None /\ query'.status = 500
    BY <2>1, ErrorIs
  <2>3. QueryRuns'
    BY <2>1, ErrorIs DEF QueryRuns
  <2> QED
    BY <2>2, <2>3
<1>5. CASE Answered
  <2>1. query' = NoQuery
    BY <1>5 DEF Answered, QueryStep
  <2> QED
    BY <1>1, <2>1 DEF NoQuery, QueryRuns
<1> QED
  BY <1>2, <1>3, <1>4, <1>5

\* Whatever is stored, created and exported between the statements of a
\* request, it stays about whole messages, and adds a day at a time.
LEMMA QueryStays ==
    ASSUME TablesOK, StoredOK, QueryRuns, ShowsMessages, [Next]_vars
    PROVE  /\ QueryRuns' /\ ShowsMessages'
           /\ [query.pc = "days" /\ query'.pc = "days" => AddsDay]_query
<1>1. CASE UNCHANGED query
  <2>1. query.day \in Days => details[query.day] \subseteq details'[query.day]
    BY StoredStep
  <2>2. query.day \in Days /\ ShownAndToShow(query, details[query.day])
          => ShownAndToShow(query, details'[query.day])
    BY <2>1, ShownMore
  <2> QED
    BY <1>1, <2>2 DEF QueryRuns, ShowsMessages
<1>2. ASSUME Query PROVE UNCHANGED details
  BY <1>2, ReadersRead DEF Reads
<1>3. CASE NextDay
  <2>1. QueryRuns' /\ query'.pc = "days" /\ AddsDay
    BY <1>3, DayShows
  <2> QED
    BY <2>1 DEF ShowsMessages
<1>4. CASE AskTimeRange
  <2>1. /\ QueryRuns' /\ query'.pc \in {"groups", "replied"}
        /\ query'.pc = "replied" => query'.status = 500
        /\ query'.pc = "groups" =>
             query'.day \in Days /\ ShownAndToShow(query', details[query'.day])
    BY <1>4, HoursAsked
  <2>2. UNCHANGED details
    BY <1>2, <1>4 DEF Query
  <2> QED
    BY <2>1, <2>2 DEF ShowsMessages
<1>5. CASE NextGroup
  <2>1. query.pc = "groups" /\ UNCHANGED details
    BY <1>2, <1>5 DEF Query, NextGroup
  <2>2. query.day \in Days /\ ShownAndToShow(query, details[query.day])
    BY <2>1 DEF ShowsMessages
  <2>3. /\ QueryRuns' /\ query'.pc = "groups" /\ query'.day = query.day
        /\ ShownAndToShow(query', details[query.day])
    BY <1>5, <2>2, GroupShown
  <2> QED
    BY <2>1, <2>2, <2>3 DEF ShowsMessages
<1>6. CASE \/ AskDailyEnd \/ DailyEndReplies \/ TimeRangeReplies
           \/ CurrentLatest \/ QueryFails \/ Answered
  <2>1. /\ QueryRuns' /\ ~(query.pc = "days" /\ query'.pc = "days")
        /\ \/ query'.pc # "groups" /\ ~(query'.kind = "time-range" /\ query'.status = 200)
           \/ query.pc = "groups" /\ query' = Reply200
    BY <1>6, OtherQuerySteps
  <2>2. ShowsMessages'
    <3>1. CASE query'.pc # "groups" /\ ~(query'.kind = "time-range" /\ query'.status = 200)
      BY <3>1 DEF ShowsMessages
    <3>2. CASE query.pc = "groups" /\ query' = Reply200
      <4>1. query.day \in Days /\ ShownAndToShow(query, details[query.day])
        BY <3>2 DEF ShowsMessages
      <4>2. /\ query'.day = query.day /\ query'.groups = query.groups /\ query'.sheet = query.sheet
            /\ query'.from = query.from /\ query'.to = query.to
        BY <3>2 DEF Reply200, QueryRuns
      <4>3. \A q, ps : AskedFor(q, query, ps) => AskedFor(q, query', ps)
        BY <4>2, AskedForMore
      <4>4. ShownAndToShow(query', details[query.day])
        BY <4>1, <4>2, <4>3 DEF ShownAndToShow
      <4>5. UNCHANGED details
        BY <1>2, <1>6 DEF Query
      <4> QED
        BY <4>1, <4>2, <4>4, <4>5 DEF ShowsMessages
    <3> QED
      BY <2>1, <3>1, <3>2
  <2> QED
    BY <2>1, <2>2
<1>7. Query => NextDay \/ AskTimeRange \/ NextGroup
               \/ (\/ AskDailyEnd \/ DailyEndReplies \/ TimeRangeReplies
                   \/ CurrentLatest \/ QueryFails \/ Answered)
  BY DEF Query
<1>8. ASSUME NEW i \in Isins, Insert(i) PROVE UNCHANGED query
  BY <1>8 DEF Insert, NameDetail, NameLatest, Commit, Rollback
<1>9. Export => UNCHANGED query
  BY DEF Export, Tick, Find, Save, Upload, Send, RemoveFile, ExportFails, ExportStep
<1>10. UNCHANGED vars \/ Tomorrow \/ (\E d \in Days : CreateTables(d)) => UNCHANGED query
  BY DEF vars, Tomorrow, CreateTables
<1> QED
  BY <1>1, <1>3, <1>4, <1>5, <1>6, <1>7, <1>8, <1>9, <1>10 DEF Next

\* The request is always about whole messages.
LEMMA RequestsShowMessages == Spec => [](QueryRuns /\ ShowsMessages)
<1>1. Init => QueryRuns /\ ShowsMessages
  BY DEF Init, NoQuery, QueryRuns, ShowsMessages
<1>2. TablesOK /\ StoredOK /\ QueryRuns /\ ShowsMessages /\ [Next]_vars
        => QueryRuns' /\ ShowsMessages'
  BY QueryStays
<1> QED
  BY <1>1, <1>2, TablesCorrect, Stored, PTL DEF Spec

\* Each day of a range is added below the days before it, whole and as its table
\* stands when it is read, or skipped without a trace.
THEOREM RangesShowTheirDays == Spec => DailyEndShowsDays
<1>1. TablesOK /\ StoredOK /\ QueryRuns /\ ShowsMessages /\ [Next]_vars
        => [query.pc = "days" /\ query'.pc = "days" => AddsDay]_query
  BY QueryStays
<1>2. TablesOK /\ StoredOK /\ QueryRuns /\ ShowsMessages /\ [Next]_vars
        => [query.pc = "days" /\ query'.pc = "days"
             => \/ query'.sheet = query.sheet
                \/ /\ <<"latest", query.day>> \in tables
                   /\ IsPrefix(query.sheet, query'.sheet)
                   /\ Shows(SubSeq(query'.sheet, Len(query.sheet) + 1, Len(query'.sheet)),
                            query.day, latest[query.day])]_query
  BY <1>1 DEF AddsDay
<1> QED
  BY <1>2, TablesCorrect, Stored, RequestsShowMessages, PTL DEF Spec, DailyEndShowsDays

\* A reply for a range of hours shows whole messages of that day with a price
\* in the range, each of them once, although the groups and the prices of each
\* are read one after the other while messages are stored.
THEOREM RepliesShowMessages == Spec => []TimeRangeShowsMessages
<1>1. ASSUME QueryRuns, ShowsMessages PROVE TimeRangeShowsMessages
  <2> SUFFICES ASSUME query.kind = "time-range", query.pc = "replied", query.status = 200,
                      NEW r \in Range(query.sheet)
               PROVE  /\ \E p \in Prices(r.of) \cap details[query.day] :
                           Hour(p) - Zone - query.day * HoursPerDay \in query.from .. query.to
                      /\ ShowsOnce(query.sheet, r.of)
    BY DEF TimeRangeShowsMessages
  <2>1. query.sheet \in Seq(Row) /\ ShownAndToShow(query, details[query.day])
    BY <1>1 DEF QueryRuns, ShowsMessages
  <2>2. PICK k \in 1 .. Len(query.sheet) : r = query.sheet[k]
    BY <2>1 DEF Range
  <2>3. AskedFor(r.of, query, details[query.day]) /\ ShowsOnce(query.sheet, r.of)
    BY <2>1, <2>2 DEF ShownAndToShow
  <2> QED
    BY <2>3 DEF AskedFor
<1> QED
  BY <1>1, RequestsShowMessages, PTL

\* There is a file left, or not.
LeftOK == left \in BOOLEAN

\* The tables and their writers, the readers and their sheets are what they
\* should be.
THEOREM TypeCorrect == Spec => []TypeOK
<1>1. Init => LeftOK
  BY DEF Init, LeftOK
<1>2. LeftOK /\ [Next]_vars => LeftOK'
  <2> SUFFICES ASSUME left \in BOOLEAN, [Next]_vars PROVE left' \in BOOLEAN
    BY DEF LeftOK
  <2>1. CASE UNCHANGED vars \/ Tomorrow \/ (\E d \in Days : CreateTables(d))
    BY <2>1 DEF vars, Tomorrow, CreateTables
  <2>2. CASE Query
    BY <2>2 DEF Query, AskDailyEnd, NextDay, DailyEndReplies, AskTimeRange, NextGroup,
       TimeRangeReplies, CurrentLatest, QueryFails, Answered, QueryStep
  <2>3. CASE Export
    BY <2>3 DEF Export, Tick, Find, Save, Upload, Send, RemoveFile, ExportFails
  <2>4. ASSUME NEW i \in Isins, Insert(i) PROVE left' \in BOOLEAN
    BY <2>4 DEF Insert, NameDetail, NameLatest, Commit, Rollback
  <2> QED
    BY <2>1, <2>2, <2>3, <2>4 DEF Next
<1>3. ASSUME TablesOK, LeftOK, ExportOK, QueryRuns PROVE TypeOK
  <2>1. \A s \in Seq(Row) : Range(s) \subseteq Row
    BY DEF Range
  <2>2. query.sheet \in Seq(Row) /\ export.sheet \in Seq(Row)
    BY <1>3 DEF QueryRuns, ExportOK
  <2>3. /\ query.pc \in {"idle", "days", "groups", "replied"} /\ query.status \in {0, 200, 500}
        /\ export.pc \in {"idle", "table", "laid out", "saved", "uploaded", "sent"}
    BY <1>3 DEF QueryRuns, ExportOK, ExportRuns
  <2>4. Range(query.sheet) \subseteq Row /\ Range(export.sheet) \subseteq Row
    BY <2>1, <2>2
  <2>5. SheetsOK
    BY <1>3, <2>3, <2>4 DEF SheetsOK, LeftOK
  <2> QED
    BY <1>3, <2>5 DEF TypeOK
<1> QED
  BY <1>1, <1>2, <1>3, TablesCorrect, ExportsHoldRows, RequestsShowMessages, PTL DEF Spec
=============================================================================
