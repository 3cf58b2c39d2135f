---------------------------- MODULE QuoteExports ----------------------------
(***************************************************************************)
(* Who writes the tables of a day and who reads them, while days go by:    *)
(*   - InsertBatch of the database worker of each ISIN                     *)
(*     (service/bond_quote_service.go), which names its two tables by the  *)
(*     clock before it commits, here with batches of one quote;            *)
(*   - the periodic export (service/export_service.go): name a file, read  *)
(*     today's latest table, lay it out, save, upload, send the link,      *)
(*     remove the file;                                                    *)
(*   - a request for an export (service/query_service.go and               *)
(*     router/query_handler.go): the latest quotes of a range of days, or  *)
(*     the details of a day between two hours.                             *)
(* Every SELECT and every transaction is one step; between them anything   *)
(* may happen.                                                             *)
(*                                                                         *)
(* A quote is [isin, bids, asks]: for each side the hours of its prices,   *)
(* in the order of the message.  A price is <<quote, side, index>>: its    *)
(* side field names the list it came in.  Hours are counted from the first *)
(* midnight.  RawJSON in the latest table is what json.Marshal made of a   *)
(* message that had been parsed, so reading it back succeeds and gives the *)
(* quote.  Every quote is delivered once.                                  *)
(***************************************************************************)
EXTENDS Integers, FiniteSets, SequencesExt

CONSTANTS
    Quotes,         \* the quotes that arrive
    LastDay,        \* bound on the calendar
    HoursPerDay,    \* hours of a day (fewer, for TLC)
    Zone,           \* offset of the local time zone, in hours
    None

ASSUME ExportAssumption ==
    /\ \A q \in Quotes : q.bids \in Seq(Nat) /\ q.asks \in Seq(Nat)
    /\ LastDay \in Nat /\ HoursPerDay \in Nat \ {0} /\ Zone \in Int
    /\ None \notin Quotes /\ None \notin 0 .. LastDay
    /\ \A q \in Quotes : \A side \in {"ASK", "BID"}, k \in DOMAIN q.asks \cup DOMAIN q.bids :
        None # <<q, side, k>>

VARIABLES
    day,        \* the calendar day
    tables,     \* the tables of the database, <<kind, day>>
    details,    \* details[d]: the prices in the detail table of d
    latest,     \* latest[d]: the quotes in the latest table of d, one per ISIN
    pending,    \* quotes that have not been handed to InsertBatch
    batch,      \* batch[i]: the InsertBatch call of ISIN i's worker
    export,     \* the periodic export
    left,       \* a failed export has left its file on the disk
    query       \* the request

vars == <<day, tables, details, latest, pending, batch, export, left, query>>

Days == 0 .. LastDay
Isins == {q.isin : q \in Quotes}
Prices(q) == {<<q, "ASK", k>> : k \in DOMAIN q.asks} \cup {<<q, "BID", k>> : k \in DOMAIN q.bids}
Hour(p) == IF p[2] = "ASK" THEN p[1].asks[p[3]] ELSE p[1].bids[p[3]]
Side(ps, side) == {p \in ps : p[2] = side}

-----------------------------------------------------------------------------
(* The sheet.  A row is [day, of, bid, ask]: the quote it is about, and the *)
(* prices next to each other, None for a blank cell.                       *)

\* Variant: as many rows as there are bids.
RowCountOfBids(bids, asks) == IF Len(bids) = 0 THEN 1 ELSE Len(bids)
\* maxRows; one row of basic information when there is no price at all.
RowCount(bids, asks) ==
    LET maxRows == IF Len(asks) > Len(bids) THEN Len(asks) ELSE Len(bids)
    IN  IF maxRows = 0 THEN 1 ELSE maxRows

Rows(d, q, bids, asks) ==
    [i \in 1 .. RowCount(bids, asks) |->
        [day |-> d, of |-> q,
         bid |-> IF i <= Len(bids) THEN bids[i] ELSE None,
         ask |-> IF i <= Len(asks) THEN asks[i] ELSE None]]

\* The rows of a quote that was stored as JSON: prices in their order.
QuoteRows(d, q) == Rows(d, q, [k \in DOMAIN q.bids |-> <<q, "BID", k>>],
                              [k \in DOMAIN q.asks |-> <<q, "ASK", k>>])

\* The sheets of a latest table: Find returns its records in any order.
LatestSheets(d) ==
    {FlattenSeq([k \in DOMAIN s |-> QuoteRows(d, s[k])]) : s \in SetToSeqs(latest[d])}

-----------------------------------------------------------------------------
NoBatch == [pc |-> "idle", quote |-> None, detail |-> None, latest |-> None]
NoExport == [pc |-> "idle", table |-> None, sheet |-> <<>>]
NoQuery == [pc |-> "idle", kind |-> None, from |-> 0, to |-> 0,
            day |-> 0, groups |-> <<>>, sheet |-> <<>>, status |-> 0]

Init ==
    /\ day = 0 /\ tables = {}
    /\ details = [d \in Days |-> {}] /\ latest = [d \in Days |-> {}]
    /\ pending = Quotes
    /\ batch = [i \in Isins |-> NoBatch]
    /\ export = NoExport /\ left = FALSE
    /\ query = NoQuery

\* InsertBatch reads the clock for the name of the detail table ...
\* Variant: the table is named by the first price.
NameDetailByPrice(i) ==
    /\ batch[i].pc = "idle"
    /\ \E q \in pending :
        /\ q.isin = i
        /\ pending' = pending \ {q}
        /\ \E d \in {day} \cup {Hour(p) \div HoursPerDay : p \in {x \in Prices(q) : x[3] = 1}} :
            batch' = [batch EXCEPT ![i] = [pc |-> "named", quote |-> q, detail |-> d, latest |-> None]]
    /\ UNCHANGED <<day, tables, details, latest, export, left, query>>
NameDetail(i) ==
    /\ batch[i].pc = "idle"
    /\ \E q \in pending :
        /\ q.isin = i
        /\ pending' = pending \ {q}
        /\ batch' = [batch EXCEPT ![i] = [pc |-> "named", quote |-> q, detail |-> day, latest |-> None]]
    /\ UNCHANGED <<day, tables, details, latest, export, left, query>>

\* ... and again for the name of the latest table.
\* Variant: on the UTC clock, where it may still be the day before.
NameLatestUTC(i) ==
    /\ batch[i].pc = "named"
    /\ \E d \in {day, day - 1} : batch' = [batch EXCEPT ![i].pc = "ready", ![i].latest = d]
    /\ UNCHANGED <<day, tables, details, latest, pending, export, left, query>>
NameLatest(i) ==
    /\ batch[i].pc = "named"
    /\ batch' = [batch EXCEPT ![i].pc = "ready", ![i].latest = day]
    /\ UNCHANGED <<day, tables, details, latest, pending, export, left, query>>

Upsert(rows, q) == {r \in rows : r.isin # q.isin} \cup {q}

\* The transaction.  A quote without prices adds nothing to the detail table.
\* Variant: the quote goes to the latest table of today.
CommitToday(i) ==
    /\ batch[i].pc = "ready"
    /\ LET b == batch[i] IN
       /\ Prices(b.quote) # {} => <<"detail", b.detail>> \in tables
       /\ <<"latest", day>> \in tables
       /\ details' = [details EXCEPT ![b.detail] = @ \cup Prices(b.quote)]
       /\ latest' = [latest EXCEPT ![day] = Upsert(@, b.quote)]
    /\ batch' = [batch EXCEPT ![i] = NoBatch]
    /\ UNCHANGED <<day, tables, pending, export, left, query>>
Commit(i) ==
    /\ batch[i].pc = "ready"
    /\ LET b == batch[i] IN
       /\ Prices(b.quote) # {} => <<"detail", b.detail>> \in tables
       /\ <<"latest", b.latest>> \in tables
       /\ details' = [details EXCEPT ![b.detail] = @ \cup Prices(b.quote)]
       /\ latest' = [latest EXCEPT ![b.latest] = Upsert(@, b.quote)]
    /\ batch' = [batch EXCEPT ![i] = NoBatch]
    /\ UNCHANGED <<day, tables, pending, export, left, query>>

\* The database, or a missing table, fails the transaction: it is rolled back.
Rollback(i) ==
    /\ batch[i].pc = "ready"
    /\ batch' = [batch EXCEPT ![i] = NoBatch]
    /\ UNCHANGED <<day, tables, details, latest, pending, export, left, query>>

-----------------------------------------------------------------------------
(* The periodic export.                                                    *)

ExportStep(e) ==
    /\ export' = e
    /\ UNCHANGED <<day, tables, details, latest, pending, batch, query>>

\* A tick: the clock names the file and GetTodayLatestTableName the table.
Tick ==
    /\ export.pc = "idle"
    /\ ExportStep([NoExport EXCEPT !.pc = "table", !.table = day])
    /\ UNCHANGED left

\* Find, and the rows of what it found.
Find ==
    /\ export.pc = "table" /\ <<"latest", export.table>> \in tables
    /\ \E s \in LatestSheets(export.table) :
        ExportStep([export EXCEPT !.pc = "laid out", !.sheet = s])
    /\ UNCHANGED left

Save ==
    /\ export.pc = "laid out"
    /\ ExportStep([NoExport EXCEPT !.pc = "saved"])
    /\ UNCHANGED left

Upload ==
    /\ export.pc = "saved"
    /\ ExportStep([export EXCEPT !.pc = "uploaded"])
    /\ UNCHANGED left

Send ==
    /\ export.pc = "uploaded"
    /\ ExportStep([export EXCEPT !.pc = "sent"])
    /\ UNCHANGED left

RemoveFile ==
    /\ export.pc = "sent"
    /\ ExportStep(NoExport)
    /\ UNCHANGED left

OnDisk == export.pc \in {"saved", "uploaded", "sent"}

\* Any step fails: the error is logged, a saved file stays.
\* Variant: a deferred Remove takes the file along.
ExportFailsDefer ==
    /\ export.pc \in {"table", "laid out", "saved", "uploaded", "sent"}
    /\ ExportStep(NoExport)
    /\ UNCHANGED left
ExportFails ==
    /\ export.pc \in {"table", "laid out", "saved", "uploaded", "sent"}
    /\ ExportStep(NoExport)
    /\ left' = (left \/ OnDisk)

-----------------------------------------------------------------------------
(* A request.                                                              *)

QueryStep(q) ==
    /\ query' = q
    /\ UNCHANGED <<day, tables, details, latest, pending, batch, export, left>>

\* The file is saved, and its name is the reply; or there is an error.
Reply200 == [query EXCEPT !.pc = "replied", !.status = 200]
Reply500 == [NoQuery EXCEPT !.pc = "replied", !.status = 500]

AskDailyEnd ==
    /\ query.pc = "idle"
    /\ \E from, to \in Days :
        QueryStep([NoQuery EXCEPT !.pc = "days", !.kind = "daily-end",
                                  !.from = from, !.to = to, !.day = from])

\* Variant: the rows of a day replace those of the day before.
NextDayOverwrites ==
    /\ query.pc = "days" /\ query.day <= query.to
    /\ \/ QueryStep([query EXCEPT !.day = @ + 1])
       \/ /\ <<"latest", query.day>> \in tables
          /\ \E s \in LatestSheets(query.day) :
                QueryStep([query EXCEPT !.day = @ + 1, !.sheet = s])

\* One day of the range: Find and its rows, or nothing.  tableExists is false
\* without a table and when the lookup fails, which it does not tell apart, so
\* that any day may be skipped and the reply be no error.
NextDay ==
    /\ query.pc = "days" /\ query.day <= query.to
    /\ \/ QueryStep([query EXCEPT !.day = @ + 1])
       \/ /\ <<"latest", query.day>> \in tables
          /\ \E s \in LatestSheets(query.day) :
                QueryStep([query EXCEPT !.day = @ + 1, !.sheet = @ \o s])

\* The range is done.
DailyEndReplies ==
    /\ query.pc = "days" /\ query.day > query.to
    /\ QueryStep(Reply200)

\* The window of a request: the hours are parsed as UTC, quote_time is local
\* and the driver converts (loc=Local), so that the window moves by Zone.
Window(q) == {q.day * HoursPerDay + h + Zone : h \in q.from .. q.to}

\* Does the query find the message group of p's quote because of p?
Selected(q, p) == Hour(p) \in Window(q)

\* The groups by message and ISIN that have a detail in the window.  Their
\* order, by a quote_time of each group, is any.
Groups(q) == {p[1] : p \in {x \in details[q.day] : Selected(q, x)}}

\* Without the table, or when its lookup fails: 500.  With it: the groups.
AskTimeRange ==
    /\ query.pc = "idle"
    /\ \E d \in Days, from, to \in 0 .. HoursPerDay - 1 :
        LET q == [NoQuery EXCEPT !.kind = "time-range", !.from = from, !.to = to, !.day = d] IN
        \/ QueryStep(Reply500)
        \/ /\ <<"detail", d>> \in tables
           /\ \E s \in SetToSeqs(Groups(q)) :
                QueryStep([q EXCEPT !.pc = "groups", !.groups = s])

\* The prices shown for a message group: all of that message and ISIN.
\* Variant: only those in the window.
GroupDetailsInWindow(q, g) == {p \in details[q.day] : p[1] = g /\ Selected(q, p)}
GroupDetails(q, g) == {p \in details[q.day] : p[1] = g}

\* One group: its details, in the order the database gives them.
NextGroup ==
    /\ query.pc = "groups" /\ query.groups # <<>>
    /\ LET g == Head(query.groups)
           ps == GroupDetails(query, g)
       IN  \E bids \in SetToSeqs(Side(ps, "BID")), asks \in SetToSeqs(Side(ps, "ASK")) :
             QueryStep([query EXCEPT !.groups = Tail(@),
                                     !.sheet = @ \o Rows(query.day, g, bids, asks)])

TimeRangeReplies ==
    /\ query.pc = "groups" /\ query.groups = <<>>
    /\ QueryStep(Reply200)

\* /current-latest reads a table that nobody creates.
CurrentLatest ==
    /\ query.pc = "idle"
    /\ QueryStep(Reply500)

\* A SELECT or saving the file fails.
QueryFails ==
    /\ query.pc \in {"days", "groups"}
    /\ QueryStep(Reply500)

\* The response is sent; the next request may come.
Answered == query.pc = "replied" /\ QueryStep(NoQuery)

-----------------------------------------------------------------------------
\* createTableService makes the tables of a day that is not past, the detail
\* table first.
CreateTables(d) ==
    /\ day <= d
    /\ \E t \in {<<"detail", d>>, <<"latest", d>>} :
        /\ t \notin tables
        /\ t[1] = "latest" => <<"detail", d>> \in tables
        /\ tables' = tables \cup {t}
    /\ UNCHANGED <<day, details, latest, pending, batch, export, left, query>>

\* Midnight.  Less than a day passes between reading the clock for the two
\* names of a batch, which are consecutive statements.
Tomorrow ==
    /\ day < LastDay
    /\ \A i \in Isins : batch[i].pc = "named" => batch[i].detail = day
    /\ day' = day + 1
    /\ UNCHANGED <<tables, details, latest, pending, batch, export, left, query>>

Insert(i) == NameDetail(i) \/ NameLatest(i) \/ Commit(i) \/ Rollback(i)
Export == Tick \/ Find \/ Save \/ Upload \/ Send \/ RemoveFile \/ ExportFails
Query ==
    \/ AskDailyEnd \/ NextDay \/ DailyEndReplies
    \/ AskTimeRange \/ NextGroup \/ TimeRangeReplies
    \/ CurrentLatest \/ QueryFails \/ Answered

Next ==
    \/ \E i \in Isins : Insert(i)
    \/ Export
    \/ Query
    \/ \E d \in Days : CreateTables(d)
    \/ Tomorrow

Spec == Init /\ [][Next]_vars
-----------------------------------------------------------------------------
(* Properties.                                                             *)

AllPrices == UNION {Prices(q) : q \in Quotes}
Row == [day : Days, of : Quotes, bid : AllPrices \cup {None}, ask : AllPrices \cup {None}]
Batch == [pc : {"idle", "named", "ready"}, quote : Quotes \cup {None},
          detail : Days \cup {None}, latest : Days \cup {None}]

\* A worker writes quotes of its own ISIN, to tables named no later than now.
BatchOK(i) ==
    /\ batch[i].pc # "idle" => /\ batch[i].quote \in Quotes /\ batch[i].quote.isin = i
                               /\ batch[i].detail \in 0 .. day
    /\ batch[i].pc = "ready" => batch[i].latest \in batch[i].detail .. day

\* The tables and their writers; a latest table holds one quote per ISIN.
TablesOK ==
    /\ day \in Days /\ pending \subseteq Quotes
    /\ tables \subseteq {"detail", "latest"} \X Days
    /\ details \in [Days -> SUBSET AllPrices] /\ latest \in [Days -> SUBSET Quotes]
    /\ \A d \in Days : \A q, r \in latest[d] : q.isin = r.isin => q = r
    /\ batch \in [Isins -> Batch] /\ \A i \in Isins : BatchOK(i)

\* The readers and their sheets.
SheetsOK ==
    /\ left \in BOOLEAN
    /\ export.pc \in {"idle", "table", "laid out", "saved", "uploaded", "sent"}
    /\ Range(export.sheet) \subseteq Row
    /\ query.pc \in {"idle", "days", "groups", "replied"}
    /\ query.status \in {0, 200, 500}
    /\ Range(query.sheet) \subseteq Row

\* Type correctness.
TypeOK == TablesOK /\ SheetsOK

\* The rows of a sheet that are about a quote.
RowsOf(sheet, q) == {k \in DOMAIN sheet : sheet[k].of = q}

\* From some row on, the k-th row of a quote has its k-th bid and its k-th ask,
\* each in the column of its side, and a blank where there is none.
ShowsInOrder(sheet, q) ==
    \E at \in 0 .. Len(sheet) :
        /\ \A k \in DOMAIN q.bids \cup DOMAIN q.asks : at + k \in RowsOf(sheet, q)
        /\ \A k \in RowsOf(sheet, q) :
            /\ sheet[k].bid = IF k - at \in DOMAIN q.bids THEN <<q, "BID", k - at>> ELSE None
            /\ sheet[k].ask = IF k - at \in DOMAIN q.asks THEN <<q, "ASK", k - at>> ELSE None

\* A sheet shows these quotes of day d, no others, with all their prices in
\* their order.
Shows(sheet, d, quotes) ==
    /\ {r.of : r \in Range(sheet)} = quotes
    /\ \A q \in quotes : ShowsInOrder(sheet, q)
    /\ \A r \in Range(sheet) : r.day = d

\* A sheet has every price of a quote once, in the column of its side.
ShowsOnce(sheet, q) ==
    LET rows == RowsOf(sheet, q)
    IN  /\ {sheet[k].bid : k \in rows} \ {None} = Side(Prices(q), "BID")
        /\ {sheet[k].ask : k \in rows} \ {None} = Side(Prices(q), "ASK")
        /\ \A j, k \in rows : j # k =>
            /\ sheet[j].bid = sheet[k].bid => sheet[j].bid = None
            /\ sheet[j].ask = sheet[k].ask => sheet[j].ask = None

\* The periodic export lays out the latest table as it is at its SELECT,
\* whichever day it has become by then: every ISIN, also one without prices,
\* and every price, the shorter side left blank
\* (export_service.go:76-192, record.md:73).
ExportShowsTable ==
    [][export.pc = "table" /\ export'.pc = "laid out"
        => Shows(export'.sheet, export.table, latest[export.table])]_export

\* A request for a range of days shows each day whole or not at all: it adds,
\* below the rows of the days before, which stay, all that the day's table holds
\* at its SELECT, while tables are created and written, or skips the day and
\* leaves the sheet as it is, for want of a table or for a failed lookup
\* (query_service.go:79-178, 505-507).
DailyEndShowsDays ==
    [][query.pc = "days" /\ query'.pc = "days"
        => \/ query'.sheet = query.sheet
           \/ /\ <<"latest", query.day>> \in tables
              /\ IsPrefix(query.sheet, query'.sheet)
              /\ Shows(SubSeq(query'.sheet, Len(query.sheet) + 1, Len(query'.sheet)),
                       query.day, latest[query.day])]_query

\* A reply for a range of hours is about whole messages, each once and with
\* all its prices, although the groups and the details of each are read in
\* statements of their own while InsertBatch commits; and about those alone
\* that were stored on that day and have a price whose hour, counted in UTC,
\* lies in the range (query_service.go:212-289).
TimeRangeShowsMessages ==
    query.kind = "time-range" /\ query.pc = "replied" /\ query.status = 200 =>
        \A q \in {r.of : r \in Range(query.sheet)} :
            /\ \E p \in Prices(q) \cap details[query.day] :
                 Hour(p) - Zone - query.day * HoursPerDay \in query.from .. query.to
            /\ ShowsOnce(query.sheet, q)

\* The prices of a latest quote are in the detail table of its day, or in
\* that of the day before when midnight fell between the two names
\* (bond_quote_service.go:222-223).
LatestHasDetails ==
    \A d \in Days : \A q \in latest[d] :
        Prices(q) \subseteq details[d] \cup (IF d > 0 THEN details[d - 1] ELSE {})

Final(d) == d < day /\ \A i \in Isins : d \notin {batch[i].detail, batch[i].latest}

\* A day is final once it is past and the InsertBatch calls that named its
\* tables are over: what a daily-end export reads from then on never changes,
\* however late quotes arrive (bond_quote_service.go:208-223,
\* query_service.go:78-92).
PastDayIsFinal ==
    [][\A d \in Days : Final(d) =>
        Final(d)' /\ latest'[d] = latest[d] /\ details'[d] = details[d]]_vars

\* A saved file goes from the disk only after its link was sent; if a step
\* fails it stays (export_service.go:200-240).
FileKeptUntilSent ==
    [][OnDisk /\ ~OnDisk' => export.pc = "sent" \/ left']_export
=============================================================================
