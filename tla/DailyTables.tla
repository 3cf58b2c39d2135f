---------------------------- MODULE DailyTables ----------------------------
(***************************************************************************)
(* The tables of each day, t_bond_quote_detail_<day> and                   *)
(* t_bond_latest_quote_<day>, that InsertBatch and the exports name by the *)
(* clock, and createTableService (service/create_table_service.go), which  *)
(* makes them: those of the rest of the week when the process starts, and  *)
(* those of the week that begins on every Monday.  Creating a table may    *)
(* fail, midnight falls between any two statements, and the process may    *)
(* stop at any moment and start again days later.                          *)
(*                                                                         *)
(* A day is a number; day 0 is a Sunday, as in Go's time.Weekday.  A call  *)
(* of CreateTables takes less than a day: the one at startup sees midnight *)
(* at most once, the ones that begin at midnight not at all.               *)
(***************************************************************************)
EXTENDS Integers

CONSTANTS
    FirstDays,  \* the days on which the process may start first
    LastDay,    \* bound on the calendar
    MaxFaults   \* bound on how often a table cannot be created or the process stops

ASSUME DayAssumption == FirstDays \subseteq Nat /\ LastDay \in Nat /\ MaxFaults \in Nat

VARIABLES
    day,        \* the calendar day
    tables,     \* the tables of the database
    pc,         \* createTableService: creating, planning, asleep; or no process
    boot,       \* the day the process started
    started,    \* StartWeeklyTableCreation has returned to main: quotes flow
    from,       \* the argument of CreateTables
    next,       \* the table CreateTables is at
    alarm,      \* nextMonday
    failed,     \* a CreateTables call of this process returned an error
    faults      \* how many failures and stops there were

vars == <<day, tables, pc, boot, started, from, next, alarm, failed, faults>>

Sunday == 0
Monday == 1
Weekday(d) == d % 7

\* Days from d to the Monday after it.
\* Variant: the negative difference is used as it is.
DaysUntilMondaySigned(d) == Monday - Weekday(d)
DaysUntilMonday(d) ==
    LET k == Monday - Weekday(d) IN IF k <= 0 THEN k + 7 ELSE k

NextMonday(d) == d + DaysUntilMonday(d)

\* getWeekDates(d) runs from d to this day: the next Monday is included.
\* Variant: it is not.
LastWeekDateExclusive(d) == d + DaysUntilMonday(d) - 1
LastWeekDate(d) == d + DaysUntilMonday(d)

Detail(d) == [of |-> d, kind |-> "detail"]
Latest(d) == [of |-> d, kind |-> "latest"]
HasTables(d) == {Detail(d), Latest(d)} \subseteq tables
Up == pc # "down"

Init ==
    /\ day \in FirstDays
    /\ tables = {}
    /\ pc = "down"
    /\ boot = 0 /\ started = FALSE /\ from = 0 /\ next = Detail(0) /\ alarm = 0
    /\ failed = FALSE /\ faults = 0

NoProcess ==
    /\ boot' = 0 /\ started' = FALSE /\ from' = 0 /\ next' = Detail(0) /\ alarm' = 0
    /\ failed' = FALSE

\* CreateTables(d) begins, with the detail table of d.
Begin(d) == pc' = "create" /\ from' = d /\ next' = Detail(d)

\* main calls StartWeeklyTableCreation.
Boot ==
    /\ pc = "down"
    /\ boot' = day /\ started' = FALSE /\ failed' = FALSE
    /\ Begin(day)
    /\ UNCHANGED <<day, tables, alarm, faults>>

\* The call returns: to main the first time, to the loop later.
Return == pc' = "plan" /\ started' = TRUE

\* Variant: the latest table first.
CreateLatestFirst ==
    /\ pc = "create"
    /\ tables' = tables \cup {IF next.kind = "detail" THEN Latest(next.of) ELSE Detail(next.of)}
    /\ IF next.kind = "detail"
       THEN next' = Latest(next.of) /\ UNCHANGED <<pc, started>>
       ELSE IF next.of < LastWeekDate(from)
       THEN next' = Detail(next.of + 1) /\ UNCHANGED <<pc, started>>
       ELSE Return /\ UNCHANGED next
    /\ UNCHANGED <<day, boot, from, alarm, failed, faults>>

\* HasTable, and AutoMigrate when there is none; then the next table.
Create ==
    /\ pc = "create"
    /\ tables' = tables \cup {next}
    /\ IF next.kind = "detail"
       THEN next' = Latest(next.of) /\ UNCHANGED <<pc, started>>
       ELSE IF next.of < LastWeekDate(from)
       THEN next' = Detail(next.of + 1) /\ UNCHANGED <<pc, started>>
       ELSE Return /\ UNCHANGED next
    /\ UNCHANGED <<day, boot, from, alarm, failed, faults>>

\* AutoMigrate fails, also on a table that is there when HasTable could not
\* look it up: CreateTables returns at once and the error is logged.
CreateFails ==
    /\ pc = "create"
    /\ Return
    /\ failed' = TRUE
    /\ UNCHANGED <<day, tables, boot, from, next, alarm>>
    /\ faults < MaxFaults /\ faults' = faults + 1

\* The goroutine reads the clock and goes to sleep until the next Monday.
Plan ==
    /\ pc = "plan"
    /\ alarm' = NextMonday(day)
    /\ pc' = "sleep"
    /\ UNCHANGED <<day, tables, boot, started, from, next, failed, faults>>

\* It wakes up as that Monday begins.
Wake ==
    /\ pc = "sleep" /\ day = alarm
    /\ Begin(alarm)
    /\ UNCHANGED <<day, tables, boot, started, alarm, failed, faults>>

\* Midnight.
Tomorrow ==
    /\ day < LastDay
    /\ \/ pc = "down"
       \/ pc = "sleep" /\ day < alarm
       \/ pc = "create" /\ ~started /\ day = boot
       \/ pc = "plan" /\ from = boot /\ day = boot
    /\ day' = day + 1
    /\ UNCHANGED <<tables, pc, boot, started, from, next, alarm, failed, faults>>

\* The process is stopped, or crashes, and its variables are gone.
Stop ==
    /\ Up
    /\ pc' = "down" /\ NoProcess
    /\ UNCHANGED <<day, tables>>
    /\ faults < MaxFaults /\ faults' = faults + 1

\* The bounded calendar is over.
CalendarEnds == day = LastDay /\ UNCHANGED vars

Next ==
    \/ Boot \/ Create \/ CreateFails \/ Plan \/ Wake \/ Stop
    \/ Tomorrow \/ CalendarEnds

Spec == Init /\ [][Next]_vars
-----------------------------------------------------------------------------
(* Properties.                                                             *)

TableSet == [of : Nat, kind : {"detail", "latest"}]

\* Types; and while it sleeps, createTableService waits for a Monday that is
\* not past.
TypeOK ==
    /\ day \in Nat /\ boot \in Nat /\ boot <= day
    /\ tables \subseteq TableSet
    /\ pc \in {"down", "create", "plan", "sleep"}
    /\ started \in BOOLEAN /\ failed \in BOOLEAN /\ faults \in 0 .. MaxFaults
    /\ from \in Nat /\ next \in TableSet
    /\ pc = "create" => next.of \in from .. LastWeekDate(from)
    /\ alarm \in Nat
    /\ pc = "sleep" => Weekday(alarm) = Monday /\ day <= alarm

\* The week a process sleeps through that starts on a Sunday: midnight falls
\* between creating the tables, Sunday's and Monday's, and reading the clock
\* again, and the Monday it plans for is the one after.
SleptThrough(d) ==
    /\ Weekday(boot) = Sunday /\ alarm = boot + 8 /\ d \in boot + 2 .. boot + 8
    /\ from \in {boot, boot + 8}

\* Whenever quotes may be written, the tables InsertBatch names by the clock
\* exist: through every midnight, also the one at which the next week's tables
\* are only about to be created, and after any stops and starts; unless a
\* CreateTables call of the process failed, or in the one week, from Tuesday
\* to the next Monday, that a start on a Sunday at midnight sleeps through
\* (create_table_service.go:53-85, bond_quote_service.go:208-217).
TodayHasTables == started /\ ~failed => HasTables(day) \/ SleptThrough(day)

\* A failure between the two tables of a day never leaves a latest table
\* without its detail table, so a query that finds the one finds the other
\* (create_table_service.go:33-44).
LatestImpliesDetail == \A t \in tables : t.kind = "latest" => Detail(t.of) \in tables

\* The loop never plans a wake-up that is due already: on a Monday it would
\* otherwise create the week's tables over and over until midnight
\* (create_table_service.go:65-75).
WakesLater == [][pc' = "sleep" => alarm' > day]_<<pc, alarm>>
=============================================================================
