------------------------- MODULE DailyTablesProofs -------------------------
(***************************************************************************)
(* DailyTables on every calendar: its types, the order in which tables     *)
(* appear, the alarm, and that today's tables exist.                       *)
(***************************************************************************)
EXTENDS DailyTables, TLAPS

\* The arithmetic of the week: a Monday is at most seven days away, the day
\* counted to is a Monday, and the day after any day but a Sunday has the same
\* Monday ahead, the day after a Sunday the one a week later.
LEMMA Week ==
    ASSUME NEW d \in Nat
    PROVE  /\ DaysUntilMonday(d) \in 1 .. 7
           /\ NextMonday(d) \in Nat
           /\ Weekday(NextMonday(d)) = Monday
           /\ Weekday(d) # Sunday => NextMonday(d + 1) = NextMonday(d)
           /\ Weekday(d) = Sunday => NextMonday(d) = d + 1 /\ NextMonday(d + 1) = d + 8
BY DEF DaysUntilMonday, Weekday, Monday, Sunday, NextMonday

\* The tables CreateTables makes go up to the day the loop sleeps until.
LEMMA LastDate == ASSUME NEW d \in Nat PROVE LastWeekDate(d) = NextMonday(d)
BY DEF LastWeekDate, NextMonday

\* The two tables of a day.
LEMMA TablesOfDay ==
    ASSUME NEW d \in Nat
    PROVE  /\ Detail(d) \in TableSet /\ Detail(d).of = d /\ Detail(d).kind = "detail"
           /\ Latest(d) \in TableSet /\ Latest(d).of = d /\ Latest(d).kind = "latest"
BY DEF Detail, Latest, TableSet

\* A table is one of the two of its day.
LEMMA TableIs ==
    ASSUME NEW t \in TableSet
    PROVE  /\ t.of \in Nat
           /\ t.kind = "detail" => t = Detail(t.of)
           /\ t.kind # "detail" => t.kind = "latest" /\ t = Latest(t.of)
BY DEF Detail, Latest, TableSet

\* TypeOK without the bounds that need the order of the steps.
Types ==
    /\ day \in Nat /\ boot \in Nat
    /\ tables \subseteq TableSet
    /\ pc \in {"down", "create", "plan", "sleep"}
    /\ started \in BOOLEAN /\ failed \in BOOLEAN /\ faults \in 0 .. MaxFaults
    /\ from \in Nat /\ next \in TableSet
    /\ alarm \in Nat

\* A process that has not left its first CreateTables call, or has just left
\* it, started today or yesterday; a later call began today.
InTime ==
    /\ boot <= day
    /\ pc = "down" => ~started
    /\ pc = "create" => /\ next.of \in from .. LastWeekDate(from)
                        /\ ~started => from = boot /\ day \in boot .. boot + 1
                        /\ started => from = day /\ boot < from
    /\ pc \in {"plan", "sleep"} => started
    /\ pc = "plan" => /\ from = boot \/ from = day
                      /\ from = boot => day \in boot .. boot + 1
    /\ pc = "sleep" => Weekday(alarm) = Monday /\ day <= alarm /\ boot < alarm

\* What a CreateTables call has made so far.
Made ==
    /\ pc = "create" /\ ~failed => \A d \in from .. next.of - 1 : HasTables(d)
    /\ pc = "create" /\ next.kind = "latest" => Detail(next.of) \in tables
    /\ pc = "plan" /\ ~failed => \A d \in from .. LastWeekDate(from) : HasTables(d)

\* From today to the alarm there are tables, or the week is slept through.
Overslept == Weekday(boot) = Sunday /\ alarm = boot + 8
Covered ==
    ~failed =>
        /\ pc = "sleep" =>
             \/ \A d \in day .. alarm : HasTables(d)
             \/ Overslept /\ from = boot /\ boot < day /\ (day = boot + 1 => HasTables(day))
        /\ pc = "create" /\ started => HasTables(day) \/ (Overslept /\ from = boot + 8)

\* Init establishes the parts.
LEMMA InitParts == ASSUME Init PROVE Types /\ InTime /\ Made /\ Covered
<1>1. day \in Nat /\ Detail(0) \in TableSet
  BY DayAssumption, TablesOfDay DEF Init
<1>2. 0 \in Nat /\ {} \subseteq TableSet /\ 0 \in 0 .. MaxFaults
  BY DayAssumption
<1>3. Types
  BY <1>1, <1>2 DEF Init, Types
<1> QED
  BY <1>1, <1>3 DEF Init, InTime, Made, Covered

\* Types are kept by every step.
LEMMA TypesStep == ASSUME Types, [Next]_vars PROVE Types'
<1> USE DayAssumption DEF Types
<1>1. CASE Boot
  BY <1>1, TablesOfDay DEF Boot, Begin
<1>2. CASE Create
  <2>1. next.of \in Nat /\ next.of + 1 \in Nat
    BY TableIs
  <2>2. next' \in TableSet
    BY <1>2, <2>1, TablesOfDay DEF Create
  <2>3. pc' \in {"create", "plan"} /\ started' \in BOOLEAN
    BY <1>2 DEF Create, Return
  <2> QED
    BY <1>2, <2>2, <2>3 DEF Create
<1>3. CASE CreateFails
  BY <1>3 DEF CreateFails, Return
<1>4. CASE Plan
  BY <1>4, Week DEF Plan
<1>5. CASE Wake
  BY <1>5, TablesOfDay DEF Wake, Begin
<1>6. CASE Tomorrow
  BY <1>6 DEF Tomorrow
<1>7. CASE Stop
  <2>1. 0 \in Nat /\ Detail(0) \in TableSet /\ FALSE \in BOOLEAN
    BY TablesOfDay
  <2>2. faults' \in 0 .. MaxFaults
    BY <1>7 DEF Stop
  <2> QED
    BY <1>7, <2>1, <2>2 DEF Stop, NoProcess
<1>8. CASE CalendarEnds \/ UNCHANGED vars
  BY <1>8 DEF CalendarEnds, vars
<1> QED
  BY <1>1, <1>2, <1>3, <1>4, <1>5, <1>6, <1>7, <1>8 DEF Next

\* So is the relation between the calendar and the goroutine.
LEMMA InTimeStep == ASSUME Types, InTime, [Next]_vars PROVE InTime'
<1> USE DEF Types, InTime
<1>a. ASSUME NEW d \in Nat PROVE LastWeekDate(d) \in Nat /\ d <= LastWeekDate(d)
  BY Week, LastDate DEF NextMonday
<1>1. CASE Boot
  BY <1>1, <1>a, TablesOfDay DEF Boot, Begin, LastWeekDate
<1>2. CASE Create
  <2>1. next.of \in Nat /\ next.of + 1 \in Nat
    BY TableIs
  <2>2. CASE pc' = "create"
    <3>1. from' = from /\ started' = started
      BY <1>2, <2>2 DEF Create, Return
    <3>2. next'.of \in from .. LastWeekDate(from)
      BY <1>2, <2>1, <2>2, <1>a, TablesOfDay DEF Create, Return
    <3> QED
      BY <1>2, <2>2, <3>1, <3>2 DEF Create, LastWeekDate
  <2>3. CASE pc' = "plan"
    BY <1>2, <2>3 DEF Create, Return
  <2> QED
    BY <1>2, <2>2, <2>3 DEF Create, Return
<1>3. CASE CreateFails
  BY <1>3 DEF CreateFails, Return
<1>4. CASE Plan
  BY <1>4, Week DEF Plan, NextMonday
<1>5. CASE Wake
  BY <1>5, <1>a, TablesOfDay DEF Wake, Begin, LastWeekDate
<1>6. CASE Tomorrow
  BY <1>6 DEF Tomorrow, LastWeekDate
<1>7. CASE Stop
  BY <1>7 DEF Stop, NoProcess
<1>8. CASE CalendarEnds \/ UNCHANGED vars
  BY <1>8 DEF CalendarEnds, vars, LastWeekDate
<1> QED
  BY <1>1, <1>2, <1>3, <1>4, <1>5, <1>6, <1>7, <1>8 DEF Next

\* So is what a call has made so far.
LEMMA MadeStep == ASSUME Types, InTime, Made, [Next]_vars PROVE Made'
<1> USE DEF Types, Made
<1>1. CASE Boot \/ Wake
  BY <1>1, TablesOfDay DEF Boot, Wake, Begin
<1>2. CASE Create
  <2>1. next.of \in Nat /\ from \in Nat /\ from' = from /\ failed' = failed
    BY <1>2, TableIs DEF Create
  <2>2. CASE next.kind = "detail"
    <3>1. next = Detail(next.of) /\ next' = Latest(next.of) /\ pc' = "create"
      BY <1>2, <2>2, TableIs DEF Create
    <3>2. next'.of = next.of /\ Detail(next'.of) \in tables'
      BY <1>2, <2>1, <3>1, TablesOfDay DEF Create
    <3> QED
      BY <1>2, <2>1, <3>1, <3>2 DEF Create, HasTables
  <2>3. CASE next.kind # "detail"
    <3>1. next = Latest(next.of) /\ next.kind = "latest"
      BY <2>3, TableIs
    <3>2. {Detail(next.of), Latest(next.of)} \subseteq tables'
      BY <1>2, <2>1, <3>1 DEF Create
    <3>3. ASSUME ~failed PROVE \A d \in from .. next.of : HasTables(d)'
      <4>1. \A d \in from .. next.of - 1 : HasTables(d)'
        BY <1>2, <3>3 DEF Create, HasTables
      <4> QED
        BY <2>1, <3>2, <4>1 DEF HasTables
    <3>4. CASE next.of < LastWeekDate(from)
      <4>1. pc' = "create" /\ next' = Detail(next.of + 1)
        BY <1>2, <2>3, <3>4 DEF Create
      <4>2. next'.of - 1 = next.of /\ next'.kind = "detail"
        BY <2>1, <4>1, TablesOfDay
      <4> QED
        BY <2>1, <3>3, <4>1, <4>2
    <3>5. CASE ~(next.of < LastWeekDate(from))
      <4>1. pc' = "plan" /\ next.of = LastWeekDate(from)
        BY <1>2, <2>1, <2>3, <3>5, Week, LastDate DEF Create, Return, InTime
      <4> QED
        BY <2>1, <3>3, <4>1 DEF LastWeekDate
    <3> QED
      BY <3>4, <3>5
  <2> QED
    BY <2>2, <2>3
<1>3. CASE CreateFails
  BY <1>3 DEF CreateFails, Return
<1>4. CASE Plan \/ Stop
  BY <1>4 DEF Plan, Stop
<1>5. CASE Tomorrow \/ CalendarEnds \/ UNCHANGED vars
  BY <1>5 DEF Tomorrow, CalendarEnds, vars, HasTables, LastWeekDate
<1> QED
  BY <1>1, <1>2, <1>3, <1>4, <1>5 DEF Next

\* And that there are tables from today to the alarm: the loop counts to the
\* Monday that the call it returns from has reached.
LEMMA CoveredStep == ASSUME Types, InTime, Made, Covered, [Next]_vars PROVE Covered'
<1> USE DEF Types, Covered
<1>1. CASE Boot
  BY <1>1 DEF Boot, Begin
<1>2. CASE Create
  BY <1>2 DEF Create, Return, HasTables, Overslept
<1>3. CASE CreateFails
  BY <1>3 DEF CreateFails, Return
<1>4. CASE Plan
  <2>1. /\ from <= day /\ from \in {boot, day}
        /\ from = boot => day \in boot .. boot + 1
        /\ ~failed => \A d \in from .. NextMonday(from) : HasTables(d)
    BY <1>4, LastDate DEF Plan, InTime, Made
  <2>2. alarm' = NextMonday(day) /\ pc' = "sleep" /\ UNCHANGED <<day, boot, from, failed, tables>>
    BY <1>4 DEF Plan
  <2>3. CASE NextMonday(day) = NextMonday(from)
    BY <2>1, <2>2, <2>3 DEF HasTables
  <2>4. CASE NextMonday(day) # NextMonday(from)
    <3>1. from = boot /\ day = boot + 1 /\ Weekday(boot) = Sunday
      BY <2>1, <2>4, Week
    <3>2. NextMonday(from) = boot + 1 /\ alarm' = boot + 8
      BY <2>2, <3>1, Week
    <3>3. ~failed => HasTables(day)
      BY <2>1, <3>1, <3>2
    <3> QED
      BY <2>2, <3>1, <3>2, <3>3 DEF HasTables, Overslept
  <2> QED
    BY <2>3, <2>4
<1>5. CASE Wake
  BY <1>5 DEF Wake, Begin, HasTables, Overslept
<1>6. CASE Tomorrow
  BY <1>6 DEF Tomorrow, HasTables, Overslept, InTime
<1>7. CASE Stop
  BY <1>7 DEF Stop
<1>8. CASE CalendarEnds \/ UNCHANGED vars
  BY <1>8 DEF CalendarEnds, vars, HasTables, Overslept
<1> QED
  BY <1>1, <1>2, <1>3, <1>4, <1>5, <1>6, <1>7, <1>8 DEF Next

\* The parts together are inductive.
LEMMA Parts == Spec => [](Types /\ InTime /\ Made /\ Covered)
<1>1. Init => Types /\ InTime /\ Made /\ Covered
  BY InitParts
<1>2. Types /\ InTime /\ Made /\ Covered /\ [Next]_vars
        => (Types /\ InTime /\ Made /\ Covered)'
  BY TypesStep, InTimeStep, MadeStep, CoveredStep
<1> QED
  BY <1>1, <1>2, PTL DEF Spec

\* Types, and the service sleeps until a Monday that is not past, on every
\* calendar and after any failures, stops and starts.
THEOREM TypeCorrect == Spec => []TypeOK
<1>1. Types /\ InTime => TypeOK
  BY DEF Types, InTime, TypeOK
<1> QED
  BY Parts, <1>1, PTL

\* Whenever quotes may be written, the tables InsertBatch names exist: on every
\* day of every calendar, unless a call failed, or in the week slept through
\* after a start on a Sunday.
THEOREM TablesEveryDay == Spec => []TodayHasTables
<1>1. Types /\ InTime /\ Made /\ Covered => TodayHasTables
  <2> SUFFICES ASSUME Types, InTime, Made, Covered, started, ~failed
               PROVE  HasTables(day) \/ SleptThrough(day)
    BY DEF TodayHasTables
  <2>1. CASE pc = "plan"
    <3>1. from \in Nat /\ from <= day /\ day <= from + 1
      BY <2>1 DEF Types, InTime
    <3>2. day \in from .. LastWeekDate(from)
      BY <3>1, Week, LastDate DEF Types, NextMonday
    <3> QED
      BY <2>1, <3>2 DEF Made
  <2>2. CASE pc = "sleep"
    <3>1. day \in Nat /\ boot \in Nat /\ alarm \in Nat /\ day <= alarm
      BY <2>2 DEF Types, InTime
    <3>2. CASE \A d \in day .. alarm : HasTables(d)
      BY <3>1, <3>2
    <3>3. CASE Overslept /\ from = boot /\ boot < day /\ (day = boot + 1 => HasTables(day))
      BY <3>1, <3>3 DEF Overslept, SleptThrough
    <3> QED
      BY <2>2, <3>2, <3>3 DEF Covered
  <2>3. CASE pc = "create"
    BY <2>3 DEF Covered, Overslept, SleptThrough, InTime, Types
  <2>4. pc # "down"
    BY DEF InTime
  <2> QED
    BY <2>1, <2>2, <2>3, <2>4 DEF Types
<1> QED
  BY Parts, <1>1, PTL

\* No failure between the two tables of a day leaves its latest table without
\* its detail table.
THEOREM DetailFirst == Spec => []LatestImpliesDetail
<1>1. Init => LatestImpliesDetail
  BY DEF Init, LatestImpliesDetail
<1>2. Types /\ Made /\ LatestImpliesDetail /\ [Next]_vars => LatestImpliesDetail'
  <2> SUFFICES ASSUME Types, Made, LatestImpliesDetail, [Next]_vars
               PROVE  LatestImpliesDetail'
    OBVIOUS
  <2>1. CASE Create
    <3>1. tables' = tables \cup {next} /\ next \in TableSet
      BY <2>1 DEF Create, Types
    <3>2. next.kind = "latest" => Detail(next.of) \in tables
      BY <2>1 DEF Create, Made
    <3> QED
      BY <3>1, <3>2 DEF LatestImpliesDetail
  <2>2. CASE ~Create
    <3>1. tables' = tables
      BY <2>2 DEF Next, vars, Boot, CreateFails, Plan, Wake, Stop, Tomorrow, CalendarEnds
    <3> QED
      BY <3>1 DEF LatestImpliesDetail
  <2> QED
    BY <2>1, <2>2
<1> QED
  BY Parts, <1>1, <1>2, PTL DEF Spec

\* The loop never plans a wake-up that is due already.
THEOREM AlarmIsAhead == Spec => WakesLater
<1>1. Types /\ [Next]_vars => [pc' = "sleep" => alarm' > day]_<<pc, alarm>>
  <2> SUFFICES ASSUME Types, [Next]_vars, pc' = "sleep", <<pc, alarm>>' # <<pc, alarm>>
               PROVE  alarm' > day
    OBVIOUS
  <2>1. Plan
    BY DEF Next, vars, Boot, Begin, Create, Return, CreateFails, Wake, Stop, Tomorrow,
           CalendarEnds
  <2> QED
    BY <2>1, Week DEF Plan, NextMonday, Types
<1> QED
  BY Parts, <1>1, PTL DEF Spec, WakesLater
=============================================================================
