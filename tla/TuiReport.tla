------------------------------ MODULE TuiReport ------------------------------
(***************************************************************************)
(* The report of the terminal frontend (tui/app.rs, report/): the uses   *)
(* of the last 365 days as a grid with a cursor, the hours of the day      *)
(* under it, and summary and breakdowns of a chosen range.  Every part is  *)
(* read by a query of its own, at its own time, while scans commit and     *)
(* midnight passes.                                                        *)
(*                                                                         *)
(* Days are East-8 calendar days, numbered from a Sunday.  A use is a      *)
(* record's day and a number, and a sum of records is the set of them.     *)
(* A scan of unchanged files has no effect here; the update keys are in    *)
(* UpdateFlow.                                                             *)
(***************************************************************************)
EXTENDS Integers, Sequences, FiniteSets

CONSTANTS
  GridDays,     \* days of the report, 365
  MonthStarts,  \* first days of months
  YearStarts,   \* first days of years
  Clocks,       \* days on which something happens
  EarlyUses,    \* what an older database holds
  MaxUses       \* bound: uses stored while the program runs

ASSUME ReportAssumption ==
  /\ GridDays \in Nat \ {0} /\ GridDays % 7 = 1
  /\ YearStarts \subseteq MonthStarts /\ MonthStarts \subseteq Int
  /\ Clocks \subseteq Int /\ MaxUses \in Nat
  /\ IsFiniteSet(EarlyUses) /\ \A u \in EarlyUses : u[1] \in Int /\ u[2] \in Nat

\* The report is longer than a month and than the last two weeks; the calendar covers
\* the days on which something happens; and an older database is of their past.
ASSUME CalendarAssumption ==
  /\ GridDays >= 14
  /\ \A d \in Clocks :
       /\ \E f \in MonthStarts : d - GridDays < f /\ f <= d
       /\ \E f \in YearStarts : f <= d
       /\ \E f \in YearStarts : f > d
       /\ \A u \in EarlyUses : u[1] <= d

VARIABLES
  clock,      \* today
  uses,      \* the database
  told,       \* events of scans of this program over changed files, not yet handled
  untold,     \* history: something was stored since the last reload began that no event tells of
  misread,    \* history: the last query of the start failed, and none succeeded since
  phase,      \* "starting", "running" or "ended"
  queries,       \* queries still to be made by what is being handled
  asOf,       \* the day the range's window was made on
  range, cursor, today, start, weeks,                \* TuiApp's fields of these names
  days, hours, byProvider, byModel, rangeDays

shownVars == <<days, hours, byProvider, byModel, rangeDays>>
gridVars == <<today, start, weeks>>
reportVars == <<clock, uses, told, untold, misread, phase, queries, asOf, range, cursor, gridVars, shownVars>>

-----------------------------------------------------------------------------
\* Dates.

Weekday(d) == d % 7
Monday(d) == d - ((d + 6) % 7)
Latest(S, d) == CHOOSE f \in S : f <= d /\ \A g \in S : g <= d => g <= f
Earliest(S, d) == CHOOSE f \in S : f > d /\ \A g \in S : g > d => f <= g

\* The days of a window made on day d.
LastDays(n, d) == d - n + 1 .. d
PeriodFrom(S, d) == Latest(S, d) .. Earliest(S, d) - 1

Ranges == <<"Year365", "Today", "Yesterday", "ThisWeek", "LastWeek", "ThisMonth", "ThisYear">>

Window(r, d) ==
  CASE r = "Year365"   -> LastDays(GridDays, d)
    [] r = "Today"      -> {d}
    [] r = "Yesterday"  -> {d - 1}
    [] r = "ThisWeek"  -> Monday(d) .. Monday(d) + 6
    [] r = "LastWeek"  -> Monday(d) - 7 .. Monday(d) - 1
    [] r = "ThisMonth" -> PeriodFrom(MonthStarts, d)
    [] r = "ThisYear"  -> PeriodFrom(YearStarts, d)

Position(r) == CHOOSE i \in DOMAIN Ranges : Ranges[i] = r
Stepped(r, dir) == Ranges[((Position(r) - 1 + dir) % Len(Ranges)) + 1]

-----------------------------------------------------------------------------
\* The grid: whole weeks from a Sunday.

GridStart(d) == LET anchor == d - (GridDays - 1) IN anchor - Weekday(anchor)
WeekIndex(d, first) == (d - first) \div 7
WeekCount(first, d) == WeekIndex(d, first) + 1
LastWeek == IF weeks = 0 THEN 0 ELSE weeks - 1
SelectedDate == start + 7 * cursor[1] + cursor[2]

\* The Nth cell from here that the grid still has.
Within(i, last) == IF i < 0 THEN 0 ELSE IF i > last THEN last ELSE i

-----------------------------------------------------------------------------
\* The summary of a series of days (report/stats.rs), for the grid's days to t.

InReport(S, t) == {u \in S : u[1] \in LastDays(GridDays, t)}
ActiveDays(S, t) == {u[1] : u \in InReport(S, t)}

\* longest_streak: after each day, the run it ends and the longest so far.
RunsAfter(active, first, t) ==
  LET after[d \in first - 1 .. t] ==
        IF d < first THEN [run |-> 0, longest |-> 0]
        ELSE LET before == after[d - 1]
                 run    == IF d \in active THEN before.run + 1 ELSE 0
             IN  [run |-> run, longest |-> IF run > before.longest THEN run ELSE before.longest]
  IN  after

LongestStreak(active, t) == RunsAfter(active, t - GridDays + 1, t)[t].longest

\* current_streak: the days back from each day, no further than the first.
RunUpTo(active, first, t) ==
  LET upTo[d \in first - 1 .. t] ==
        IF d \notin active THEN 0 ELSE IF d = first THEN 1 ELSE 1 + upTo[d - 1]
  IN  upTo

CurrentStreak(active, t) ==
  RunUpTo(active, t - GridDays + 1, t)[IF t \in active THEN t ELSE t - 1]

-----------------------------------------------------------------------------
\* TuiApp::new.  Its date before the first reload is that of UTC, which is behind
\* until eight in the morning.
FullReload == <<"days", "hours", "provider", "model", "range">>

ReportInit ==
  /\ clock \in Clocks
  /\ uses \in {{}, EarlyUses}
  /\ told = 0 /\ untold = FALSE /\ misread = FALSE
  /\ phase = "starting" /\ queries = FullReload \o <<"cursor", "hours">>
  /\ asOf = clock
  /\ range = "Year365" /\ cursor = <<0, 0>>
  /\ today \in {clock, clock - 1} /\ start = today /\ weeks = 0
  /\ days = {} /\ hours = {} /\ byProvider = {} /\ byModel = {} /\ rangeDays = {}

-----------------------------------------------------------------------------
\* Meanwhile.

DayPasses ==
  /\ \E d \in Clocks : d > clock /\ clock' = d
  /\ UNCHANGED <<uses, told, untold, misread, phase, queries, asOf, range, cursor, gridVars, shownVars>>

\* A scan stores a use of today or of yesterday: this program's, which will hear of
\* it, or another's, or one that fails later on.
StoreUse(d, own) ==
  /\ phase # "ended"
  /\ Cardinality({u \in uses : u \notin EarlyUses}) < MaxUses
  /\ uses' = uses \cup {<<d, Cardinality(uses) + 1>>}
  /\ told' = IF own THEN told + 1 ELSE told
  /\ untold' = (untold \/ ~own)
  /\ UNCHANGED <<clock, misread, phase, queries, asOf, range, cursor, gridVars, shownVars>>

\* Files have changed, and all that is in them is known.
FindNothingNew ==
  /\ phase # "ended" /\ told = 0
  /\ told' = told + 1
  /\ UNCHANGED <<clock, uses, untold, misread, phase, queries, asOf, range, cursor, gridVars, shownVars>>

-----------------------------------------------------------------------------
\* The queries.

Reads(query) ==
  /\ queries # <<>> /\ Head(queries) = query
  /\ queries' = Tail(queries)
  /\ phase' = IF Len(queries) = 1 THEN "running" ELSE phase
  /\ UNCHANGED <<clock, uses, told>>

\* reload: the days, and with them the grid.
LoadDays ==
  /\ Reads("days")
  /\ days' = InReport(uses, clock)
  /\ today' = clock
  /\ start' = GridStart(clock)
  /\ weeks' = WeekCount(GridStart(clock), clock)
  /\ cursor' = <<Within(cursor[1], WeekCount(GridStart(clock), clock) - 1), cursor[2]>>
  /\ UNCHANGED <<untold, misread, asOf, range, hours, byProvider, byModel, rangeDays>>

LoadHours ==
  /\ Reads("hours")
  /\ hours' = {u \in uses : u[1] = SelectedDate}
  /\ misread' = FALSE
  /\ UNCHANGED <<untold, asOf, range, cursor, gridVars, days, byProvider, byModel, rangeDays>>

\* reload_range: three queries over one window.
LoadProviders ==
  /\ Reads("provider")
  /\ asOf' = clock
  /\ byProvider' = {u \in uses : u[1] \in Window(range, clock)}
  /\ UNCHANGED <<untold, misread, range, cursor, gridVars, days, hours, byModel, rangeDays>>

LoadModels ==
  /\ Reads("model")
  /\ byModel' = {u \in uses : u[1] \in Window(range, asOf)}
  /\ UNCHANGED <<untold, misread, asOf, range, cursor, gridVars, days, hours, byProvider, rangeDays>>

LoadRangeDays ==
  /\ Reads("range")
  /\ rangeDays' = {u \in uses : u[1] \in Window(range, asOf)}
  /\ UNCHANGED <<untold, misread, asOf, range, cursor, gridVars, days, hours, byProvider, byModel>>

\* At the start the cursor is put on today.
PlaceCursor ==
  /\ Reads("cursor")
  /\ cursor' = <<LastWeek, Weekday(today)>>
  /\ UNCHANGED <<untold, misread, asOf, range, gridVars, shownVars>>

\* A query fails: at the start the program makes do with what it has, later it ends.
QueryFails ==
  /\ queries # <<>> /\ Head(queries) # "cursor"
  /\ IF phase = "running"
     THEN phase' = "ended" /\ queries' = <<>>
     ELSE /\ queries' = IF Len(queries) > 1 THEN <<"cursor", "hours">> ELSE <<>>
          /\ phase' = IF Len(queries) > 1 THEN phase ELSE "running"
  /\ untold' = TRUE
  /\ misread' = (phase = "starting" /\ Len(queries) = 1)
  /\ UNCHANGED <<clock, uses, told, asOf, range, cursor, gridVars, shownVars>>

-----------------------------------------------------------------------------
\* The event loop.

AtRest == phase = "running" /\ queries = <<>>

\* handle_collector_event, of a scan that stored something.
OnScanCompleted ==
  /\ AtRest /\ told > 0
  /\ told' = told - 1 /\ untold' = FALSE
  /\ queries' = FullReload
  /\ UNCHANGED <<clock, uses, misread, phase, asOf, range, cursor, gridVars, shownVars>>

CycleRange(dir) ==
  /\ AtRest
  /\ range' = Stepped(range, dir)
  /\ queries' = <<"provider", "model", "range">>
  /\ UNCHANGED <<clock, uses, told, untold, misread, phase, asOf, cursor, gridVars, shownVars>>

\* A step to the edge of the grid and no further.
MoveSelection(dw, dr) ==
  LET next == <<Within(cursor[1] + dw, LastWeek), Within(cursor[2] + dr, 6)>> IN
  /\ AtRest
  /\ next # cursor
  /\ cursor' = next
  /\ queries' = <<"hours">>
  /\ UNCHANGED <<clock, uses, told, untold, misread, phase, asOf, range, gridVars, shownVars>>

\* Mutation: the hours are not read again.
GoToColumn_Only(w) ==
  /\ AtRest
  /\ cursor' = <<w, cursor[2]>>
  /\ queries' = <<>>
  /\ UNCHANGED <<clock, uses, told, untold, misread, phase, asOf, range, gridVars, shownVars>>

\* Home and End.
GoToColumn(w) ==
  /\ AtRest
  /\ cursor' = <<w, cursor[2]>>
  /\ queries' = <<"hours">>
  /\ UNCHANGED <<clock, uses, told, untold, misread, phase, asOf, range, gridVars, shownVars>>

ReportNext ==
  \/ DayPasses
  \/ \E d \in {clock - 1, clock}, own \in BOOLEAN : StoreUse(d, own)
  \/ FindNothingNew
  \/ LoadDays \/ LoadHours \/ LoadProviders \/ LoadModels \/ LoadRangeDays \/ PlaceCursor
  \/ QueryFails
  \/ OnScanCompleted
  \/ \E dir \in {-1, 1} : CycleRange(dir) \/ MoveSelection(dir, 0) \/ MoveSelection(0, dir)
  \/ \E w \in {0, LastWeek} : GoToColumn(w)

ReportSpec == ReportInit /\ [][ReportNext]_reportVars

-----------------------------------------------------------------------------
IsUse(u) == u[1] \in Int /\ u[2] \in Nat

ReportTypeOK ==
  /\ clock \in Clocks /\ told \in Nat /\ {untold, misread} \subseteq BOOLEAN
  /\ phase \in {"starting", "running", "ended"}
  /\ \A u \in uses : IsUse(u)
  /\ \A S \in {days, hours, byProvider, byModel, rangeDays} : S \subseteq uses
  /\ \E i \in DOMAIN Ranges : range = Ranges[i]

\* The hours beside the grid are those of the day under the cursor, after every way
\* to move it and after a reload has moved the grid under it: unless the start's last
\* query failed, which leaves those of the first cell beside a cursor on today.
HoursAreTheSelectedDays == AtRest /\ ~misread => \A u \in hours : u[1] = SelectedDate

\* The cursor is in the grid, and today in its last column, whichever day it is.
CursorIsInTheGrid ==
  AtRest /\ weeks > 0 =>
    /\ cursor[1] \in 0 .. weeks - 1 /\ cursor[2] \in 0 .. 6
    /\ WeekIndex(today, start) = weeks - 1
    /\ \A u \in days : WeekIndex(u[1], start) \in 0 .. weeks - 1

\* Nothing has been stored that this program did not hear of, or has still to handle.
Heard == AtRest /\ told = 0 /\ ~untold

\* Then the five queries agree with the database and with each other, although they
\* were made at different times and over windows made on different days.
ReportIsCurrent ==
  Heard =>
    /\ days = InReport(uses, today)
    /\ hours = {u \in uses : u[1] = SelectedDate}
    /\ \A S \in {byProvider, byModel, rangeDays} : S = {u \in uses : u[1] \in Window(range, asOf)}

\* The summary's total is the sum of the breakdown beside it, except on the last day
\* of a leap year, whose first day is out of the report's 365 days.
SummaryIsTheBreakdown ==
  Heard /\ ~(range = "ThisYear" /\ Latest(YearStarts, today) < today - GridDays + 1) =>
    InReport(rangeDays, today) = byProvider

\* The loops over the days find the longest run, and the run that ends today or
\* yesterday.
StreaksAreRuns ==
  AtRest =>
    LET active == ActiveDays(rangeDays, today)
        longest == LongestStreak(active, today)
        current == CurrentStreak(active, today)
        IsRun(d, n) == d - n + 1 .. d \subseteq active
    IN  /\ \E d \in LastDays(GridDays, today) : IsRun(d, longest)
        /\ ~\E d \in LastDays(GridDays, today) : IsRun(d, longest + 1)
        /\ current <= longest
        /\ \E d \in {today, today - 1} : IsRun(d, current) /\ d - current \notin active

ReportInv ==
  /\ ReportTypeOK
  /\ HoursAreTheSelectedDays
  /\ CursorIsInTheGrid
  /\ ReportIsCurrent
  /\ SummaryIsTheBreakdown
  /\ StreaksAreRuns
=============================================================================
