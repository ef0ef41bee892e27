--------------------------- MODULE OperationsReports --------------------------
(***************************************************************************)
(* Shift and daily reports.  A scheduler run (at the start of a server, or *)
(* an administrator's request) reads the clock, marks old unpublished      *)
(* periods overdue and finalizes, one transaction each, the periods that   *)
(* ended within the lookback; administrators correct published reports.    *)
(* Time is in hours, at full hours that include every boundary the code    *)
(* compares with: shifts begin at 8:00 and 20:00, days at 0:00, and a day  *)
(* is due at 8:00 of the next one.                                         *)
(***************************************************************************)
EXTENDS Integers, Sequences, FiniteSets

CONSTANTS
  Runners,        \* scheduler runs that may overlap
  Correctors,     \* administrators
  Lookback,       \* lookback_hours
  Moments,        \* the hours at which the clock is looked at
  Horizon,        \* bound: the last of them
  MaxCorrections  \* bound: versions of a report

ASSUME ReportsAssumption ==
  /\ Lookback \in Nat /\ Horizon \in Nat /\ Moments \subseteq 1..Horizon
  /\ MaxCorrections \in Nat \ {0}

VARIABLES
  now,        \* the clock
  period,     \* period[p]: operations_report_periods.status, "none" without a row
  reports,    \* reports[p]: for each version of the report the one it is based on
  runner,     \* runner[r]: a scheduler run
  corrector,  \* corrector[c]: a report an administrator looks at
  checked     \* history: the clock of the last run that came to its end, or 0

reportVars == <<now, period, reports, runner, corrector, checked>>

Day(t) == t \div 24
Midnight(t) == 24 * Day(t)

IsBoundary(t) == t % 24 \in {8, 20}
FloorShiftBoundary(t) ==
  CASE t >= Midnight(t) + 20 -> Midnight(t) + 20
    [] t \in Midnight(t) + 8..Midnight(t) + 19 -> Midnight(t) + 8
    [] OTHER -> Midnight(t) - 4

Shifts == {[type |-> "shift", start |-> t] : t \in {t \in 0..Horizon : IsBoundary(t)}}
Days == {[type |-> "daily", start |-> 24 * d] : d \in 0..Day(Horizon)}
Periods == Shifts \cup Days
End(p) == p.start + (IF p.type = "shift" THEN 12 ELSE 24)
DueAt(p) == End(p) + (IF p.type = "shift" THEN 0 ELSE 8)
Cutoff(t) == t - Lookback
-----------------------------------------------------------------------------
DueShifts(t) == {p \in Shifts : p.start >= FloorShiftBoundary(Cutoff(t)) /\ End(p) <= t}

(* Seeded fault: a day is due after 8:00, not at 8:00.                     *)
DayAfterEight(t) == IF t % 24 <= 8 THEN Day(t) - 2 ELSE Day(t) - 1
LatestDueDay(t) == IF t % 24 < 8 THEN Day(t) - 2 ELSE Day(t) - 1
DueDays(t) ==
  {p \in Days : Day(p.start) \in Day(Cutoff(t))..LatestDueDay(t) /\ DueAt(p) >= Cutoff(t)}

FinalizedBefore(p, q) ==
  IF p.type = q.type THEN p.start < q.start ELSE p.type = "shift"
(* _due_periods: the shifts in their order, then the days.                 *)
DuePeriods(t) == DueShifts(t) \cup DueDays(t)
-----------------------------------------------------------------------------
Away == [step |-> "idle"]

ReportInit ==
  /\ now \in Moments
  /\ period = [p \in Periods |-> "none"]
  /\ reports = [p \in Periods |-> <<>>]
  /\ runner = [r \in Runners |-> Away]
  /\ corrector = [c \in Correctors |-> Away]
  /\ checked = 0

ClockMoves ==
  /\ \E m \in Moments : m > now /\ now' = m
  /\ UNCHANGED <<period, reports, runner, corrector, checked>>

BeginRun(r) ==
  /\ runner[r].step = "idle"
  /\ runner' = [runner EXCEPT ![r] = [step |-> "mark", at |-> now, due |-> {}]]
  /\ UNCHANGED <<now, period, reports, corrector, checked>>

(* Seeded fault: whatever its status.                                      *)
EveryOld(p, cutoff) == period[p] # "none" /\ End(p) < cutoff
Unpublished(p, cutoff) ==
  period[p] \in {"pending", "generating", "failed"} /\ End(p) < cutoff

(* mark_overdue_periods                                                    *)
MarkOverdue(r) ==
  /\ runner[r].step = "mark"
  /\ period' = [p \in Periods |->
       IF Unpublished(p, Cutoff(runner[r].at)) THEN "overdue" ELSE period[p]]
  /\ runner' = [runner EXCEPT ![r] =
                  [step |-> "finalize", at |-> @.at, due |-> DuePeriods(@.at)]]
  /\ UNCHANGED <<now, reports, corrector, checked>>

(* finalize_period, one transaction under the advisory lock of the period: *)
(* a report already published is left alone; a writer's error is recorded. *)
FinalizePeriod(r, p) ==
  /\ runner[r].step = "finalize" /\ p \in runner[r].due
  /\ \A q \in runner[r].due \ {p} : FinalizedBefore(p, q)
  /\ \/ /\ period[p] = "official"
        /\ UNCHANGED <<period, reports>>
     \/ /\ period[p] # "official"
        /\ period' = [period EXCEPT ![p] = "official"]
        /\ reports' = IF reports[p] = <<>> THEN [reports EXCEPT ![p] = <<0>>] ELSE reports
     \/ /\ period[p] # "official"
        /\ period' = [period EXCEPT ![p] = "failed"]
        /\ UNCHANGED reports
  /\ runner' = [runner EXCEPT ![r].due = @ \ {p}]
  /\ UNCHANGED <<now, corrector, checked>>

(* Any other error, or the end of the process, ends the run where it is.   *)
AbortRun(r) ==
  /\ runner[r].step # "idle"
  /\ runner' = [runner EXCEPT ![r] = Away]
  /\ UNCHANGED <<now, period, reports, corrector, checked>>

FinishRun(r) ==
  /\ runner[r].step = "finalize" /\ runner[r].due = {}
  /\ checked' = runner[r].at
  /\ runner' = [runner EXCEPT ![r] = Away]
  /\ UNCHANGED <<now, period, reports, corrector>>
-----------------------------------------------------------------------------
(* An administrator reads a report ...                                     *)
ViewReport(c, p) ==
  /\ corrector[c].step = "idle" /\ Len(reports[p]) \in 1..MaxCorrections - 1
  /\ corrector' = [corrector EXCEPT ![c] = [step |-> "seen", of |-> p, seen |-> Len(reports[p])]]
  /\ UNCHANGED <<now, period, reports, runner, checked>>

SeesLatest(c) == corrector[c].seen = Len(reports[corrector[c].of])

(* ... and sends a correction: create_correction behind the lock of the    *)
(* period's row.                                                           *)
CorrectReport(c) ==
  /\ corrector[c].step = "seen"
  /\ reports' = IF SeesLatest(c)
                 THEN [reports EXCEPT ![corrector[c].of] = Append(@, corrector[c].seen)]
                 ELSE reports
  /\ corrector' = [corrector EXCEPT ![c] = Away]
  /\ UNCHANGED <<now, period, runner, checked>>

ReportNext ==
  \/ ClockMoves
  \/ \E r \in Runners :
       \/ BeginRun(r) \/ MarkOverdue(r) \/ AbortRun(r) \/ FinishRun(r)
       \/ \E p \in Periods : FinalizePeriod(r, p)
  \/ \E c \in Correctors : CorrectReport(c) \/ \E p \in Periods : ViewReport(c, p)

ReportSpec == ReportInit /\ [][ReportNext]_reportVars
-----------------------------------------------------------------------------
ReportTypeOK ==
  /\ now \in Moments /\ checked \in Moments \cup {0}
  /\ period \in [Periods -> {"none", "official", "failed", "overdue"}]
  /\ \A p \in Periods : Len(reports[p]) <= MaxCorrections
  /\ \A r \in Runners : runner[r].step \in {"idle", "mark", "finalize"}
  /\ \A c \in Correctors : corrector[c].step \in {"idle", "seen"}

(* A period shows as official exactly if its report exists: no run, also   *)
(* one that began earlier or later than the one that published the report, *)
(* turns it back into failed or overdue.                                   *)
PublishedStaysOfficial ==
  \A p \in Periods : (period[p] = "official") <=> (reports[p] # <<>>)

(* When a run has come to its end, every shift and every day that was due  *)
(* at its start, and had ended within the lookback, has been attempted:    *)
(* the windows of the runs leave no gap.                                   *)
NothingForgotten ==
  checked > 0 => \A p \in Periods :
    DueAt(p) <= checked /\ End(p) > Cutoff(checked) => period[p] # "none"
=============================================================================
