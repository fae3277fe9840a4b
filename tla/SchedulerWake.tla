---------------------------- MODULE SchedulerWake ----------------------------
(***************************************************************************)
(* The interval of the periodic scan (collector/scheduler.rs, app/app.rs   *)
(* select_scan_interval): the UI thread stores a new one, saves it and     *)
(* wakes the scheduler, which waits for the interval it read last.  Saving *)
(* needs the mutex a scan holds, so the scheduler may come by in between.  *)
(* What the scan itself does is the subject of ScanEvents.                 *)
(***************************************************************************)
EXTENDS Naturals

CONSTANTS
  Intervals,     \* seconds a user may choose, or type into the settings
  MinInterval,   \* MIN_INTERVAL_SECS
  MaxWakes       \* bound: wakes not yet received

ASSUME SchedulerAssumption ==
  Intervals \subseteq Nat /\ MinInterval \in Nat /\ MaxWakes \in Nat

VARIABLES
  interval,   \* the atomic both threads use
  setting,    \* the settings row
  wakes,      \* messages in the wake channel
  waitFor,    \* what the scheduler's wait was started with
  place,      \* where it is: "reading", "waiting", "scanning"
  selecting,  \* where select_scan_interval is: "no", "saving", "waking"
  changed,    \* the interval chosen is another one
  saveFailed     \* history: the last save failed
schedulerVars == <<interval, setting, wakes, waitFor, place, selecting, changed, saveFailed>>

Floor(secs) == IF secs < MinInterval THEN MinInterval ELSE secs

SchedulerInit ==
  /\ setting \in Intervals
  /\ interval = setting
  /\ wakes = 0 /\ waitFor = 0 /\ place = "reading"
  /\ selecting = "no" /\ changed = FALSE /\ saveFailed = FALSE

-----------------------------------------------------------------------------
\* The UI thread.

StoreInterval(secs) ==
  /\ selecting = "no"
  /\ selecting' = "saving"
  /\ changed' = (secs # interval)
  /\ interval' = secs
  /\ UNCHANGED <<setting, wakes, waitFor, place, saveFailed>>

\* Mutation: an error ends the handler.
SaveInterval_EndsOnError(ok) ==
  /\ selecting = "saving" /\ place # "scanning"
  /\ setting' = IF ok THEN interval ELSE setting
  /\ saveFailed' = ~ok
  /\ selecting' = IF changed /\ ok THEN "waking" ELSE "no"
  /\ UNCHANGED <<interval, wakes, waitFor, place, changed>>

\* Waits for the mutex; an error is shown and the handler goes on.
SaveInterval(ok) ==
  /\ selecting = "saving" /\ place # "scanning"
  /\ setting' = IF ok THEN interval ELSE setting
  /\ saveFailed' = ~ok
  /\ selecting' = IF changed THEN "waking" ELSE "no"
  /\ UNCHANGED <<interval, wakes, waitFor, place, changed>>

SendWake ==
  /\ selecting = "waking" /\ wakes < MaxWakes
  /\ wakes' = wakes + 1
  /\ selecting' = "no"
  /\ UNCHANGED <<interval, setting, waitFor, place, changed, saveFailed>>

-----------------------------------------------------------------------------
\* The scheduler.

ReadInterval ==
  /\ place = "reading"
  /\ waitFor' = Floor(interval)
  /\ place' = "waiting"
  /\ UNCHANGED <<interval, setting, wakes, selecting, changed, saveFailed>>

\* recv_timeout: a wake that is there goes before the timeout.
ReceiveWake ==
  /\ place = "waiting" /\ wakes > 0
  /\ wakes' = wakes - 1
  /\ place' = "reading"
  /\ UNCHANGED <<interval, setting, waitFor, selecting, changed, saveFailed>>

TimeOut ==
  /\ place = "waiting" /\ wakes = 0
  /\ place' = "scanning"
  /\ UNCHANGED <<interval, setting, wakes, waitFor, selecting, changed, saveFailed>>

ScanEnds ==
  /\ place = "scanning"
  /\ place' = "reading"
  /\ UNCHANGED <<interval, setting, wakes, waitFor, selecting, changed, saveFailed>>

\* The program ends and is started again.
RestartScheduler ==
  /\ interval' = setting
  /\ wakes' = 0 /\ waitFor' = 0 /\ place' = "reading"
  /\ selecting' = "no" /\ changed' = FALSE /\ saveFailed' = FALSE
  /\ UNCHANGED setting

SchedulerNext ==
  \/ \E secs \in Intervals : StoreInterval(secs)
  \/ \E ok \in BOOLEAN : SaveInterval(ok)
  \/ SendWake
  \/ ReadInterval
  \/ ReceiveWake
  \/ TimeOut
  \/ ScanEnds
  \/ RestartScheduler

SchedulerSpec == SchedulerInit /\ [][SchedulerNext]_schedulerVars

-----------------------------------------------------------------------------
SchedulerTypeOK ==
  /\ {interval, setting} \subseteq Intervals
  /\ wakes \in 0 .. MaxWakes /\ waitFor \in Nat
  /\ place \in {"reading", "waiting", "scanning"}
  /\ selecting \in {"no", "saving", "waking"}
  /\ {changed, saveFailed} \subseteq BOOLEAN

\* "The new value takes effect immediately instead of after the old interval
\* elapses": once the choice has been made and every wake received, the scheduler
\* waits for the interval that was chosen, whatever it was doing meanwhile.
WaitIsCurrent ==
  place = "waiting" /\ wakes = 0 /\ (selecting = "no" \/ (selecting = "saving" /\ ~changed)) =>
    waitFor = Floor(interval)

\* And the next start will use it, unless saving failed.
IntervalIsSaved == selecting # "saving" /\ ~saveFailed => setting = interval

SchedulerInv == SchedulerTypeOK /\ WaitIsCurrent /\ IntervalIsSaved
=============================================================================
