------------------------------- MODULE Program -------------------------------
(***************************************************************************)
(* Parts of a frontend that share nothing but its process: the floating    *)
(* ball, the memory of the window's size, the auto-start switch, what      *)
(* opening the database does first, the scheduler's interval, and the      *)
(* terminal's report.  A behaviour exercises one of them, chosen at the    *)
(* start, as their product would only interleave steps that do not touch.  *)
(***************************************************************************)
EXTENDS BallDock, WindowSize, Autostart, Rebuild, SchedulerWake, TuiReport

VARIABLE part  \* which one
programVars ==
  <<part, ballVars, sizeVars, autostartVars, rebuildVars, schedulerVars, reportVars>>

Some(S) == CHOOSE v \in S : TRUE

Init ==
  /\ part \in {"ball", "size", "autostart", "rebuild", "scheduler", "report"}
  /\ BallInit /\ SizeInit /\ AutostartInit /\ RebuildInit /\ SchedulerInit /\ ReportInit
  /\ part # "size" => stored = NoSize
  /\ part # "autostart" => ~value
  /\ part # "rebuild" => platform = "unix" /\ legacy /\ version = Some(Builds)
  /\ part # "scheduler" => setting = Some(Intervals)
  /\ part # "report" => clock = Some(Clocks) /\ uses = {} /\ today = clock

Next ==
  /\ UNCHANGED part
  /\ \/ /\ part = "ball" /\ BallNext
        /\ UNCHANGED <<sizeVars, autostartVars, rebuildVars, schedulerVars, reportVars>>
     \/ /\ part = "size" /\ SizeNext
        /\ UNCHANGED <<ballVars, autostartVars, rebuildVars, schedulerVars, reportVars>>
     \/ /\ part = "autostart" /\ AutostartNext
        /\ UNCHANGED <<ballVars, sizeVars, rebuildVars, schedulerVars, reportVars>>
     \/ /\ part = "rebuild" /\ RebuildNext
        /\ UNCHANGED <<ballVars, sizeVars, autostartVars, schedulerVars, reportVars>>
     \/ /\ part = "scheduler" /\ SchedulerNext
        /\ UNCHANGED <<ballVars, sizeVars, autostartVars, rebuildVars, reportVars>>
     \/ /\ part = "report" /\ ReportNext
        /\ UNCHANGED <<ballVars, sizeVars, autostartVars, rebuildVars, schedulerVars>>

Spec == Init /\ [][Next]_programVars
=============================================================================
