------------------------------ MODULE MCSchedules ------------------------------
(* Model-checking instance of Schedules: an hourly and a minutely job on a      *)
(* clock of two minutes, so that a run is missed, made up for, or overlapped.   *)
EXTENDS Schedules, TLC

Minutes == "hourly" :> {1, 3} @@ "minutely" :> {1, 2, 3}

\* No schedule yet, one, and a file in which one is of an older version.
ScheduleFiles ==
    {<<>>, <<Job("hourly", 1, 0)>>, <<Job("hourly", Unset, 0), Job("minutely", 2, 1)>>}
================================================================================
