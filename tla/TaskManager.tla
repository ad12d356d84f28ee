---------------------------- MODULE TaskManager ----------------------------
(***************************************************************************)
(* The task manager (services/core/task-manager.service.ts): the state it  *)
(* keeps of a task, with the job that toad-scheduler runs for it, and what *)
(* each of its methods makes of that state.  A method that throws leaves   *)
(* the state as it is.                                                     *)
(***************************************************************************)
EXTENDS Naturals

CONSTANTS Tasks,   \* task ids
          Preset   \* the timing preset each is registered with

Presets == [kind: {"periodic", "runOnce", "runDelayed"},
            disabled: BOOLEAN,
            runImmediately: BOOLEAN]

\* task.presets.ts. What a task is registered with decides whether it runs at once.
TASK_PRESETS ==
  [PERIODIC          |-> [kind |-> "periodic", disabled |-> FALSE, runImmediately |-> FALSE],
   PERIODIC_DISABLED |-> [kind |-> "periodic", disabled |-> TRUE, runImmediately |-> TRUE],
   RUNONCE           |-> [kind |-> "runOnce", disabled |-> FALSE, runImmediately |-> TRUE],
   RUNDELAYED        |-> [kind |-> "runDelayed", disabled |-> FALSE, runImmediately |-> FALSE]]

RegisterTask(preset, runImmediately) == [preset EXCEPT !.runImmediately = runImmediately]

\* validateInput: only a periodic task may be disabled at boot.
ASSUME PresetsAreValid ==
  /\ Preset \in [Tasks -> Presets]
  /\ \A t \in Tasks : Preset[t].disabled => Preset[t].kind = "periodic"

\* `options` says whether the task is registered and, then, its option disabled;
\* `timers` counts the intervals armed for it, `delayed` tells that its timeout
\* is pending, isExecuting that a run of its handler is.
TaskState == [options: {"none", "enabled", "disabled"},
              timers: Nat,
              delayed: BOOLEAN,
              isExecuting: BOOLEAN]

Unregistered ==
  [options |-> "none", timers |-> 0, delayed |-> FALSE, isExecuting |-> FALSE]

Execute(r) == [r EXCEPT !.isExecuting = TRUE]
RunEnded(r) == [r EXCEPT !.isExecuting = FALSE]

\* #scheduleEnabledPeriodicJob: a new interval job, which may run at once.
ScheduleEnabledPeriodicJob(t, r) ==
  IF r.options = "disabled" THEN r
  ELSE LET scheduled == [r EXCEPT !.timers = @ + 1] IN
       IF Preset[t].runImmediately THEN Execute(scheduled) ELSE scheduled

\* Mutant: a task disabled at boot is scheduled like any other.
RegisterEnabled(t, r) ==
  IF r.options # "none" THEN r
  ELSE ScheduleEnabledPeriodicJob(t, [Unregistered EXCEPT !.options = "enabled"])

\* A task cannot be registered twice.
RegisterJobOrTask(t, r) ==
  LET new == [Unregistered EXCEPT !.options =
                IF Preset[t].disabled THEN "disabled" ELSE "enabled"] IN
  IF r.options # "none" THEN r
  ELSE CASE Preset[t].kind = "runOnce"    -> Execute(new)
         [] Preset[t].kind = "runDelayed" -> [new EXCEPT !.delayed = TRUE]
         [] Preset[t].kind = "periodic"   -> ScheduleEnabledPeriodicJob(t, new)

\* Mutant: the job is still marked as disabled when it is scheduled.
ScheduleStillDisabled(t, r) == ScheduleEnabledPeriodicJob(t, r)

\* scheduleDisabledJob with failIfEnabled = false
ScheduleDisabledJob(t, r) ==
  IF r.options = "disabled"
    THEN ScheduleEnabledPeriodicJob(t, [r EXCEPT !.options = "enabled"])
    ELSE r

\* disableJob with failIfDisabled = false. Above job.stop() stands "TODO this does not seem
\* to work as intended" (issue 1071): whether it ends the interval is left open.
DisableJob(r, stops) ==
  IF r.options = "disabled" THEN r
  ELSE [r EXCEPT !.options = "disabled", !.timers = IF stops THEN @ - 1 ELSE @]

---------------------------------------------------------------------------
(* toad-scheduler (external) and the timeout of a delayed task.            *)

\* An interval elapses: the job skips it while a run is pending (preventOverrun).
CanTick(r) == r.timers > 0 /\ ~r.isExecuting

TimeoutFires(r) == [r EXCEPT !.delayed = FALSE, !.isExecuting = TRUE]
=============================================================================
