----------------------------- MODULE BootProofs -----------------------------
(***************************************************************************)
(* Proofs of the safety properties of Boot, for any tasks and presets that *)
(* satisfy the assumptions of TaskManager and Boot, and of ServerStart,    *)
(* whose process is killed at any step, whose client is updated by the     *)
(* task and by requests, for any versions, whose roles are synchronised by *)
(* the boot and by requests, and whose MongoDB is migrated by the boot and *)
(* by hand, from any stages.                                               *)
(***************************************************************************)
EXTENDS ServerStart, FiniteSetTheorems, WellFoundedInduction, SequenceTheorems, TLAPS

\* What the boot task is registered with.
LEMMA BootPreset ==
  /\ BootTask \in Tasks
  /\ Preset[BootTask] = [kind |-> "periodic", disabled |-> TRUE, runImmediately |-> FALSE]
BY BootRegistered DEF RegisterTask, TASK_PRESETS

\* What the methods of the task manager make of the state of a task: the first
\* registration arms at most one interval.
LEMMA RegisterNew ==
  ASSUME NEW t \in Tasks, NEW r, r.options = "none"
  PROVE  /\ RegisterJobOrTask(t, r) \in TaskState
         /\ RegisterJobOrTask(t, r).timers \in {0, 1}
<1> DEFINE new == [Unregistered EXCEPT !.options =
                     IF Preset[t].disabled THEN "disabled" ELSE "enabled"]
<1>1. Preset[t].kind \in {"periodic", "runOnce", "runDelayed"}
  BY PresetsAreValid DEF Presets
<1>2. new \in TaskState /\ new.timers = 0 BY DEF Unregistered, TaskState
<1>3. RegisterJobOrTask(t, r) =
        CASE Preset[t].kind = "runOnce"    -> Execute(new)
          [] Preset[t].kind = "runDelayed" -> [new EXCEPT !.delayed = TRUE]
          [] Preset[t].kind = "periodic"   -> ScheduleEnabledPeriodicJob(t, new)
  BY DEF RegisterJobOrTask
<1> HIDE DEF new
<1>4. CASE Preset[t].kind = "runOnce" BY <1>3, <1>4, <1>2 DEF Execute, TaskState
<1>5. CASE Preset[t].kind = "runDelayed" BY <1>3, <1>5, <1>2 DEF TaskState
<1>6. CASE Preset[t].kind = "periodic"
  <2>1. RegisterJobOrTask(t, r) = ScheduleEnabledPeriodicJob(t, new) BY <1>3, <1>6
  <2>2. /\ [new EXCEPT !.timers = new.timers + 1] \in TaskState
        /\ [new EXCEPT !.timers = new.timers + 1].timers = 1
    BY <1>2 DEF TaskState
  <2>3. /\ Execute([new EXCEPT !.timers = new.timers + 1]) \in TaskState
        /\ Execute([new EXCEPT !.timers = new.timers + 1]).timers = 1
    BY <2>2 DEF Execute, TaskState
  <2>4. QED BY <1>2, <2>1, <2>2, <2>3 DEF ScheduleEnabledPeriodicJob
<1>7. QED BY <1>1, <1>4, <1>5, <1>6

\* A task that is registered already stays as it is.
LEMMA RegisterAgain ==
  ASSUME NEW t \in Tasks, NEW r \in TaskState, r.timers \in {0, 1}
  PROVE  /\ RegisterJobOrTask(t, r) \in TaskState
         /\ RegisterJobOrTask(t, r).timers \in {0, 1}
<1>1. CASE r.options # "none" BY <1>1 DEF RegisterJobOrTask
<1>2. CASE r.options = "none" BY <1>2, RegisterNew
<1>3. QED BY <1>1, <1>2

\* The boot task is registered without an interval.
LEMMA RegisterBoot ==
  RegisterJobOrTask(BootTask, Unregistered) = [Unregistered EXCEPT !.options = "disabled"]
BY BootPreset DEF RegisterJobOrTask, Unregistered, ScheduleEnabledPeriodicJob

\* The boot job has an interval while it is enabled, if stop() works.
Timed(r) == env.stops => r.timers = IF r.options = "enabled" THEN 1 ELSE 0

\* A failed boot schedules its job unless it is scheduled already.
LEMMA ScheduleBoot ==
  ASSUME NEW r \in TaskState, r.options # "none", Timed(r),
         NEW s, s = ScheduleDisabledJob(BootTask, r)
  PROVE  /\ s \in TaskState
         /\ s.options = "enabled" /\ Timed(s)
         /\ s.isExecuting = r.isExecuting
<1>1. ~Preset[BootTask].runImmediately BY BootPreset
<1>2. CASE r.options = "disabled"
  <2> DEFINE n == r.timers + 1
  <2>1. s = [r EXCEPT !.options = "enabled", !.timers = n]
    BY <1>1, <1>2 DEF ScheduleDisabledJob, ScheduleEnabledPeriodicJob, TaskState
  <2>2. n \in Nat /\ (env.stops => n = 1) BY <1>2 DEF TaskState, Timed
  <2> HIDE DEF n
  <2>3. s \in TaskState /\ s.options = "enabled" /\ s.timers = n /\ s.isExecuting = r.isExecuting
    BY <2>1, <2>2 DEF TaskState
  <2>4. QED BY <2>2, <2>3 DEF Timed
<1>3. CASE r.options # "disabled" BY <1>3 DEF ScheduleDisabledJob, TaskState
<1>4. QED BY <1>2, <1>3

\* Disabling the boot task leaves it without an interval, if stop() works.
LEMMA DisableBoot ==
  ASSUME NEW r \in TaskState, r.options # "none", Timed(r), NEW s, s = DisableJob(r, env.stops)
  PROVE  /\ s \in TaskState
         /\ s.options = "disabled" /\ Timed(s)
         /\ s.isExecuting = r.isExecuting
         /\ r.options = "disabled" => s = r
<1>1. CASE r.options = "disabled" BY <1>1 DEF DisableJob, TaskState
<1>2. CASE r.options = "enabled"
  <2> DEFINE n == IF env.stops THEN r.timers - 1 ELSE r.timers
  <2>1. s = [r EXCEPT !.options = "disabled", !.timers = n] BY <1>2 DEF DisableJob
  <2>2. n \in Nat /\ (env.stops => n = 0) BY <1>2 DEF TaskState, Timed
  <2> HIDE DEF n
  <2>3. s \in TaskState /\ s.options = "disabled" /\ s.timers = n /\ s.isExecuting = r.isExecuting
    BY <2>1, <2>2 DEF TaskState
  <2>4. QED BY <1>2, <2>2, <2>3 DEF Timed
<1>3. QED BY <1>1, <1>2 DEF TaskState

LEMMA RunEndedKeeps ==
  ASSUME NEW r \in TaskState
  PROVE  LET s == RunEnded(r) IN
         /\ s \in TaskState
         /\ s.options = r.options /\ s.timers = r.timers
         /\ s.isExecuting = FALSE
BY DEF RunEnded, TaskState

---------------------------------------------------------------------------
(* The inductive invariant                                                 *)

LEMMA InitEstablishes == Init => IInv
<1> SUFFICES ASSUME Init PROVE IInv OBVIOUS
<1>1. tasks = NoTask /\ run = NoRun /\ host = "started" /\ loaded = 0 /\ booted = FALSE
  BY DEF Init
<1>2. Unregistered \in TaskState /\ Unregistered.timers = 0
      /\ Unregistered.options = "none" /\ Unregistered.isExecuting = FALSE
  BY DEF Unregistered, TaskState
<1>3. \A t \in Tasks : tasks[t] = Unregistered BY <1>1 DEF NoTask
<1>4. TypeOK
  <2>1. env \in Environment BY DEF Init
  <2>2. tasks \in [Tasks -> TaskState] /\ run \in [Callers -> 0..LastStep]
    BY <1>1, <1>2 DEF NoTask, NoRun, LastStep
  <2>3. loaded \in 0..LastStep /\ left \in Nat BY <1>1, BudgetIsCount DEF Init, LastStep
  <2>4. QED BY <1>1, <2>1, <2>2, <2>3, Zenon DEF TypeOK
<1>5. BootJob BY <1>1, <1>2, <1>3, BootPreset DEF BootJob, NoRun, Callers
<1>6. OneTimer BY <1>2, <1>3 DEF OneTimer
<1>7. loaded # LastStep BY <1>1 DEF LastStep
<1>8. QED
  BY <1>1, <1>3, <1>4, <1>5, <1>6, <1>7 DEF IInv, BootedLoaded, BootStops, TasksOfBoot, StartedFresh, BOOT_TASKS

\* Starting the process over is starting it.
LEMMA RestartedKeeps == TypeOK /\ Restarted => IInv'
<1> SUFFICES ASSUME TypeOK, Restarted PROVE IInv' OBVIOUS
<1>1. tasks' = NoTask /\ run' = NoRun /\ host' = "started" /\ loaded' = 0 /\ booted' = FALSE
      /\ env' = env /\ left' = left
  BY DEF Restarted
<1>2. Unregistered \in TaskState /\ Unregistered.timers = 0
      /\ Unregistered.options = "none" /\ Unregistered.isExecuting = FALSE
  BY DEF Unregistered, TaskState
<1>3. \A t \in Tasks : tasks'[t] = Unregistered BY <1>1 DEF NoTask
<1>4. TypeOK'
  <2>1. tasks' \in [Tasks -> TaskState] /\ run' \in [Callers -> 0..LastStep] /\ loaded' \in 0..LastStep
    BY <1>1, <1>2 DEF NoTask, NoRun, LastStep
  <2>2. QED BY <1>1, <2>1, Zenon DEF TypeOK
<1>5. BootJob' BY <1>1, <1>2, <1>3, BootPreset DEF BootJob, NoRun, Callers
<1>6. OneTimer' BY <1>2, <1>3 DEF OneTimer
<1>7. loaded' # LastStep BY <1>1 DEF LastStep
<1>8. QED
  BY <1>1, <1>3, <1>4, <1>5, <1>6, <1>7 DEF IInv, BootedLoaded, BootStops, TasksOfBoot, StartedFresh, BOOT_TASKS

LEMMA RunOnceKeeps == IInv /\ RunOnce => IInv'
<1> SUFFICES ASSUME IInv, RunOnce PROVE IInv' OBVIOUS
<1> DEFINE r == [Unregistered EXCEPT !.options = "disabled"]
<1>1. /\ host = "started" /\ host' = "booting"
      /\ tasks = NoTask /\ run = NoRun /\ loaded = 0 /\ ~booted
      /\ env' = env /\ loaded' = loaded /\ booted' = booted /\ left' = left
  BY DEF IInv, StartedFresh, RunOnce
<1>2. tasks[BootTask] = Unregistered BY <1>1, BootPreset DEF NoTask
<1>3. tasks' = [tasks EXCEPT ![BootTask] = r] BY <1>2, RegisterBoot DEF RunOnce
<1>4. r \in TaskState /\ r.options = "disabled" /\ r.timers = 0 /\ r.isExecuting = FALSE
  BY DEF Unregistered, TaskState
<1> HIDE DEF r
<1>5. run' = [run EXCEPT !["host"] = 1] /\ run'["host"] = 1 /\ run'["job"] = 0
  BY <1>1 DEF RunOnce, NoRun, Callers
<1>6. tasks'[BootTask] = r /\ \A t \in BOOT_TASKS : tasks'[t] = Unregistered
  BY <1>1, <1>3, BootPreset DEF NoTask, BOOT_TASKS, IInv, TypeOK
<1>7. TypeOK'
  <2>1. tasks' \in [Tasks -> TaskState] BY <1>3, <1>4 DEF IInv, TypeOK
  <2>2. run' \in [Callers -> 0..LastStep]
    <3>1. run \in [Callers -> 0..LastStep] /\ 1 \in 0..LastStep
      BY DEF IInv, TypeOK, LastStep
    <3>2. QED BY <1>5, <3>1, Zenon
  <2>3. QED BY <1>1, <2>1, <2>2, Zenon DEF IInv, TypeOK
<1>8. BootJob' BY <1>1, <1>4, <1>5, <1>6 DEF BootJob
<1>9. OneTimer' BY <1>4, <1>6 DEF Unregistered, OneTimer, BOOT_TASKS
<1>10. loaded' # LastStep BY <1>1 DEF LastStep
<1>11. QED
  BY <1>1, <1>6, <1>7, <1>8, <1>9, <1>10 DEF IInv, BootedLoaded, BootStops, TasksOfBoot, StartedFresh

---------------------------------------------------------------------------
(* Steps of a run of the boot                                              *)

\* While the host runs the boot its job is disabled, so the job does not.
LEMMA OneRun == IInv => OneBootRun
<1> SUFFICES ASSUME IInv PROVE OneBootRun OBVIOUS
<1>1. run["host"] \in 0..LastStep /\ run["job"] \in 0..LastStep BY DEF IInv, TypeOK, Callers
<1>2. QED BY <1>1 DEF IInv, BootJob, OneBootRun, LastStep

\* A run that is pending is in a process that has started and not booted.
LEMMA RunPending ==
  ASSUME IInv, NEW c \in Callers, run[c] > 0
  PROVE  /\ ~booted
         /\ host # "started"
         /\ tasks[BootTask] \in TaskState
         /\ tasks[BootTask].options # "none"
         /\ Timed(tasks[BootTask])
         /\ loaded = LastStep => ~env.stops
         /\ c = "host" => host = "booting" /\ tasks[BootTask].options = "disabled"
                          /\ tasks[BootTask].timers = 0 /\ tasks[BootTask].isExecuting = FALSE
         /\ c = "job" => host = "listening"
<1>1. run[c] \in 0..LastStep /\ run[c] # 0 BY DEF IInv, TypeOK
<1>2. ~booted /\ (loaded = LastStep => ~env.stops)
  BY <1>1 DEF IInv, BootedLoaded, BootStops, Callers
<1>3. host # "started" BY <1>1 DEF IInv, StartedFresh, NoRun
<1>4. tasks[BootTask] \in TaskState /\ Timed(tasks[BootTask])
  BY BootPreset DEF IInv, TypeOK, BootJob, Timed
<1>5. CASE c = "host"
  <2>1. run["job"] = 0 BY <1>5, OneRun DEF OneBootRun
  <2>2. host = "booting" /\ tasks[BootTask].options = "disabled" /\ tasks[BootTask].timers = 0
        /\ ~tasks[BootTask].isExecuting
    BY <1>5, <2>1 DEF IInv, BootJob
  <2>3. tasks[BootTask].isExecuting = FALSE BY <1>4, <2>2 DEF TaskState
  <2>4. QED BY <1>2, <1>3, <1>4, <1>5, <2>2, <2>3
<1>6. CASE c = "job"
  <2>1. host = "listening" /\ tasks[BootTask].isExecuting BY <1>6 DEF IInv, BootJob
  <2>2. tasks[BootTask].options # "none" BY <2>1 DEF IInv, BootJob
  <2>3. QED BY <1>2, <1>3, <1>4, <1>6, <2>1, <2>2
<1>7. QED BY <1>5, <1>6 DEF Callers

\* A run that goes on changes only which step it awaits.
LEMMA RunAdvances ==
  ASSUME IInv, NEW c \in Callers, run[c] > 0, NEW n \in 1..LastStep,
         run' = [run EXCEPT ![c] = n],
         loaded' \in 0..LastStep, left' \in Nat, loaded' = LastStep <=> loaded = LastStep,
         env' = env, host' = host, tasks' = tasks, booted' = booted
  PROVE  IInv'
<1>1. run \in [Callers -> 0..LastStep] /\ n \in 0..LastStep /\ n > 0
  BY DEF IInv, TypeOK, LastStep
<1>2. run' \in [Callers -> 0..LastStep] BY <1>1, Zenon
<1>3. \A d \in Callers : (run'[d] > 0 <=> run[d] > 0) /\ (run'[d] = 0 <=> run[d] = 0)
  BY <1>1
<1>4. ~booted /\ host # "started" BY RunPending
<1>5. TypeOK' BY <1>2, Zenon DEF IInv, TypeOK
<1>6. BootJob' BY <1>3 DEF IInv, BootJob, Callers
<1>7. QED
  BY <1>4, <1>5, <1>6
     DEF IInv, OneTimer, BootedLoaded, BootStops, TasksOfBoot, StartedFresh

\* A run that is over leaves the boot task in state r, without a run, and the
\* other tasks alone unless it has booted.
LEMMA RunOver ==
  ASSUME IInv, NEW c \in Callers, run[c] > 0,
         run' = [run EXCEPT ![c] = 0],
         IF c = "host" THEN host' \in {"listening", "crashed"} ELSE host' = host,
         NEW r \in TaskState, tasks'[BootTask] = r,
         tasks' \in [Tasks -> TaskState],
         r.options # "none", r.isExecuting = FALSE, Timed(r),
         r.options = "enabled" \/ r.timers > 0 => host' = "listening",
         \A t \in BOOT_TASKS : /\ tasks'[t].timers \in {0, 1}
                               /\ tasks'[t] = Unregistered \/ loaded' = LastStep,
         booted' \in BOOLEAN, booted' => loaded' = LastStep /\ host' = "listening",
         loaded' = LastStep /\ env.stops => r.options = "disabled",
         loaded' \in 0..LastStep, left' \in Nat, env' = env
  PROVE  IInv'
<1>1. run \in [Callers -> 0..LastStep] /\ 0 \in 0..LastStep BY DEF IInv, TypeOK, LastStep
<1>2. run' \in [Callers -> 0..LastStep] /\ run'[c] = 0 BY <1>1, Zenon
<1>3. \A d \in Callers : run'[d] = 0 BY OneRun, <1>1 DEF OneBootRun, Callers
<1>4. host' \in {"listening", "crashed"} BY RunPending DEF Callers
<1>5. TypeOK'
  <2>1. env' \in Environment BY DEF IInv, TypeOK
  <2>2. host' \in {"started", "booting", "listening", "crashed"} BY <1>4
  <2>3. QED BY <1>2, <2>1, <2>2, Zenon DEF TypeOK
<1>6. BootJob' BY <1>3, <1>4 DEF BootJob, Callers, Timed
<1>7. OneTimer' BY DEF OneTimer, BOOT_TASKS, Timed
<1>8. BootedLoaded' /\ BootStops' /\ TasksOfBoot'
  BY <1>3 DEF BootedLoaded, BootStops, TasksOfBoot, Callers, Timed
<1>9. StartedFresh' BY <1>4 DEF StartedFresh
<1>10. QED BY <1>5, <1>6, <1>7, <1>8, <1>9 DEF IInv

LEMMA FinishedKeeps ==
  ASSUME IInv, NEW c \in Callers, run[c] > 0, Finished(c),
         loaded' = LastStep, left' = left, env' = env
  PROVE  IInv'
<1> DEFINE d == DisableJob(tasks[BootTask], env.stops)
           r == IF c = "host" THEN d ELSE RunEnded(d)
<1>1. /\ d \in TaskState /\ d.options = "disabled" /\ Timed(d)
      /\ d.isExecuting = tasks[BootTask].isExecuting
  BY RunPending, DisableBoot
<1> HIDE DEF d
<1>2. /\ RunEnded(d) \in TaskState /\ RunEnded(d).options = "disabled"
      /\ Timed(RunEnded(d)) /\ RunEnded(d).isExecuting = FALSE
  BY <1>1, RunEndedKeeps DEF Timed
<1>3. /\ r \in TaskState /\ r.options = "disabled" /\ Timed(r)
      /\ r.isExecuting = FALSE
  <2>1. CASE c = "host" BY <1>1, <2>1, RunPending
  <2>2. CASE c # "host" BY <1>2, <2>2
  <2>3. QED BY <2>1, <2>2
<1> DEFINE ts == [t \in Tasks |->
                    CASE t = BootTask                  -> d
                      [] t # BootTask /\ env.safeMode  -> tasks[t]
                      [] t # BootTask /\ ~env.safeMode -> RegisterJobOrTask(t, tasks[t])]
<1>4. ts[BootTask] = d BY BootPreset
<1>5. \A t \in BOOT_TASKS : ts[t] \in TaskState /\ ts[t].timers \in {0, 1}
  <2> SUFFICES ASSUME NEW t \in BOOT_TASKS
               PROVE  ts[t] \in TaskState /\ ts[t].timers \in {0, 1}
    OBVIOUS
  <2>1. t \in Tasks /\ t # BootTask BY DEF BOOT_TASKS
  <2>2. tasks[t] \in TaskState /\ tasks[t].timers \in {0, 1}
    BY <2>1 DEF IInv, TypeOK, OneTimer
  <2>3. CASE env.safeMode BY <2>1, <2>2, <2>3
  <2>4. CASE ~env.safeMode BY <2>1, <2>2, <2>4, RegisterAgain
  <2>5. QED BY <2>3, <2>4
<1>6. booted' = TRUE /\ Returned(c, ts) BY DEF Finished, d
<1>7. ts \in [Tasks -> TaskState] BY <1>1, <1>4, <1>5 DEF BOOT_TASKS
<1> HIDE DEF ts
<1>8. /\ run' = [run EXCEPT ![c] = 0]
      /\ tasks'[BootTask] = r
      /\ tasks' \in [Tasks -> TaskState]
      /\ \A t \in BOOT_TASKS : tasks'[t] = ts[t]
      /\ host' = "listening"
      /\ c # "host" => host' = host
  <2>1. run' = [run EXCEPT ![c] = 0] BY <1>6 DEF Returned
  <2>2. CASE c = "host" BY <1>4, <1>6, <1>7, <2>1, <2>2 DEF Returned
  <2>3. CASE c # "host"
    <3>1. tasks' = [ts EXCEPT ![BootTask] = RunEnded(d)] /\ host' = host
      BY <1>4, <1>6, <2>3 DEF Returned
    <3>2. host = "listening" BY <2>3, RunPending DEF Callers
    <3>3. tasks'[BootTask] = RunEnded(d) /\ \A t \in BOOT_TASKS : tasks'[t] = ts[t]
      BY <1>7, <3>1, BootPreset DEF BOOT_TASKS
    <3>4. tasks' \in [Tasks -> TaskState] BY <1>2, <1>7, <3>1
    <3>5. QED BY <2>1, <2>3, <3>1, <3>2, <3>3, <3>4
  <2>4. QED BY <2>2, <2>3
<1> HIDE DEF r
<1>9. left' \in Nat /\ loaded' \in 0..LastStep /\ booted' \in BOOLEAN /\ booted'
  BY <1>6 DEF IInv, TypeOK, LastStep
<1>10. QED BY <1>3, <1>5, <1>8, <1>9, RunOver

LEMMA StepDoneKeeps == \A c \in Callers : IInv /\ StepDone(c) => IInv'
<1> SUFFICES ASSUME IInv, NEW c \in Callers, StepDone(c) PROVE IInv' OBVIOUS
<1>1. /\ run[c] > 0 /\ run[c] \in 0..LastStep
      /\ env' = env /\ left' = left /\ left' \in Nat /\ loaded \in 0..LastStep
      /\ loaded' = IF run[c] > loaded THEN run[c] ELSE loaded
  BY DEF StepDone, IInv, TypeOK
<1>2. CASE run[c] = LastStep BY <1>1, <1>2, FinishedKeeps DEF StepDone, LastStep
<1>3. CASE run[c] # LastStep
  <2>1. /\ run' = [run EXCEPT ![c] = run[c] + 1]
        /\ host' = host /\ tasks' = tasks /\ booted' = booted
    BY <1>3 DEF StepDone
  <2>2. run[c] + 1 \in 1..LastStep /\ loaded' \in 0..LastStep BY <1>1, <1>3 DEF LastStep
  <2>3. loaded' = LastStep <=> loaded = LastStep BY <1>1, <1>3 DEF LastStep
  <2>4. QED BY <1>1, <2>1, <2>2, <2>3, RunAdvances
<1>4. QED BY <1>2, <1>3

\* What a run that ends with state r of the boot task does to the others: nothing.
LEMMA OthersKept ==
  ASSUME IInv, NEW r \in TaskState, tasks' = [tasks EXCEPT ![BootTask] = r],
         loaded' = loaded
  PROVE  /\ tasks' \in [Tasks -> TaskState]
         /\ tasks'[BootTask] = r
         /\ \A t \in BOOT_TASKS : /\ tasks'[t].timers \in {0, 1}
                                  /\ tasks'[t] = Unregistered \/ loaded' = LastStep
<1>1. tasks \in [Tasks -> TaskState] BY DEF IInv, TypeOK
<1>2. tasks' \in [Tasks -> TaskState] /\ tasks'[BootTask] = r BY <1>1, BootPreset
<1>3. \A t \in BOOT_TASKS : tasks'[t] = tasks[t] BY <1>1 DEF BOOT_TASKS
<1>4. QED BY <1>2, <1>3 DEF IInv, OneTimer, TasksOfBoot, BOOT_TASKS

LEMMA MongooseFailedKeeps == \A c \in Callers : IInv /\ MongooseFailed(c) => IInv'
<1> SUFFICES ASSUME IInv, NEW c \in Callers, MongooseFailed(c) PROVE IInv' OBVIOUS
<1> DEFINE s == ScheduleDisabledJob(BootTask, tasks[BootTask])
           r == IF c = "host" THEN s ELSE RunEnded(s)
<1>1. /\ run[c] > 0 /\ left' \in Nat /\ env' = env /\ loaded' = loaded /\ booted' = booted
      /\ loaded' \in 0..LastStep
  BY DEF MongooseFailed, Fail, IInv, TypeOK
<1>2. /\ s \in TaskState /\ s.options = "enabled" /\ Timed(s)
      /\ s.isExecuting = tasks[BootTask].isExecuting
  BY <1>1, RunPending, ScheduleBoot
<1>3. Returned(c, [tasks EXCEPT ![BootTask] = s]) BY DEF MongooseFailed
<1> HIDE DEF s
<1>4. /\ RunEnded(s) \in TaskState /\ RunEnded(s).options = "enabled"
      /\ Timed(RunEnded(s)) /\ RunEnded(s).isExecuting = FALSE
  BY <1>2, RunEndedKeeps DEF Timed
<1>5. /\ r \in TaskState /\ r.options = "enabled" /\ Timed(r)
      /\ r.isExecuting = FALSE
  <2>1. CASE c = "host" BY <1>1, <1>2, <2>1, RunPending
  <2>2. CASE c # "host" BY <1>4, <2>2
  <2>3. QED BY <2>1, <2>2
<1>6. /\ run' = [run EXCEPT ![c] = 0]
      /\ tasks' = [tasks EXCEPT ![BootTask] = r]
      /\ host' = "listening"
      /\ c # "host" => host' = host
  <2>1. run' = [run EXCEPT ![c] = 0] BY <1>3 DEF Returned
  <2>2. CASE c = "host" BY <1>3, <2>1, <2>2 DEF Returned
  <2>3. CASE c # "host"
    <3>1. host = "listening" BY <1>1, <2>3, RunPending DEF Callers
    <3>2. tasks \in [Tasks -> TaskState] BY DEF IInv, TypeOK
    <3>3. QED BY <1>3, <2>1, <2>3, <3>1, <3>2, BootPreset DEF Returned
  <2>4. QED BY <2>2, <2>3
<1> HIDE DEF r
<1>7. ~booted' /\ booted' \in BOOLEAN /\ (loaded' = LastStep => ~env.stops)
  BY <1>1, RunPending DEF IInv, TypeOK
<1>8. QED BY <1>1, <1>5, <1>6, <1>7, OthersKept, RunOver

LEMMA MigrationFailedKeeps == \A c \in Callers : IInv /\ MigrationFailed(c) => IInv'
<1> SUFFICES ASSUME IInv, NEW c \in Callers, MigrationFailed(c) PROVE IInv' OBVIOUS
<1>1. /\ run[c] > 0 /\ run' = [run EXCEPT ![c] = 2] /\ 2 \in 1..LastStep
      /\ left' \in Nat /\ loaded' \in 0..LastStep /\ loaded' = loaded
      /\ env' = env /\ host' = host /\ tasks' = tasks /\ booted' = booted
  BY DEF MigrationFailed, Fail, IInv, TypeOK, LastStep
<1>2. QED BY <1>1, RunAdvances

\* A run that throws: the process exits, or its job logs the error.
LEMMA ThrownKeeps ==
  ASSUME IInv, NEW c \in Callers, run[c] > 0, Thrown(c), left' \in Nat,
         UNCHANGED <<env, loaded, booted>>
  PROVE  IInv'
<1> DEFINE b == tasks[BootTask]
           r == IF c = "host" THEN b ELSE RunEnded(b)
<1>1. /\ env' = env /\ loaded' = loaded /\ booted' = booted
      /\ loaded' \in 0..LastStep
  BY DEF IInv, TypeOK
<1>2. /\ b \in TaskState /\ b.options # "none"
      /\ Timed(b) /\ (loaded = LastStep => ~env.stops)
      /\ c = "host" => b.options = "disabled" /\ b.timers = 0 /\ b.isExecuting = FALSE
      /\ c = "job" => host = "listening"
  BY <1>1, RunPending
<1>4. tasks \in [Tasks -> TaskState] BY DEF IInv, TypeOK
<1>5. /\ r \in TaskState /\ r.options = b.options /\ r.timers = b.timers
      /\ r.isExecuting = FALSE /\ Timed(r)
  BY <1>2, RunEndedKeeps DEF Timed
<1>6. /\ run' = [run EXCEPT ![c] = 0]
      /\ tasks' = [tasks EXCEPT ![BootTask] = r]
      /\ IF c = "host" THEN host' = "crashed" ELSE host' = host
  BY <1>4, BootPreset DEF Thrown
<1>7. r.options = "enabled" \/ r.timers > 0 => host' = "listening"
  BY <1>2, <1>5, <1>6 DEF Callers
<1> HIDE DEF r, b
<1>8. ~booted' /\ booted' \in BOOLEAN
  <2>1. ~booted BY RunPending
  <2>2. booted \in BOOLEAN BY DEF IInv, TypeOK
  <2>3. QED BY <1>1, <2>1, <2>2
<1>9. QED BY <1>1, <1>2, <1>5, <1>6, <1>7, <1>8, OthersKept, RunOver

LEMMA StepFailedKeeps == \A c \in Callers : IInv /\ StepFailed(c) => IInv'
<1> SUFFICES ASSUME IInv, NEW c \in Callers, StepFailed(c) PROVE IInv' OBVIOUS
<1>1. /\ run[c] > 0 /\ left' \in Nat /\ Thrown(c)
      /\ UNCHANGED <<env, loaded, booted>>
  BY DEF StepFailed, Fail, IInv, TypeOK
<1>2. QED BY <1>1, ThrownKeeps

---------------------------------------------------------------------------
(* Steps of the jobs                                                       *)

LEMMA BootJobTickKeeps == IInv /\ BootJobTick => IInv'
<1> SUFFICES ASSUME IInv, BootJobTick PROVE IInv' OBVIOUS
<1> DEFINE b == tasks[BootTask]
           r == [b EXCEPT !.isExecuting = TRUE]
<1>1. b \in TaskState /\ tasks \in [Tasks -> TaskState] BY BootPreset DEF IInv, TypeOK
<1>2. /\ b.timers > 0
      /\ tasks' = [tasks EXCEPT ![BootTask] = r]
      /\ run' = [run EXCEPT !["job"] = 1]
      /\ env' = env /\ host' = host /\ loaded' = loaded /\ booted' = FALSE /\ left' = left
  BY <1>1, BootPreset DEF BootJobTick, CanTick, Execute
<1>3. /\ host = "listening" /\ Timed(b) /\ (env.stops => b.options = "enabled" /\ loaded # LastStep)
      /\ b.timers \in {0, 1} \/ ~env.stops
      /\ b.options # "none"
  BY <1>1, <1>2 DEF IInv, BootJob, BootStops, Timed
<1>4. /\ r \in TaskState /\ r.options = b.options /\ r.timers = b.timers /\ r.isExecuting = TRUE
      /\ Timed(r)
  BY <1>1, <1>3 DEF TaskState, Timed
<1> HIDE DEF r, b
<1>5. run'["host"] = run["host"] /\ run'["job"] = 1 /\ run' \in [Callers -> 0..LastStep]
  <2>1. run \in [Callers -> 0..LastStep] /\ 1 \in 0..LastStep BY DEF IInv, TypeOK, LastStep
  <2>2. run' \in [Callers -> 0..LastStep] BY <1>2, <2>1, Zenon
  <2>3. QED BY <1>2, <2>1, <2>2 DEF Callers
<1>6. TypeOK'
  <2>1. tasks' \in [Tasks -> TaskState] BY <1>1, <1>2, <1>4
  <2>2. QED BY <1>2, <1>5, <2>1, Zenon DEF IInv, TypeOK
<1>7. BootJob'
  <2>1. tasks'[BootTask] = r BY <1>1, <1>2, BootPreset
  <2>2. run["host"] > 0 <=> host = "booting" BY DEF IInv, BootJob
  <2>3. QED BY <1>2, <1>3, <1>4, <1>5, <2>1, <2>2 DEF BootJob, Timed
<1>8. OneTimer' /\ TasksOfBoot'
  BY <1>2, <1>3, <1>4, OthersKept DEF OneTimer, TasksOfBoot, BOOT_TASKS
<1>9. BootStops' BY <1>2, <1>3, <1>5 DEF IInv, BootStops
<1>10. QED BY <1>2, <1>3, <1>6, <1>7, <1>8, <1>9 DEF IInv, BootedLoaded, StartedFresh

\* The runs of another task, which is registered only once the boot has ended.
LEMMA TaskMoves ==
  ASSUME IInv, NEW t \in BOOT_TASKS, loaded = LastStep,
         NEW s \in TaskState, s.timers = tasks[t].timers,
         tasks' = [tasks EXCEPT ![t] = s],
         UNCHANGED <<env, host, run, loaded, booted>>, left' \in Nat
  PROVE  IInv'
<1>1. t \in Tasks /\ t # BootTask /\ tasks \in [Tasks -> TaskState]
  BY DEF BOOT_TASKS, IInv, TypeOK
<1>2. host # "started" BY DEF IInv, StartedFresh, LastStep
<1>3. tasks' \in [Tasks -> TaskState] /\ tasks'[BootTask] = tasks[BootTask]
  BY <1>1, BootPreset
<1>4. TypeOK'
  <2>1. env' = env /\ host' = host /\ run' = run /\ loaded' = loaded
        /\ booted' = booted /\ left' \in Nat
    OBVIOUS
  <2>2. QED BY <1>3, <2>1, Zenon DEF IInv, TypeOK
<1>5. BootJob' /\ BootedLoaded' /\ BootStops'
  BY <1>3 DEF IInv, BootJob, BootedLoaded, BootStops
<1>6. OneTimer' BY <1>1 DEF IInv, OneTimer
<1>7. TasksOfBoot' /\ StartedFresh' BY <1>2 DEF TasksOfBoot, StartedFresh
<1>8. QED BY <1>4, <1>5, <1>6, <1>7 DEF IInv

LEMMA JobsKeep ==
  \A t \in BOOT_TASKS : IInv /\ (JobTick(t) \/ DelayElapsed(t) \/ TaskEnded(t)) => IInv'
<1> SUFFICES ASSUME IInv, NEW t \in BOOT_TASKS,
                    JobTick(t) \/ DelayElapsed(t) \/ TaskEnded(t)
             PROVE  IInv'
  OBVIOUS
<1>1. tasks[t] \in TaskState /\ left \in Nat BY DEF BOOT_TASKS, IInv, TypeOK
<1>2. /\ Unregistered.timers = 0 /\ Unregistered.delayed = FALSE
      /\ Unregistered.isExecuting = FALSE
  BY DEF Unregistered
<1>3. CASE JobTick(t)
  <2>1. loaded = LastStep BY <1>2, <1>3 DEF JobTick, CanTick, IInv, TasksOfBoot
  <2>2. Execute(tasks[t]) \in TaskState /\ Execute(tasks[t]).timers = tasks[t].timers
    BY <1>1 DEF Execute, TaskState
  <2>3. QED BY <1>1, <1>3, <2>1, <2>2, TaskMoves DEF JobTick
<1>4. CASE DelayElapsed(t)
  <2>1. loaded = LastStep BY <1>2, <1>4 DEF DelayElapsed, IInv, TasksOfBoot
  <2>2. TimeoutFires(tasks[t]) \in TaskState
        /\ TimeoutFires(tasks[t]).timers = tasks[t].timers
    BY <1>1 DEF TimeoutFires, TaskState
  <2>3. QED BY <1>1, <1>4, <2>1, <2>2, TaskMoves DEF DelayElapsed
<1>5. CASE TaskEnded(t)
  <2>1. loaded = LastStep BY <1>2, <1>5 DEF TaskEnded, IInv, TasksOfBoot
  <2>2. RunEnded(tasks[t]) \in TaskState /\ RunEnded(tasks[t]).timers = tasks[t].timers
    BY <1>1, RunEndedKeeps
  <2>3. QED BY <1>1, <1>5, <2>1, <2>2, TaskMoves DEF TaskEnded
<1>6. QED BY <1>3, <1>4, <1>5

---------------------------------------------------------------------------
(* The theorems                                                            *)

\* Every step of the boot, its retries and the jobs keeps the invariant.
LEMMA NextKeeps == IInv /\ [Next]_vars => IInv'
<1> SUFFICES ASSUME IInv, [Next]_vars PROVE IInv' OBVIOUS
<1>1. CASE RunOnce BY <1>1, RunOnceKeeps
<1>2. CASE \E c \in Callers : RunStep(c)
  BY <1>2, StepDoneKeeps, MongooseFailedKeeps, MigrationFailedKeeps, StepFailedKeeps
     DEF RunStep
<1>3. CASE Restarted BY <1>3, RestartedKeeps DEF IInv
<1>4. CASE BootJobTick BY <1>4, BootJobTickKeeps
<1>5. CASE \E t \in BOOT_TASKS : JobTick(t) \/ DelayElapsed(t) \/ TaskEnded(t)
  BY <1>5, JobsKeep
<1>6. CASE UNCHANGED vars
  BY <1>6, Zenon DEF vars, IInv, TypeOK, BootJob, OneTimer, BootedLoaded, BootStops,
                     TasksOfBoot, StartedFresh
<1>7. QED BY <1>1, <1>2, <1>3, <1>4, <1>5, <1>6 DEF Next

\* The inductive invariant of the boot holds always, however many tasks there
\* are and however often it fails.
THEOREM BootInvariant == Spec => []IInv
<1>1. Init => IInv BY InitEstablishes
<1>2. IInv /\ [Next]_vars => IInv' BY NextKeeps
<1>3. QED BY <1>1, <1>2, PTL DEF Spec

\* The variables of the boot keep their types; a timer is never stopped that
\* was not armed.
THEOREM BootTypeCorrect == Spec => []TypeOK
<1>1. IInv => TypeOK BY DEF IInv
<1>2. QED BY <1>1, BootInvariant, PTL

\* The host and the job never run the boot side by side.
THEOREM BootRunsOnce == Spec => []OneBootRun
BY OneRun, BootInvariant, PTL

\* No task ever has two intervals.
THEOREM TimersAreSingle == Spec => []OneTimer
<1>1. IInv => OneTimer BY DEF IInv
<1>2. QED BY <1>1, BootInvariant, PTL

\* A task that runs does so in a process whose stores are all loaded.
THEOREM StoresAreLoaded == Spec => []StoresFirst
<1>1. IInv => StoresFirst BY DEF Unregistered, IInv, TasksOfBoot, StoresFirst
<1>2. QED BY <1>1, BootInvariant, PTL

\* Once a boot has reached its end neither its job nor a pending run repeats it.
THEOREM BootIsOver == Spec => []BootStops
<1>1. IInv => BootStops BY DEF IInv
<1>2. QED BY <1>1, BootInvariant, PTL

\* For any tasks and any number of failures the boot's job has one interval, the other tasks
\* run after every store was loaded, and the boot comes to an end.
THEOREM BootIsInOrder == Spec => []BootInOrder
<1>1. OneTimer /\ StoresFirst /\ BootStops => BootInOrder BY DEF BootInOrder
<1>2. QED BY <1>1, TimersAreSingle, StoresAreLoaded, BootIsOver, PTL

---------------------------------------------------------------------------
(* The start in detail: the boot in a process that may be killed           *)

\* A process that has exited runs nothing.
Dead == host = "crashed" /\ run = NoRun

\* What the invariant of Boot comes to in a process that may be killed; the client is
\* updated while the server listens, by the task once it has booted.
StartInv ==
  /\ TypeOK /\ OneTimer /\ StoresFirst /\ BootStops
  /\ IInv \/ Dead
  /\ updates["task"].at # "none" => loaded = LastStep
  /\ \A u \in Requested : updates[u].at # "none" => host = "listening"

(***************************************************************************)
(* The client                                                              *)
(***************************************************************************)
Dist == {"index.html", "rest"}
Package == {"package.json"}

\* What an update has still to remove.
EntryLists == {<<Dist>>, <<Package>>, <<Dist, Package>>}
Listed(entries) == UNION {entries[i] : i \in DOMAIN entries}

Update(update) ==
  /\ update \in [at : {"none", "download", "clear"}, target : Nat, entries : {<<>>} \cup EntryLists]
  /\ update.at # "none" => update.target \in Versions /\ update.target >= Minimum
  /\ update.at = "clear" => update.entries \in EntryLists

Flags == {"excused", "cut", "dropped", "overlapped", "administered", "mixed", "torn", "ensured",
          "edited", "asked"}
Past(p) ==
  /\ DOMAIN p = {"scope", "saved"} \cup Flags
  /\ p = [f \in DOMAIN p |-> p[f]]
  /\ \A f \in Flags : p[f] \in BOOLEAN

Clearing == {u \in Requested : updates[u].at = "clear"}

\* A file of a version that is too old.
Old(f) == bundle[f] # 0 /\ bundle[f] < Minimum

\* While a file is too old all are, and whoever unpacks a zip removes it first.
OldGoes ==
  \A f \in Files : Old(f) =>
    /\ \A g \in Files : bundle[g] = 0 \/ Old(g)
    /\ \A u \in Clearing : f \in Listed(updates[u].entries)

\* Without overlaps all files are of one version, and an update removes what is there.
OneVersion ==
  ~past.mixed =>
    /\ \A f, g \in Files : bundle[f] # 0 /\ bundle[g] # 0 => bundle[f] = bundle[g]
    /\ \A u \in Clearing : updates[u].entries = Entries(bundle) /\ Clearing = {u}
    /\ ~past.torn /\ Clearing = {} => \A f, g \in Files : bundle[f] = bundle[g]

Ensured ==
  past.ensured /\ Clearing = {} =>
    \A f \in {"package.json", "index.html"} : bundle[f] # 0 /\ ~Old(f)

BundleTypes ==
  /\ bundle \in Bundles
  /\ DOMAIN updates = Requested /\ updates = [u \in Requested |-> updates[u]]
  /\ \A u \in Requested : Update(updates[u])
  /\ Past(past)

BundleInv == BundleTypes /\ OldGoes /\ OneVersion /\ Ensured

---------------------------------------------------------------------------
(* The steps of the start are steps of Boot, or leave the boot alone       *)

LEMMA DeadIsSafe ==
  IInv => OneBootRun /\ StoresFirst /\ OneTimer /\ BootStops /\ TypeOK
<1> SUFFICES ASSUME IInv PROVE OneBootRun /\ StoresFirst /\ OneTimer /\ BootStops /\ TypeOK
  OBVIOUS
<1>1. Unregistered.isExecuting = FALSE BY DEF Unregistered
<1>2. StoresFirst BY <1>1 DEF IInv, TasksOfBoot, StoresFirst
<1>3. QED BY <1>2, OneRun DEF IInv

\* The steps that are steps of Boot.
LEMMA BootSteps ==
  ASSUME IInv, [Next]_vars
  PROVE  IInv' /\ TypeOK' /\ OneTimer' /\ StoresFirst' /\ BootStops'
<1>1. IInv' BY NextKeeps
<1>2. Unregistered.isExecuting = FALSE BY DEF Unregistered
<1>3. StoresFirst' BY <1>1, <1>2 DEF IInv, TasksOfBoot, StoresFirst
<1>4. QED BY <1>1, <1>3 DEF IInv

\* The others: a command of a migration fails, the account of the demo cannot be made, a
\* task ends with an update of the client, and the process is killed.
LEMMA OtherSteps ==
  ASSUME IInv,
         \/ \E c \in Callers :
              /\ run[c] > 0
              /\ \/ /\ run' = [run EXCEPT ![c] = 2]
                    /\ UNCHANGED <<env, host, tasks, loaded, booted, left>>
                 \/ Thrown(c) /\ UNCHANGED <<env, loaded, booted, left>>
         \/ /\ loaded = LastStep /\ tasks' = [tasks EXCEPT ![ClientTask] = RunEnded(@)]
            /\ left' \in Nat
            /\ UNCHANGED <<env, host, run, loaded, booted>>
         \/ /\ left' \in Nat
            /\ UNCHANGED <<env, host, tasks, run, loaded, booted>>
  PROVE  IInv'
<1>1. left \in Nat /\ loaded \in 0..LastStep /\ tasks \in [Tasks -> TaskState] /\ run \in [Callers -> 0..LastStep]
  BY DEF IInv, TypeOK
<1>2. ASSUME NEW c \in Callers, run[c] > 0, run' = [run EXCEPT ![c] = 2],
             UNCHANGED <<env, host, tasks, loaded, booted, left>>
      PROVE  IInv'
  <2>1. 2 \in 1..LastStep /\ loaded' \in 0..LastStep /\ left' \in Nat
    BY <1>1, <1>2 DEF LastStep
  <2>2. QED BY <1>2, <2>1, RunAdvances
<1>3. ASSUME NEW c \in Callers, run[c] > 0, Thrown(c), UNCHANGED <<env, loaded, booted, left>>
      PROVE  IInv'
  BY <1>1, <1>3, ThrownKeeps
<1>4. ASSUME loaded = LastStep, tasks' = [tasks EXCEPT ![ClientTask] = RunEnded(@)],
             left' \in Nat, UNCHANGED <<env, host, run, loaded, booted>>
      PROVE  IInv'
  <2>1. ClientTask \in BOOT_TASKS /\ ClientTask \in Tasks
    BY ClientTaskRegistered DEF BOOT_TASKS
  <2>2. tasks[ClientTask] \in TaskState BY <1>1, <2>1
  <2> DEFINE s == RunEnded(tasks[ClientTask])
  <2>3. s \in TaskState /\ s.timers = tasks[ClientTask].timers BY <2>2, RunEndedKeeps
  <2>4. tasks' = [tasks EXCEPT ![ClientTask] = s] BY <1>4
  <2> HIDE DEF s
  <2>5. QED BY <1>1, <1>4, <2>1, <2>3, <2>4, TaskMoves
<1>5. ASSUME left' \in Nat, UNCHANGED <<env, host, tasks, run, loaded, booted>>
      PROVE  IInv'
  BY <1>5, Zenon DEF IInv, TypeOK, BootJob, OneTimer, BootedLoaded, BootStops,
                     TasksOfBoot, StartedFresh
<1>6. QED BY <1>2, <1>3, <1>4, <1>5

\* A process that was killed only starts again.
LEMMA DeadStays ==
  ASSUME Dead, Next
  PROVE  Restarted
<1>1. host = "crashed" /\ \A c \in Callers : ~(run[c] > 0) BY DEF Dead, NoRun
<1>2. ~RunOnce /\ ~BootJobTick BY <1>1 DEF RunOnce, BootJobTick, Alive
<1>3. \A c \in Callers : ~RunStep(c)
  BY <1>1 DEF Dead, NoRun, RunStep, StepDone, MongooseFailed, MigrationFailed, StepFailed
<1>4. \A t \in BOOT_TASKS : ~JobTick(t) /\ ~DelayElapsed(t) /\ ~TaskEnded(t)
  BY <1>1 DEF JobTick, DelayElapsed, TaskEnded, Alive
<1>5. QED BY <1>2, <1>3, <1>4 DEF Next

\* A server that listens goes on to, and has booted once and for all.
LEMMA Listens ==
  ASSUME IInv, Next, host = "listening"
  PROVE  host' = "listening" /\ (loaded = LastStep => loaded' = LastStep)
<1>1. run["host"] \in 0..LastStep /\ ~(run["host"] > 0)
  BY DEF IInv, TypeOK, BootJob, Callers
<1>2. ASSUME NEW c \in Callers, RunStep(c) PROVE host' = "listening" /\ (loaded = LastStep => loaded' = LastStep)
  <2>1. run[c] > 0
    BY <1>2 DEF RunStep, StepDone, MongooseFailed, MigrationFailed, StepFailed
  <2>2. c # "host" BY <1>1, <2>1
  <2>3. host' = "listening"
    BY <1>2, <2>2 DEF RunStep, StepDone, MongooseFailed, MigrationFailed, StepFailed, Finished,
      Returned, Thrown
  <2>4. run[c] \in 0..LastStep BY DEF IInv, TypeOK
  <2>5. loaded = LastStep => loaded' = LastStep
    BY <1>2, <2>4 DEF RunStep, StepDone, MongooseFailed, MigrationFailed, StepFailed, LastStep
  <2>6. QED BY <2>3, <2>5
<1>3. QED
  BY <1>2 DEF Next, RunOnce, Restarted, BootJobTick, JobTick, DelayElapsed, TaskEnded

\* The steps of Boot.
LEMMA BootStep ==
  ASSUME StartInv, [Next]_vars,
         \/ updates' = updates
         \/ \A u \in Requested : updates'[u].at = "none"
  PROVE  StartInv'
<1>1. CASE UNCHANGED vars
  <2>1. TypeOK' /\ OneTimer' /\ StoresFirst' /\ BootStops' /\ (IInv \/ Dead)'
    BY <1>1, Zenon DEF StartInv, vars, Dead, IInv, TypeOK, BootJob, OneTimer, BootedLoaded, BootStops,
      StoresFirst, TasksOfBoot, StartedFresh
  <2>2. QED BY <1>1, <2>1 DEF StartInv, vars, Requested
<1>2. CASE IInv /\ Next
  <2>1. IInv' /\ TypeOK' /\ OneTimer' /\ StoresFirst' /\ BootStops' BY <1>2, BootSteps
  <2>2. \A u \in Requested : updates'[u].at # "none" => updates'[u] = updates[u] /\ host = "listening"
    BY DEF StartInv
  <2>3. \A u \in Requested : updates'[u].at # "none" => host' = "listening" /\ (loaded = LastStep => loaded' = LastStep)
    BY <1>2, <2>2, Listens
  <2>4. "task" \in Requested BY DEF Requested
  <2>5. QED BY <2>1, <2>2, <2>3, <2>4 DEF StartInv
<1>3. CASE Dead /\ Next
  <2>1. Restarted BY <1>3, DeadStays
  <2>2. IInv' BY <2>1, RestartedKeeps DEF StartInv
  <2>3. IInv' /\ TypeOK' /\ OneTimer' /\ StoresFirst' /\ BootStops'
    <3>1. Unregistered.isExecuting = FALSE BY DEF Unregistered
    <3>2. StoresFirst' BY <2>2, <3>1 DEF IInv, TasksOfBoot, StoresFirst
    <3>3. QED BY <2>2, <3>2 DEF IInv
  <2>4. \A u \in Requested : updates'[u].at = "none" BY <1>3 DEF StartInv, Dead
  <2>5. QED BY <2>3, <2>4 DEF StartInv, Requested
<1>4. QED BY <1>1, <1>2, <1>3 DEF StartInv

\* The steps that only a migration, the demo account or an update makes.
LEMMA AloneStep ==
  ASSUME StartInv, host # "crashed",
         \/ \E c \in Callers :
              /\ run[c] > 0
              /\ \/ /\ run' = [run EXCEPT ![c] = 2]
                    /\ UNCHANGED <<env, host, tasks, loaded, booted, left>>
                 \/ Thrown(c) /\ UNCHANGED <<env, loaded, booted, left>>
         \/ /\ loaded = LastStep /\ tasks' = [tasks EXCEPT ![ClientTask] = RunEnded(@)]
            /\ left' \in Nat
            /\ UNCHANGED <<env, host, run, loaded, booted>>
         \/ /\ left' \in Nat
            /\ UNCHANGED <<env, host, tasks, run, loaded, booted>>,
         \A u \in Requested : updates'[u].at # "none" =>
           \/ updates[u].at # "none"
           \/ host = "listening" /\ (u = "task" => loaded = LastStep)
  PROVE  StartInv'
<1>1. IInv BY DEF StartInv, Dead
<1>2. IInv' BY <1>1, OtherSteps
<1>3. IInv' /\ TypeOK' /\ OneTimer' /\ StoresFirst' /\ BootStops'
  <2>1. Unregistered.isExecuting = FALSE BY DEF Unregistered
  <2>2. StoresFirst' BY <1>2, <2>1 DEF IInv, TasksOfBoot, StoresFirst
  <2>3. QED BY <1>2, <2>2 DEF IInv
<1>4. host = "listening" => host' = "listening" BY <1>1, RunPending DEF Thrown
<1>5. loaded' = loaded OBVIOUS
<1>6. QED BY <1>3, <1>4, <1>5 DEF StartInv, Requested

\* The process is killed.
LEMMA KilledStep ==
  ASSUME StartInv, Killed
  PROVE  StartInv'
<1>1. TypeOK'
  <2>1. run' \in [Callers -> 0..LastStep] /\ left' \in Nat /\ host' = "crashed"
    BY DEF Killed, NoRun, LastStep, Fail, StartInv, TypeOK
  <2>2. env' = env /\ tasks' = tasks /\ loaded' = loaded /\ booted' = booted BY DEF Killed
  <2>3. QED BY <2>1, <2>2 DEF StartInv, TypeOK
<1>2. OneTimer' /\ StoresFirst' BY DEF StartInv, OneTimer, StoresFirst, Killed
<1>3. BootStops' /\ Dead' BY DEF StartInv, BootStops, Killed, NoRun, Dead, Callers
<1>4. \A u \in Requested : updates'[u].at = "none" BY DEF Killed, NoUpdates, NoUpdate
<1>5. QED BY <1>1, <1>2, <1>3, <1>4 DEF StartInv, Requested

\* A caller whose step is done, or fails, makes a step of Boot.
LEMMA CallerSteps ==
  ASSUME NEW c \in Callers,
         \/ StepDone(c) \/ MongooseFailed(c) \/ MigrationFailed(c) \/ StepFailed(c)
  PROVE  Next
BY DEF Next, RunStep

\* The steps of the start other than updates of the client.
LEMMA StartSteps ==
  ASSUME StartInv, updates' = updates,
         \/ Begun \/ MigrateMongo \/ BootJobRuns
         \/ \E c \in Callers :
              \/ Connected(c) \/ Command(c) \/ Recorded(c) \/ ConnectionFailed(c) \/ MigrationDropped(c)
              \/ SyncPermissions(c) \/ FindPermission(c) \/ StorePermission(c)
              \/ CreateOrUpdateDemoAccount(c) \/ GetDemoUserId(c) \/ ChangeDemoAccount(c)
              \/ OtherStep(c) \/ Failed(c)
         \/ \E loginRequired \in BOOLEAN : AskRole(AppDefaultRole(loginRequired))
         \/ \E s \in Syncers : FindRole(s) \/ StoreRole(s)
         \/ \E user \in {"owner", "demo"} : Administer(user)
         \/ \E t \in BOOT_TASKS : OtherTask(t)
         \/ \E m \in DOMAIN Models : Edit(m)
  PROVE  StartInv'
<1>1. CASE \/ Begun \/ MigrateMongo \/ BootJobRuns
           \/ \E loginRequired \in BOOLEAN : AskRole(AppDefaultRole(loginRequired))
           \/ \E user \in {"owner", "demo"} : Administer(user)
           \/ \E t \in BOOT_TASKS : OtherTask(t)
           \/ \E m \in DOMAIN Models : Edit(m)
  BY <1>1, BootStep DEF Begun, MigrateMongo, BootJobRuns, AskRole, Administer, OtherTask, Edit, Next
<1>2. CASE \E s \in Syncers : FindRole(s) \/ StoreRole(s)
  <2>1. ASSUME NEW s \in Syncers, StoreRole(s), ~UNCHANGED vars PROVE Next
    <3>1. s # "request" /\ StepDone(s) BY <2>1 DEF StoreRole
    <3>2. s \in Callers BY <3>1 DEF Syncers
    <3>3. QED BY <3>1, <3>2, CallerSteps
  <2>2. [Next]_vars BY <1>2, <2>1 DEF FindRole, FindOne
  <2>3. QED BY <2>2, BootStep
<1>3. ASSUME NEW c \in Callers,
             \/ Connected(c) \/ Recorded(c) \/ ConnectionFailed(c) \/ MigrationDropped(c)
             \/ SyncPermissions(c) \/ FindPermission(c) \/ StorePermission(c)
             \/ GetDemoUserId(c) \/ OtherStep(c) \/ Failed(c)
      PROVE  StartInv'
  <2>1. \/ StepDone(c) \/ MongooseFailed(c) \/ MigrationFailed(c) \/ StepFailed(c)
        \/ UNCHANGED vars
    BY <1>3 DEF Connected, Recorded, Begins, ConnectionFailed, MigrationDropped, SyncPermissions,
      FindPermission, FindOne, StorePermission, GetDemoUserId, OtherStep, Failed
  <2>2. [Next]_vars BY <2>1, CallerSteps
  <2>3. QED BY <2>2, BootStep
<1>4. ASSUME NEW c \in Callers, Command(c) \/ CreateOrUpdateDemoAccount(c) \/ ChangeDemoAccount(c)
      PROVE  StartInv'
  <2>1. run[c] > 0 /\ (run' = [run EXCEPT ![c] = 2] \/ Thrown(c) \/ UNCHANGED vars \/ StepDone(c))
    <3>1. CASE Command(c) BY <3>1 DEF Command, InMongo
    <3>2. CASE CreateOrUpdateDemoAccount(c)
      BY <3>2 DEF CreateOrUpdateDemoAccount, InDemoMode
    <3>3. CASE ChangeDemoAccount(c)
      <4>1. run[c] > 0
        <5>1. InDemoMode(c) BY <3>3, Zenon DEF ChangeDemoAccount
        <5>2. QED BY <5>1 DEF InDemoMode
      <4>2. Thrown(c) \/ UNCHANGED vars \/ StepDone(c) BY <3>3, Zenon DEF ChangeDemoAccount
      <4>3. QED BY <4>1, <4>2
    <3>4. QED BY <1>4, <3>1, <3>2, <3>3
  <2>2. CASE UNCHANGED vars \/ StepDone(c) BY <2>2, CallerSteps, BootStep
  <2>3. CASE /\ run' = [run EXCEPT ![c] = 2]
             /\ UNCHANGED <<env, host, tasks, loaded, booted, left>>
    <3>1. host # "crashed" BY <2>1 DEF StartInv, IInv, BootJob, Dead, NoRun, Callers
    <3>2. QED BY <2>1, <2>3, <3>1, AloneStep
  <2>4. CASE Thrown(c) /\ UNCHANGED <<env, loaded, booted, left>>
    BY <2>1, <2>4, AloneStep DEF StartInv, IInv, BootJob, Dead, NoRun, Callers
  <2>5. QED
    BY <1>4, <2>2, <2>3, <2>4 DEF Command, CreateOrUpdateDemoAccount, ChangeDemoAccount
<1>5. QED BY <1>1, <1>2, <1>3, <1>4

\* The updates of the client.
LEMMA UpdateSteps ==
  ASSUME StartInv, DOMAIN updates = Requested, updates = [u \in Requested |-> updates[u]],
         \/ RunTask \/ UpdateClientBundleGithub
         \/ \E u \in Requested : Downloaded(u) \/ EntryRemoved(u) \/ UpdateFailed(u)
  PROVE  StartInv'
<1>1. left \in Nat /\ "task" \in Requested /\ "request" \in Requested /\ NoUpdate.at = "none"
  BY DEF StartInv, TypeOK, Requested, NoUpdate
<1>2. ASSUME NEW u \in Requested, NEW failed \in BOOLEAN, UpdateDone(u, failed), Alive,
             u = "task" => loaded = LastStep, left' \in Nat
      PROVE  StartInv'
  <2>1. updates'[u].at = "none" /\ \A v \in Requested \ {u} : updates'[v] = updates[v]
    BY <1>1, <1>2 DEF UpdateDone
  <2>2. UNCHANGED <<env, host, run, loaded, booted>> BY <1>2 DEF UpdateDone
  <2>3. IF u = "task" THEN tasks' = [tasks EXCEPT ![ClientTask] = RunEnded(@)] ELSE tasks' = tasks
    BY <1>2 DEF UpdateDone
  <2>4. host # "crashed" BY <1>2 DEF Alive
  <2>5. CASE u = "task" BY <1>2, <2>1, <2>2, <2>3, <2>4, <2>5, AloneStep
  <2>6. CASE u # "task" BY <1>2, <2>1, <2>2, <2>3, <2>4, <2>6, AloneStep
  <2>7. QED BY <2>5, <2>6
<1>3. ASSUME UNCHANGED vars, host # "crashed",
             \A u \in Requested : updates'[u].at # "none" =>
               \/ updates[u].at # "none"
               \/ host = "listening" /\ (u = "task" => loaded = LastStep)
      PROVE  StartInv'
  BY <1>1, <1>3, AloneStep DEF vars
<1>4. CASE RunTask
  <2>1. Alive /\ tasks[ClientTask].isExecuting BY <1>4 DEF RunTask
  <2>2. IInv /\ host # "crashed" BY <2>1 DEF StartInv, Dead, Alive
  <2>3. loaded = LastStep
    BY <2>1, <2>2, ClientTaskRegistered DEF Unregistered, IInv, TasksOfBoot
  <2>4. host = "listening"
    BY <2>2, <2>3 DEF IInv, TypeOK, BootStops, BootJob, StartedFresh, LastStep
  <2>5. CASE ShouldUpdate(bundle, FALSE, 0, FALSE)
    <3>1. UNCHANGED vars /\ updates' = [updates EXCEPT !["task"] = Asked(Minimum)]
      BY <1>4, <2>5 DEF RunTask
    <3>2. \A u \in Requested \ {"task"} : updates'[u] = updates[u] BY <3>1
    <3>3. QED BY <1>3, <2>2, <2>3, <2>4, <3>1, <3>2
  <2>6. CASE ~ShouldUpdate(bundle, FALSE, 0, FALSE)
    BY <1>4, <2>6, <1>1, <1>2, <2>1, <2>3, <2>4 DEF RunTask
  <2>7. QED BY <2>5, <2>6
<1>5. CASE UpdateClientBundleGithub
  <2>1. host = "listening" /\ UNCHANGED vars BY <1>5 DEF UpdateClientBundleGithub
  <2>2. \A u \in Requested \ {"request"} : updates'[u] = updates[u]
    BY <1>5 DEF UpdateClientBundleGithub
  <2>3. QED BY <1>3, <2>1, <2>2 DEF Requested
<1>6. ASSUME NEW u \in Requested, Downloaded(u) \/ EntryRemoved(u) \/ UpdateFailed(u)
      PROVE  StartInv'
  <2>1. Alive /\ updates[u].at # "none" /\ (u = "task" => loaded = LastStep)
    BY <1>6 DEF Downloaded, EntryRemoved, UpdateFailed, StartInv
  <2>2. CASE UpdateFailed(u)
    <3>1. UpdateDone(u, TRUE) /\ Fail BY <2>2, Zenon DEF UpdateFailed
    <3>2. left' \in Nat BY <1>1, <3>1 DEF Fail
    <3>3. QED BY <1>2, <2>1, <3>1, <3>2
  <2>3. CASE UpdateDone(u, FALSE) /\ left' = left BY <1>1, <1>2, <2>1, <2>3
  <2>4. CASE Downloaded(u) /\ Entries(bundle) # <<>>
    BY <2>4, <1>3, <2>1 DEF Downloaded, Alive
  <2>5. CASE EntryRemoved(u) /\ Len(updates[u].entries) > 1
    BY <2>5, <1>3, <2>1 DEF EntryRemoved, Alive
  <2>6. QED BY <1>6, <2>2, <2>3, <2>4, <2>5 DEF Downloaded, EntryRemoved
<1>7. QED BY <1>4, <1>5, <1>6

---------------------------------------------------------------------------
(* The files of the client                                                 *)

LEMMA FilesAre ==
  /\ Files = Dist \cup Package /\ "package.json" \in Package /\ Package \subseteq Files
  /\ "package.json" \in Files /\ "index.html" \in Files /\ "rest" \in Files /\ Dist \subseteq Files
  /\ \A f \in Files : f \in Dist <=> f \notin Package
  /\ \A f \in Package : f = "package.json"
  /\ \A f \in Dist : f = "index.html" \/ f = "rest"
BY DEF Files, Dist, Package

\* A list of two.
LEMMA TwoEntries ==
  ASSUME NEW x, NEW y
  PROVE  <<x>> \o <<y>> = <<x, y>>
<1> DEFINE s == <<x>> \o <<y>>
           t == <<x, y>>
           S == {x, y}
<1>1. <<x>> \in Seq(S) /\ <<y>> \in Seq(S) /\ Len(<<x>>) = 1 /\ Len(<<y>>) = 1 OBVIOUS
<1>2. s \in Seq(S) /\ Len(s) = 2 BY <1>1
<1>3. s[1] = x /\ s[2] = y BY <1>1
<1>4. t \in Seq(S) /\ Len(t) = 2 /\ t[1] = x /\ t[2] = y OBVIOUS
<1> HIDE DEF s, t, S
<1>5. \A i \in 1..Len(s) : s[i] = t[i] BY <1>2, <1>3, <1>4
<1>6. s = t BY <1>2, <1>4, <1>5, SeqEqual
<1>7. QED BY <1>6 DEF s, t
LEMMA DistIsNot ==
  /\ Dist # Package
  /\ <<Dist>> # <<Package>> /\ <<Dist>> # <<Dist, Package>> /\ <<Package>> # <<Dist, Package>>
  /\ <<Dist>> # <<>> /\ <<Package>> # <<>> /\ <<Dist, Package>> # <<>>
<1>1. Dist # Package BY DEF Dist, Package
<1>2. Len(<<Dist>>) = 1 /\ Len(<<Package>>) = 1 /\ Len(<<Dist, Package>>) = 2 /\ Len(<<>>) = 0
  OBVIOUS
<1>3. <<Dist>>[1] = Dist /\ <<Package>>[1] = Package OBVIOUS
<1>4. QED BY <1>1, <1>2, <1>3

\* The entries of a directory, and what each step removes of them.
LEMMA EntriesAre ==
  ASSUME NEW b
  PROVE  /\ Entries(b) \in {<<>>} \cup EntryLists
         /\ Entries(b) = <<>> <=> \A f \in Files : b[f] = 0
         /\ Entries(b) = <<Dist>> => b["package.json"] = 0
         /\ Entries(b) = <<Package>> => b["index.html"] = 0 /\ b["rest"] = 0
         /\ b["package.json"] = 0 => Entries(b) # <<Package>> /\ Entries(b) # <<Dist, Package>>
         /\ b["package.json"] # 0 /\ b["index.html"] = 0 /\ b["rest"] = 0 => Entries(b) = <<Package>>
<1> DEFINE d == b["index.html"] = 0 /\ b["rest"] = 0
           p == b["package.json"] = 0
<1>1. Entries(b) = (IF d THEN <<>> ELSE <<Dist>>) \o (IF p THEN <<>> ELSE <<Package>>)
  BY DEF Entries, Dist, Package
<1>2. \A f \in Files : f = "index.html" \/ f = "rest" \/ f = "package.json" BY DEF Files
<1>3. (\A f \in Files : b[f] = 0) <=> d /\ p BY <1>2, FilesAre
<1> HIDE DEF d, p
<1>4. CASE d /\ p BY <1>1, <1>4, <1>3 DEF d, p, EntryLists
<1>5. CASE d /\ ~p BY <1>1, <1>5, <1>3, DistIsNot DEF d, p, EntryLists
<1>6. CASE ~d /\ p BY <1>1, <1>6, <1>3, DistIsNot DEF d, p, EntryLists
<1>7. CASE ~d /\ ~p
  <2>1. Entries(b) = <<Dist, Package>>
    <3>1. Entries(b) = <<Dist>> \o <<Package>> BY <1>1, <1>7
    <3>2. <<Dist>> \o <<Package>> = <<Dist, Package>> BY TwoEntries
    <3>3. QED BY <3>1, <3>2
  <2>2. QED BY <1>3, <1>7, <2>1, DistIsNot DEF d, p, EntryLists
<1>8. QED BY <1>4, <1>5, <1>6, <1>7

LEMMA ListsAre ==
  ASSUME NEW e \in EntryLists
  PROVE  /\ e # <<>> /\ Head(e) \subseteq Files
         /\ Len(e) > 1 => e = <<Dist, Package>> /\ Head(e) = Dist /\ Tail(e) = <<Package>>
         /\ Len(e) > 1 => Listed(e) = Files /\ Listed(Tail(e)) = Package
         /\ ~(Len(e) > 1) => Listed(e) = Head(e) /\ e \in {<<Dist>>, <<Package>>} /\ e = <<Head(e)>>
<1>1. CASE e = <<Dist>> BY <1>1, FilesAre DEF Listed
<1>2. CASE e = <<Package>> BY <1>2, FilesAre DEF Listed
<1>3. CASE e = <<Dist, Package>>
  <2>1. Listed(e) = Dist \cup Package BY <1>3 DEF Listed
  <2>2. Len(e) = 2 /\ Head(e) = Dist /\ Tail(e) = <<Package>> BY <1>3
  <2>3. Listed(<<Package>>) = Package BY DEF Listed
  <2>4. QED BY <1>3, <2>1, <2>2, <2>3, FilesAre
<1>4. QED BY <1>1, <1>2, <1>3 DEF EntryLists

LEMMA Numbers == Minimum \in Nat \ {0} /\ Minimum \in Versions /\ \A v \in Versions : v \in Nat /\ v # 0
BY MinimumIsVersion

LEMMA RemovedIs ==
  ASSUME NEW b \in Bundles, NEW s
  PROVE  Removed(b, s) \in Bundles /\ \A f \in Files : Removed(b, s)[f] = IF f \in s THEN 0 ELSE b[f]
BY DEF Removed, Bundles

LEMMA ExtractedIs ==
  ASSUME NEW b \in Bundles, NEW s, NEW v \in Versions
  PROVE  /\ Extracted(b, s, v) \in Bundles
         /\ \A f \in Files : Extracted(b, s, v)[f] = IF f \in s /\ b[f] = 0 THEN v ELSE b[f]
BY DEF Extracted, Bundles

LEMMA OldOrNot ==
  ASSUME BundleTypes, NEW f \in Files
  PROVE  bundle[f] \in Nat /\ (bundle[f] = 0 \/ Old(f) \/ bundle[f] >= Minimum)
<1>1. bundle[f] \in Versions \cup {0} BY DEF BundleTypes, Bundles
<1>2. bundle[f] \in Nat
  <2>1. CASE bundle[f] \in Versions BY <2>1, Numbers
  <2>2. CASE bundle[f] = 0 BY <2>2
  <2>3. QED BY <1>1, <2>1, <2>2
<1>3. QED BY <1>2, Numbers DEF Old

\* The update lists every file that is there.
LEMMA ListsAll ==
  ASSUME NEW b, Entries(b) # <<>>, NEW f \in Files, b[f] # 0
  PROVE  f \in Listed(Entries(b))
<1>1. Entries(b) \in EntryLists BY EntriesAre
<1>2. CASE Entries(b) = <<Dist>>
  <2>1. Listed(<<Dist>>) = Dist BY DEF Listed
  <2>2. f \notin Package BY <1>2, EntriesAre, FilesAre
  <2>3. QED BY <1>2, <2>1, <2>2, FilesAre
<1>3. CASE Entries(b) = <<Package>>
  <2>1. Listed(<<Package>>) = Package BY DEF Listed
  <2>2. f \notin Dist BY <1>3, EntriesAre, FilesAre
  <2>3. QED BY <1>3, <2>1, <2>2, FilesAre
<1>4. CASE Entries(b) = <<Dist, Package>>
  <2>1. Len(Entries(b)) > 1 BY <1>4
  <2>2. Listed(Entries(b)) = Files BY <1>1, <2>1, ListsAre
  <2>3. QED BY <2>2
<1>5. QED BY <1>1, <1>2, <1>3, <1>4 DEF EntryLists

\* The last entry: what is too old goes with it, and everything unless updates overlap.
LEMMA LastEntry ==
  ASSUME BundleInv, NEW u \in Clearing, ~(Len(updates[u].entries) > 1), NEW c,
         c = Removed(bundle, Head(updates[u].entries))
  PROVE  /\ c \in Bundles
         /\ \A f \in Files : c[f] = bundle[f] \/ c[f] = 0
         /\ \A f \in Files : Old(f) => c[f] = 0
         /\ ~past.mixed => \A f \in Files : c[f] = 0
         /\ ~past.mixed => Clearing \subseteq {u}
<1> DEFINE e == updates[u].entries
<1>1. e \in EntryLists /\ bundle \in Bundles BY DEF BundleInv, BundleTypes, Update, Clearing
<1> HIDE DEF e
<1>2. Listed(e) = Head(e) BY <1>1, ListsAre DEF e
<1>3. c \in Bundles /\ \A f \in Files : c[f] = IF f \in Head(e) THEN 0 ELSE bundle[f]
  BY <1>1, RemovedIs DEF e
<1>4. \A f \in Files : Old(f) => c[f] = 0 BY <1>2, <1>3 DEF BundleInv, OldGoes, e
<1>5. ASSUME ~past.mixed, NEW f \in Files PROVE c[f] = 0
  <2>1. e = Entries(bundle) /\ e # <<>> BY <1>1, <1>5, ListsAre DEF BundleInv, OneVersion, e
  <2>2. bundle[f] # 0 => f \in Head(e) BY <1>2, <2>1, ListsAll
  <2>3. QED BY <1>3, <2>2
<1>6. ~past.mixed => Clearing \subseteq {u} BY DEF BundleInv, OneVersion
<1>7. QED BY <1>3, <1>4, <1>5, <1>6

\* A zip is unpacked.
LEMMA UnpackedStep ==
  ASSUME BundleInv, NEW u \in Requested, NEW c \in Bundles, NEW v \in Versions, v >= Minimum,
         \A f \in Files : c[f] = bundle[f] \/ c[f] = 0,
         \A f \in Files : Old(f) => c[f] = 0,
         ~past.mixed => \A f \in Files : c[f] = 0,
         ~past.mixed => Clearing \subseteq {u},
         bundle' = Unpacked(c, v),
         updates' = [updates EXCEPT ![u] = NoUpdate],
         Past(past'), past'.mixed = past.mixed
  PROVE  BundleInv'
<1>1. bundle' \in Bundles /\ \A f \in Files : bundle'[f] = IF c[f] = 0 THEN v ELSE c[f]
  BY ExtractedIs DEF Unpacked
<1>2. BundleTypes BY DEF BundleInv
<1>3. \A f \in Files : bundle'[f] # 0 /\ bundle'[f] >= Minimum /\ bundle'[f] \in Nat
  BY <1>1, <1>2, OldOrNot, Numbers
<1>4. ~past.mixed => \A f \in Files : bundle'[f] = v BY <1>1
<1>5. Update(NoUpdate) /\ NoUpdate.at = "none" BY DEF Update, NoUpdate
<1>6. BundleTypes'
  <2>1. DOMAIN updates' = Requested /\ updates' = [w \in Requested |-> updates'[w]]
    BY <1>2 DEF BundleTypes
  <2>2. \A w \in Requested : Update(updates'[w]) BY <1>2, <1>5 DEF BundleTypes
  <2>3. QED BY <1>1, <2>1, <2>2 DEF BundleTypes
<1>7. \A f \in Files : ~Old(f)' BY <1>3, Numbers DEF Old
<1>8. \A w \in Clearing' : w \in Clearing /\ w # u BY <1>2, <1>5 DEF Clearing, BundleTypes
<1>9. OldGoes' /\ Ensured' BY <1>3, <1>7, FilesAre DEF OldGoes, Ensured
<1>10. OneVersion' BY <1>4, <1>8 DEF OneVersion
<1>11. QED BY <1>6, <1>9, <1>10 DEF BundleInv

\* An update fails, or is killed.
LEMMA CutShort ==
  ASSUME BundleInv, NEW u \in Requested, bundle' \in Interrupted(bundle, updates[u]),
         DOMAIN updates' = Requested, updates' = [w \in Requested |-> updates'[w]],
         \A w \in Requested : updates'[w] = NoUpdate \/ (w # u /\ updates'[w] = updates[w]),
         Past(past'), past'.mixed = past.mixed,
         past.torn => past'.torn,
         u \in Clearing => past'.torn /\ ~past'.ensured,
         Clearing' = Clearing \/ past'.torn,
         past'.ensured => past.ensured /\ Clearing' = Clearing
  PROVE  BundleInv'
<1>1. BundleTypes /\ bundle \in Bundles /\ Update(updates[u]) BY DEF BundleInv, BundleTypes
<1>2. Update(NoUpdate) /\ NoUpdate.at = "none" BY DEF Update, NoUpdate
<1>3. \A w \in Requested : Update(updates'[w]) BY <1>1, <1>2 DEF BundleTypes
<1>4. \A w \in Clearing' : w \in Clearing /\ w # u /\ updates'[w] = updates[w]
  BY <1>2 DEF Clearing
<1>5. CASE u \notin Clearing
  <2>1. bundle' = bundle BY <1>5 DEF Interrupted, Clearing
  <2>2. BundleTypes' BY <1>1, <1>3, <2>1 DEF BundleTypes
  <2>3. OldGoes' BY <1>4, <2>1 DEF BundleInv, OldGoes, Old
  <2>4. OneVersion'
    <3>1. Past(past) /\ Past(past') BY <1>1 DEF BundleTypes
    <3>2. Clearing' = {} /\ ~past'.torn => Clearing = {} /\ ~past.torn OBVIOUS
    <3>3. \A w \in Clearing' : ~past'.mixed => updates'[w].entries = Entries(bundle') /\ Clearing' = {w}
      BY <1>4, <2>1 DEF BundleInv, OneVersion
    <3>4. QED BY <2>1, <3>2, <3>3 DEF BundleInv, OneVersion
  <2>5. Ensured' BY <2>1 DEF BundleInv, Ensured, Old
  <2>6. QED BY <2>2, <2>3, <2>4, <2>5 DEF BundleInv
<1>6. CASE u \in Clearing
  <2> DEFINE e == updates[u].entries
  <2>1. e \in EntryLists /\ updates[u].target \in Versions /\ updates[u].target >= Minimum
    BY <1>1, <1>6 DEF Update, Clearing
  <2>2. \/ \E s \in SUBSET Head(e) : bundle' = Removed(bundle, s)
        \/ /\ ~(Len(e) > 1)
           /\ \E s \in SUBSET Files : bundle' = Extracted(Removed(bundle, Head(e)), s, updates[u].target)
    BY <1>6 DEF Interrupted, Clearing
  <2>3. past'.torn /\ ~past'.ensured BY <1>6
  <2>4. Ensured' BY <2>3 DEF Ensured
  <2>5. CASE \E s \in SUBSET Head(e) : bundle' = Removed(bundle, s)
    <3>1. bundle' \in Bundles /\ \A f \in Files : bundle'[f] = 0 \/ bundle'[f] = bundle[f]
      BY <1>1, <2>5, RemovedIs
    <3>2. BundleTypes' BY <1>1, <1>3, <3>1 DEF BundleTypes
    <3>3. \A f \in Files : Old(f)' => Old(f) BY <3>1 DEF Old
    <3>4. OldGoes'
      <4>1. ASSUME NEW f \in Files, Old(f)', NEW g \in Files PROVE bundle'[g] = 0 \/ Old(g)'
        BY <3>1, <3>3, <4>1 DEF BundleInv, OldGoes, Old
      <4>2. ASSUME NEW f \in Files, Old(f)', NEW w \in Clearing' PROVE f \in Listed(updates'[w].entries)
        BY <1>4, <3>3, <4>2 DEF BundleInv, OldGoes
      <4>3. QED BY <4>1, <4>2 DEF OldGoes
    <3>5. OneVersion'
      <4>1. ~past.mixed => Clearing' = {} BY <1>4, <1>6 DEF BundleInv, OneVersion
      <4>2. ~past.mixed => \A f, g \in Files : bundle'[f] # 0 /\ bundle'[g] # 0 => bundle'[f] = bundle'[g]
        BY <3>1 DEF BundleInv, OneVersion
      <4>3. QED BY <2>3, <4>1, <4>2 DEF OneVersion
    <3>6. QED BY <2>4, <3>2, <3>4, <3>5 DEF BundleInv
  <2>6. CASE /\ ~(Len(e) > 1)
             /\ \E s \in SUBSET Files : bundle' = Extracted(Removed(bundle, Head(e)), s, updates[u].target)
    <3> DEFINE c == Removed(bundle, Head(e))
               v == updates[u].target
    <3>1. PICK s \in SUBSET Files : bundle' = Extracted(c, s, v) BY <2>6
    <3>2. /\ c \in Bundles
          /\ \A f \in Files : c[f] = bundle[f] \/ c[f] = 0
          /\ \A f \in Files : Old(f) => c[f] = 0
          /\ ~past.mixed => \A f \in Files : c[f] = 0
          /\ ~past.mixed => Clearing \subseteq {u}
      BY <1>6, <2>6, LastEntry
    <3> HIDE DEF c
    <3>3. /\ bundle' \in Bundles
          /\ \A f \in Files : bundle'[f] = IF f \in s /\ c[f] = 0 THEN v ELSE c[f]
      BY <2>1, <3>1, <3>2, ExtractedIs
    <3> HIDE DEF v
    <3>4. v \in Nat /\ v >= Minimum /\ v # 0 BY <2>1, Numbers DEF v
    <3>5. BundleTypes' BY <1>1, <1>3, <3>3 DEF BundleTypes
    <3>6. \A f \in Files : ~Old(f)'
      <4>1. SUFFICES ASSUME NEW f \in Files PROVE ~Old(f)' OBVIOUS
      <4>2. bundle[f] \in Nat /\ (bundle[f] = 0 \/ Old(f) \/ bundle[f] >= Minimum)
        BY <1>1, OldOrNot
      <4>3. bundle'[f] = v \/ bundle'[f] = 0 \/ (bundle'[f] = bundle[f] /\ ~Old(f))
        BY <3>2, <3>3
      <4>4. bundle'[f] = 0 \/ (bundle'[f] \in Nat /\ bundle'[f] >= Minimum)
        BY <3>4, <4>2, <4>3
      <4>5. QED BY <4>4, Numbers DEF Old
    <3>7. OldGoes' BY <3>6 DEF OldGoes
    <3>8. OneVersion'
      <4>1. ~past.mixed => Clearing' = {} BY <1>4, <3>2
      <4>2. ~past.mixed => \A f \in Files : bundle'[f] # 0 => bundle'[f] = v BY <3>2, <3>3
      <4>3. QED BY <2>3, <4>1, <4>2 DEF OneVersion
    <3>9. QED BY <2>4, <3>5, <3>7, <3>8 DEF BundleInv
  <2>7. QED BY <2>2, <2>5, <2>6
<1>7. QED BY <1>5, <1>6

---------------------------------------------------------------------------
(* The updates of the client                                               *)

\* What nobody does to the client keeps it.
LEMMA ClientKept ==
  ASSUME BundleInv, bundle' = bundle, updates' = updates, Past(past'),
         past'.mixed = past.mixed, past'.torn = past.torn, past'.ensured = past.ensured
  PROVE  BundleInv'
BY DEF Clearing, BundleInv, BundleTypes, OldGoes, OneVersion, Ensured, Old

\* What UpdateDone makes of the flags.
LEMMA DoneFlags ==
  ASSUME BundleTypes, NEW u \in Requested, NEW failed \in BOOLEAN, UpdateDone(u, failed)
  PROVE  /\ Past(past') /\ past'.mixed = past.mixed
         /\ updates' = [updates EXCEPT ![u] = NoUpdate]
         /\ past'.ensured = IF failed THEN past.ensured /\ updates[u].at # "clear" ELSE past.ensured \/ u = "task"
         /\ past'.torn = ((past.torn /\ bundle' = bundle) \/ (failed /\ updates[u].at = "clear"))
<1> DEFINE t == (past.torn /\ bundle' = bundle) \/ (failed /\ updates[u].at = "clear")
           n == IF failed THEN past.ensured /\ updates[u].at # "clear" ELSE past.ensured \/ u = "task"
<1>1. past' = [past EXCEPT !.ensured = n, !.torn = t] /\ updates' = [updates EXCEPT ![u] = NoUpdate]
  BY DEF UpdateDone
<1>2. Past(past) BY DEF BundleTypes
<1>3. t \in BOOLEAN /\ n \in BOOLEAN BY <1>2 DEF Past, Flags
<1> HIDE DEF t, n
<1>4. Past(past') /\ past'.mixed = past.mixed /\ past'.ensured = n /\ past'.torn = t
  BY <1>1, <1>2, <1>3 DEF Past, Flags
<1>5. QED BY <1>1, <1>4 DEF t, n

\* An update is asked for: it removes nothing yet.
LEMMA AskedStep ==
  ASSUME BundleInv, NEW u \in Requested, updates[u] = NoUpdate,
         NEW v \in Versions, v >= Minimum,
         updates' = [updates EXCEPT ![u] = Asked(v)], bundle' = bundle, Past(past'),
         past'.mixed = past.mixed, past'.torn = past.torn, past'.ensured = past.ensured
  PROVE  BundleInv'
<1>1. DOMAIN updates = Requested /\ updates = [w \in Requested |-> updates[w]]
  BY DEF BundleInv, BundleTypes
<1>2. Asked(v).at = "download" /\ Update(Asked(v)) /\ NoUpdate.at = "none"
  BY Numbers DEF Asked, Update, NoUpdate
<1>3. \A w \in Requested : updates'[w] = IF w = u THEN Asked(v) ELSE updates[w] BY <1>1
<1>4. Clearing' = Clearing /\ \A w \in Clearing : updates'[w] = updates[w]
  BY <1>2, <1>3 DEF Clearing
<1>5. BundleTypes' BY <1>1, <1>2, <1>3 DEF BundleInv, BundleTypes
<1>6. OldGoes' /\ OneVersion' /\ Ensured'
  BY <1>4 DEF BundleInv, OldGoes, OneVersion, Ensured, Old
<1>7. QED BY <1>5, <1>6 DEF BundleInv

\* What the task does not replace is new enough.
LEMMA NotUpdated ==
  ASSUME BundleInv, ~ShouldUpdate(bundle, FALSE, 0, FALSE)
  PROVE  \A f \in {"package.json", "index.html"} : bundle[f] # 0 /\ ~Old(f)
<1>1. bundle["package.json"] # 0 /\ bundle["index.html"] # 0 /\ bundle["package.json"] >= Minimum
  BY DEF ShouldUpdate, ClientAutoUpdate, Wanted, CheckVersionSatisfiesMinimum
<1>2. bundle["package.json"] \in Nat BY OldOrNot, FilesAre DEF BundleInv
<1>3. ~Old("package.json") BY <1>1, <1>2, Numbers DEF Old
<1>4. ~Old("index.html") BY <1>1, <1>3, FilesAre DEF BundleInv, OldGoes
<1>5. QED BY <1>1, <1>3, <1>4

LEMMA TaskStep ==
  ASSUME BundleInv, RunTask
  PROVE  BundleInv'
<1>1. "task" \in Requested /\ updates["task"] = NoUpdate /\ BundleTypes
  BY DEF RunTask, Requested, BundleInv
<1>2. CASE ShouldUpdate(bundle, FALSE, 0, FALSE)
  <2>1. /\ updates' = [updates EXCEPT !["task"] = Asked(Minimum)]
        /\ past' = past /\ bundle' = bundle
    BY <1>2 DEF RunTask
  <2>2. Past(past') BY <1>1, <2>1 DEF BundleTypes
  <2>3. Minimum >= Minimum BY Numbers
  <2>4. QED BY <1>1, <2>1, <2>2, <2>3, Numbers, AskedStep
<1>3. CASE ~ShouldUpdate(bundle, FALSE, 0, FALSE)
  <2>1. UpdateDone("task", FALSE) /\ bundle' = bundle BY <1>3 DEF RunTask
  <2>2. /\ Past(past') /\ past'.mixed = past.mixed
        /\ updates' = [updates EXCEPT !["task"] = NoUpdate]
        /\ past'.torn = past.torn
    BY <1>1, <2>1, DoneFlags DEF BundleTypes, Past, Flags
  <2>3. DOMAIN updates = Requested /\ updates = [w \in Requested |-> updates[w]]
    BY <1>1 DEF BundleTypes
  <2>4. updates' = updates BY <1>1, <2>2, <2>3
  <2>5. Clearing' = Clearing BY <2>4 DEF Clearing
  <2>6. Ensured' BY <1>3, <2>1, NotUpdated DEF Ensured, Old
  <2>7. OldGoes' /\ OneVersion' /\ BundleTypes'
    BY <1>1, <2>1, <2>2, <2>4, <2>5 DEF BundleInv, BundleTypes, OldGoes, OneVersion, Old
  <2>8. QED BY <2>6, <2>7 DEF BundleInv
<1>4. QED BY <1>2, <1>3

LEMMA RequestStep ==
  ASSUME BundleInv, UpdateClientBundleGithub
  PROVE  BundleInv'
<1>1. "request" \in Requested /\ updates["request"] = NoUpdate /\ bundle' = bundle
  BY DEF UpdateClientBundleGithub, Requested
<1>2. PICK v \in Versions \cup {0} : updates' = [updates EXCEPT !["request"] = Asked(TargetVersion(v))]
  BY DEF UpdateClientBundleGithub
<1>3. TargetVersion(v) \in Versions /\ TargetVersion(v) >= Minimum
  <2>1. v \in Nat
    <3>1. CASE v \in Versions BY <3>1, Numbers
    <3>2. CASE v = 0 BY <3>2
    <3>3. QED BY <3>1, <3>2
  <2>2. QED BY <2>1, Numbers DEF TargetVersion, GetMaximumOfVersionsSafe
<1>4. past' = [past EXCEPT !.asked = TRUE] /\ Past(past)
  BY DEF UpdateClientBundleGithub, BundleInv, BundleTypes
<1>5. /\ Past(past') /\ past'.mixed = past.mixed /\ past'.torn = past.torn
      /\ past'.ensured = past.ensured
  BY <1>4 DEF Past, Flags
<1>6. QED BY <1>1, <1>2, <1>3, <1>5, AskedStep

\* The client has been downloaded.
LEMMA DownloadedStep ==
  ASSUME BundleInv, NEW u \in Requested, Downloaded(u)
  PROVE  BundleInv'
<1>1. BundleTypes /\ bundle \in Bundles /\ Past(past) /\ Update(updates[u]) /\ updates[u].at = "download"
  BY DEF BundleInv, BundleTypes, Downloaded
<1>2. updates[u].target \in Versions /\ updates[u].target >= Minimum BY <1>1 DEF Update
<1>3. CASE Entries(bundle) = <<>>
  <2>1. bundle' = Unpacked(bundle, updates[u].target) /\ UpdateDone(u, FALSE)
    BY <1>3 DEF Downloaded
  <2>2. \A f \in Files : bundle[f] = 0 BY <1>3, EntriesAre
  <2>3. Past(past') /\ past'.mixed = past.mixed /\ updates' = [updates EXCEPT ![u] = NoUpdate]
    BY <1>1, <2>1, DoneFlags
  <2>4. ~past.mixed => Clearing \subseteq {u}
    <3>1. ASSUME ~past.mixed, NEW w \in Clearing PROVE FALSE
      BY <1>1, <3>1, <1>3, ListsAre DEF BundleInv, OneVersion, BundleTypes, Update, Clearing
    <3>2. QED BY <3>1
  <2>5. QED BY <1>1, <1>2, <2>1, <2>2, <2>3, <2>4, UnpackedStep DEF Old
<1>4. CASE Entries(bundle) # <<>>
  <2> DEFINE n == [updates[u] EXCEPT !.at = "clear", !.entries = Entries(bundle)]
             m == \E w \in Requested : updates[w].at = "clear"
  <2>1. bundle' = bundle /\ past' = [past EXCEPT !.mixed = @ \/ m] BY <1>4 DEF Downloaded
  <2>2. updates' = [updates EXCEPT ![u] = n] BY <1>4, <1>1 DEF Downloaded, BundleTypes
  <2>3. Entries(bundle) \in EntryLists BY <1>4, EntriesAre
  <2>4. n.at = "clear" /\ n.entries = Entries(bundle) /\ Update(n) BY <1>1, <2>3 DEF Update
  <2> HIDE DEF n
  <2>5. \A w \in Requested : updates'[w] = IF w = u THEN n ELSE updates[w]
    BY <1>1, <2>2 DEF BundleTypes
  <2>6. Clearing' = Clearing \cup {u} BY <1>1, <2>4, <2>5 DEF Clearing
  <2>7. m \in BOOLEAN /\ (m <=> Clearing # {}) BY DEF Clearing
  <2> HIDE DEF m
  <2>8. Past(past') /\ past'.mixed = (past.mixed \/ m) /\ past'.torn = past.torn /\ past'.ensured = past.ensured
    BY <1>1, <2>1, <2>7 DEF Past, Flags
  <2>9. BundleTypes' BY <1>1, <2>1, <2>2, <2>4, <2>5, <2>8 DEF BundleTypes
  <2>10. OldGoes'
    <3>1. ASSUME NEW f \in Files, Old(f), NEW w \in Clearing' PROVE f \in Listed(updates'[w].entries)
      <4>1. CASE w = u BY <1>4, <3>1, ListsAll, <2>4, <2>5, <4>1 DEF Old
      <4>2. CASE w # u BY <2>5, <2>6, <3>1, <4>2 DEF BundleInv, OldGoes, Clearing
      <4>3. QED BY <4>1, <4>2
    <3>2. QED BY <2>1, <3>1 DEF BundleInv, OldGoes, Old
  <2>11. OneVersion'
    <3>1. ASSUME ~past'.mixed PROVE ~past.mixed /\ Clearing' = {u}
      BY <1>1, <2>6, <2>7, <2>8, <3>1 DEF Past, Flags
    <3>2. QED BY <2>1, <2>4, <2>5, <3>1 DEF BundleInv, OneVersion
  <2>12. Ensured' BY <2>6 DEF Ensured
  <2>13. QED BY <2>9, <2>10, <2>11, <2>12 DEF BundleInv
<1>5. QED BY <1>3, <1>4

\* An entry is removed.
LEMMA RemovedStep ==
  ASSUME BundleInv, NEW u \in Requested, EntryRemoved(u)
  PROVE  BundleInv'
<1> DEFINE e == updates[u].entries
           c == Removed(bundle, Head(e))
<1>1. BundleTypes /\ bundle \in Bundles /\ Update(updates[u]) /\ updates[u].at = "clear" /\ u \in Clearing
  BY DEF BundleInv, BundleTypes, EntryRemoved, Clearing
<1>2. updates[u].target \in Versions /\ updates[u].target >= Minimum /\ e \in EntryLists
  BY <1>1 DEF Update
<1>3. CASE ~(Len(e) > 1)
  <2>1. bundle' = Unpacked(c, updates[u].target) /\ UpdateDone(u, FALSE)
    BY <1>3 DEF EntryRemoved
  <2>2. Past(past') /\ past'.mixed = past.mixed /\ updates' = [updates EXCEPT ![u] = NoUpdate]
    BY <1>1, <2>1, DoneFlags
  <2>3. /\ c \in Bundles
        /\ \A f \in Files : c[f] = bundle[f] \/ c[f] = 0
        /\ \A f \in Files : Old(f) => c[f] = 0
        /\ ~past.mixed => \A f \in Files : c[f] = 0
        /\ ~past.mixed => Clearing \subseteq {u}
    BY <1>1, <1>3, LastEntry
  <2> HIDE DEF c
  <2>4. QED BY <1>2, <2>1, <2>2, <2>3, UnpackedStep
<1>4. CASE Len(e) > 1
  <2>1. bundle' = c /\ past' = past /\ updates' = [updates EXCEPT ![u].entries = Tail(@)]
    BY <1>4 DEF EntryRemoved
  <2>2. e = <<Dist, Package>> /\ Head(e) = Dist /\ Tail(e) = <<Package>> /\ Listed(<<Package>>) = Package
    BY <1>2, <1>4, ListsAre DEF Listed
  <2>3. bundle' \in Bundles /\ \A f \in Files : bundle'[f] = IF f \in Dist THEN 0 ELSE bundle[f]
    BY <1>1, <2>1, <2>2, RemovedIs
  <2> DEFINE n == [updates[u] EXCEPT !.entries = <<Package>>]
  <2>4. updates' = [updates EXCEPT ![u] = n] BY <1>1, <2>1, <2>2 DEF BundleTypes
  <2>5. n.at = "clear" /\ n.entries = <<Package>> /\ Update(n)
    BY <1>1 DEF Update, EntryLists
  <2> HIDE DEF n
  <2>6. \A w \in Requested : updates'[w] = IF w = u THEN n ELSE updates[w]
    BY <1>1, <2>4 DEF BundleTypes
  <2>7. Clearing' = Clearing BY <1>1, <2>5, <2>6 DEF Clearing
  <2>8. BundleTypes' BY <1>1, <2>1, <2>3, <2>4, <2>5, <2>6 DEF BundleTypes
  <2>9. OldGoes'
    <3>1. \A f \in Files : Old(f)' => Old(f) /\ f \in Package BY <2>3, FilesAre DEF Old
    <3>2. ASSUME NEW f \in Files, Old(f)', NEW w \in Clearing' PROVE f \in Listed(updates'[w].entries)
      <4>1. w \in Requested /\ w \in Clearing BY <2>7, <3>2 DEF Clearing
      <4>2. CASE w = u BY <2>2, <2>5, <2>6, <3>1, <3>2, <4>1, <4>2
      <4>3. CASE w # u BY <2>6, <3>1, <3>2, <4>1, <4>3 DEF BundleInv, OldGoes
      <4>4. QED BY <4>2, <4>3
    <3>3. ASSUME NEW f \in Files, Old(f)', NEW g \in Files PROVE bundle'[g] = 0 \/ Old(g)'
      BY <2>3, <3>1, <3>3 DEF BundleInv, OldGoes, Old
    <3>4. QED BY <3>2, <3>3 DEF OldGoes
  <2>10. OneVersion'
    <3>1. ASSUME ~past.mixed PROVE Entries(bundle') = <<Package>> /\ Clearing = {u}
      <4>1. Entries(bundle) = <<Dist, Package>> /\ Clearing = {u}
        BY <1>1, <2>2, <3>1 DEF BundleInv, OneVersion
      <4>2. bundle["package.json"] # 0 BY <4>1, EntriesAre
      <4>3. bundle'["package.json"] # 0 /\ bundle'["index.html"] = 0 /\ bundle'["rest"] = 0
        BY <2>3, <4>2, FilesAre DEF Dist
      <4>4. QED BY <4>1, <4>3, EntriesAre
    <3>2. \A f \in Files : bundle'[f] # 0 => bundle'[f] = bundle[f] BY <2>3
    <3>3. QED BY <2>1, <2>5, <2>6, <2>7, <3>1, <3>2 DEF BundleInv, OneVersion
  <2>11. Ensured' BY <1>1, <2>7 DEF Ensured
  <2>12. QED BY <2>8, <2>9, <2>10, <2>11 DEF BundleInv
<1>5. QED BY <1>3, <1>4

\* An update fails.
LEMMA FailedUpdateStep ==
  ASSUME BundleInv, NEW u \in Requested, UpdateFailed(u)
  PROVE  BundleInv'
<1>1. UpdateDone(u, TRUE) /\ bundle' \in Interrupted(bundle, updates[u])
  BY Zenon DEF UpdateFailed
<1>2. BundleTypes /\ Past(past) BY DEF BundleInv, BundleTypes
<1>3. /\ Past(past') /\ past'.mixed = past.mixed
      /\ updates' = [updates EXCEPT ![u] = NoUpdate]
      /\ past'.ensured = (past.ensured /\ updates[u].at # "clear")
      /\ past'.torn = ((past.torn /\ bundle' = bundle) \/ updates[u].at = "clear")
  BY <1>1, <1>2, DoneFlags
<1>4. \A w \in Requested : updates'[w] = IF w = u THEN NoUpdate ELSE updates[w]
  BY <1>2, <1>3 DEF BundleTypes
<1>5. DOMAIN updates' = Requested /\ updates' = [w \in Requested |-> updates'[w]]
  BY <1>2, <1>3 DEF BundleTypes
<1>6. u \in Clearing <=> updates[u].at = "clear" BY DEF Clearing
<1>7. CASE u \in Clearing BY <1>1, <1>3, <1>4, <1>5, <1>6, <1>7, CutShort
<1>8. CASE u \notin Clearing
  <2>1. bundle' = bundle BY <1>1, <1>6, <1>8 DEF Interrupted
  <2>2. Clearing' = Clearing BY <1>4, <1>8 DEF Clearing, NoUpdate
  <2>3. past.torn => past'.torn BY <1>3, <2>1
  <2>4. past'.ensured => past.ensured BY <1>3
  <2>5. QED BY <1>1, <1>3, <1>4, <1>5, <1>8, <2>2, <2>3, <2>4, CutShort
<1>9. QED BY <1>7, <1>8

\* The process is killed.
LEMMA KilledClient ==
  ASSUME BundleInv, Killed
  PROVE  BundleInv'
<1> DEFINE t == \E u \in Requested : updates[u].at = "clear"
           k == past.cut \/ DOMAIN mig # {}
<1>1. PICK u \in Requested : bundle' \in Interrupted(bundle, updates[u]) BY DEF Killed
<1>2. Past(past) BY DEF BundleInv, BundleTypes
<1>3. past' = [past EXCEPT !.torn = past.torn \/ t, !.cut = k, !.ensured = FALSE]
  BY DEF Killed
<1>4. t \in BOOLEAN /\ k \in BOOLEAN /\ (t <=> Clearing # {})
  BY <1>2 DEF Past, Flags, Clearing
<1> HIDE DEF t, k
<1>5. Past(past') /\ past'.mixed = past.mixed /\ past'.torn = (past.torn \/ t) /\ past'.ensured = FALSE
  BY <1>2, <1>3, <1>4 DEF Past, Flags
<1>6. \A w \in Requested : updates'[w] = NoUpdate BY DEF Killed, NoUpdates
<1>7. DOMAIN updates' = Requested /\ updates' = [w \in Requested |-> updates'[w]]
  BY DEF Killed, NoUpdates
<1>8. Clearing' = {} BY <1>6 DEF Clearing, NoUpdate
<1>9. QED BY <1>1, <1>4, <1>5, <1>6, <1>7, <1>8, CutShort

\* What the other steps note down is not about the client.
LEMMA NotesKept ==
  ASSUME Past(past), NEW a \in BOOLEAN, NEW b \in BOOLEAN,
         \/ past' = past
         \/ past' = [past EXCEPT !.dropped = a, !.cut = b]
         \/ past' = [past EXCEPT !.excused = a]
         \/ past' = [past EXCEPT !.overlapped = a]
         \/ past' = [past EXCEPT !.administered = a]
         \/ past' = [past EXCEPT !.administered = a, !.edited = b]
         \/ \E m, v : past' = [past EXCEPT !.saved[m] = v, !.edited = a, !.excused = b]
  PROVE  /\ Past(past') /\ past'.mixed = past.mixed /\ past'.torn = past.torn
         /\ past'.ensured = past.ensured
<1>1. ASSUME NEW m, NEW v, past' = [past EXCEPT !.saved[m] = v, !.edited = a, !.excused = b]
      PROVE  /\ Past(past') /\ past'.mixed = past.mixed /\ past'.torn = past.torn
             /\ past'.ensured = past.ensured
  <2> DEFINE s == [past.saved EXCEPT ![m] = v]
  <2>1. past' = [past EXCEPT !.saved = s, !.edited = a, !.excused = b] BY <1>1 DEF Past
  <2> HIDE DEF s
  <2>2. ASSUME NEW n, past' = [past EXCEPT !.saved = n, !.edited = a, !.excused = b]
        PROVE  /\ Past(past') /\ past'.mixed = past.mixed /\ past'.torn = past.torn
               /\ past'.ensured = past.ensured
    <3>1. DOMAIN past' = DOMAIN past /\ past' = [f \in DOMAIN past' |-> past'[f]]
      BY <2>2 DEF Past
    <3>2. /\ past'.excused = b /\ past'.edited = a
          /\ \A f \in DOMAIN past \ {"saved", "edited", "excused"} : past'[f] = past[f]
      BY <2>2 DEF Past, Flags
    <3>3. QED BY <3>1, <3>2 DEF Past, Flags
  <2>3. QED BY <2>1, <2>2
<1>2. QED BY <1>1 DEF Past, Flags

\* The steps of the start that are not about the client.
LEMMA OthersSpareClient ==
  ASSUME BundleInv,
         \/ Begun \/ MigrateMongo \/ BootJobRuns
         \/ \E c \in Callers :
              \/ Connected(c) \/ Command(c) \/ Recorded(c) \/ ConnectionFailed(c) \/ MigrationDropped(c)
              \/ SyncPermissions(c) \/ FindPermission(c) \/ StorePermission(c)
              \/ CreateOrUpdateDemoAccount(c) \/ GetDemoUserId(c) \/ ChangeDemoAccount(c)
              \/ OtherStep(c) \/ Failed(c)
         \/ \E loginRequired \in BOOLEAN : AskRole(AppDefaultRole(loginRequired))
         \/ \E s \in Syncers : FindRole(s) \/ StoreRole(s)
         \/ \E user \in {"owner", "demo"} : Administer(user)
         \/ \E t \in BOOT_TASKS : OtherTask(t)
         \/ \E m \in DOMAIN Models : Edit(m)
  PROVE  BundleInv' /\ updates' = updates
<1>1. Past(past) BY DEF BundleInv, BundleTypes
<1>2. past.cut \in BOOLEAN /\ past.excused \in BOOLEAN /\ past.overlapped \in BOOLEAN
  BY <1>1 DEF Past, Flags
<1>3. SUFFICES /\ bundle' = bundle /\ updates' = updates
               /\ Past(past') /\ past'.mixed = past.mixed /\ past'.torn = past.torn
               /\ past'.ensured = past.ensured
  BY ClientKept
<1>4. ASSUME past' = past, bundle' = bundle, updates' = updates
      PROVE  /\ bundle' = bundle /\ updates' = updates
             /\ Past(past') /\ past'.mixed = past.mixed /\ past'.torn = past.torn
             /\ past'.ensured = past.ensured
  BY <1>1, <1>4
<1>5. ASSUME NEW s, NEW role, NEW stored, SyncRoles(s, role, stored), bundle' = bundle, updates' = updates
      PROVE  /\ bundle' = bundle /\ updates' = updates
             /\ Past(past') /\ past'.mixed = past.mixed /\ past'.torn = past.torn
             /\ past'.ensured = past.ensured
  <2> DEFINE o == past.overlapped \/ \E r \in Syncers : SyncsRoles(r)
  <2>1. past' = [past EXCEPT !.overlapped = o] /\ o \in BOOLEAN BY <1>2, <1>5 DEF SyncRoles
  <2> HIDE DEF o
  <2>2. QED BY <1>1, <1>5, <2>1, NotesKept
<1>6. CASE Begun \/ BootJobRuns \/ \E t \in BOOT_TASKS : OtherTask(t)
  BY <1>4, <1>6 DEF Begun, BootJobRuns, OtherTask, startVars
<1>7. CASE MigrateMongo
  <2>1. PICK up \in BOOLEAN : past' = [past EXCEPT !.excused = @ \/ (past.cut /\ ~up)]
    BY <1>7 DEF MigrateMongo
  <2>2. bundle' = bundle /\ updates' = updates BY <1>7 DEF MigrateMongo
  <2>3. (past.excused \/ (past.cut /\ ~up)) \in BOOLEAN BY <1>2
  <2>4. QED BY <1>1, <2>1, <2>2, <2>3, NotesKept
<1>8. ASSUME NEW c \in Callers,
             \/ Connected(c) \/ Command(c) \/ Recorded(c) \/ ConnectionFailed(c)
             \/ SyncPermissions(c) \/ FindPermission(c) \/ GetDemoUserId(c) \/ ChangeDemoAccount(c)
             \/ OtherStep(c) \/ Failed(c)
      PROVE  past' = past /\ bundle' = bundle /\ updates' = updates
  <2>1. CASE Connected(c) \/ Command(c) \/ Recorded(c) \/ ConnectionFailed(c)
    BY <2>1 DEF Connected, Command, Recorded, ConnectionFailed, startVars
  <2>2. CASE SyncPermissions(c) \/ FindPermission(c)
    BY <2>2 DEF SyncPermissions, FindPermission, FindOne
  <2>3. CASE GetDemoUserId(c) \/ OtherStep(c) \/ Failed(c)
    BY <2>3 DEF GetDemoUserId, OtherStep, Failed, startVars
  <2>4. CASE ChangeDemoAccount(c) BY <2>4, Zenon DEF ChangeDemoAccount
  <2>5. QED BY <1>8, <2>1, <2>2, <2>3, <2>4
<1>9. CASE \E c \in Callers : MigrationDropped(c)
  <2>1. PICK c \in Callers : MigrationDropped(c) BY <1>9
  <2>2. past' = [past EXCEPT !.dropped = TRUE, !.cut = @ \/ c \in DOMAIN mig]
        /\ bundle' = bundle /\ updates' = updates
    BY <2>1 DEF MigrationDropped
  <2>3. (past.cut \/ c \in DOMAIN mig) \in BOOLEAN BY <1>2
  <2>4. QED BY <1>1, <2>2, <2>3, NotesKept
<1>10. CASE \E c \in Callers : StorePermission(c)
  <2>1. PICK c \in Callers : StorePermission(c) BY <1>10
  <2>2. bundle' = bundle /\ updates' = updates /\ (past' = past \/ SyncRoles(c, None, Pushed(c)))
    BY <2>1, Zenon DEF StorePermission
  <2>3. QED BY <1>4, <1>5, <2>2
<1>11. CASE \E c \in Callers : CreateOrUpdateDemoAccount(c)
  BY <1>11, <1>1, NotesKept DEF CreateOrUpdateDemoAccount
<1>12. CASE \E loginRequired \in BOOLEAN : AskRole(AppDefaultRole(loginRequired))
  <2>1. PICK role : AskRole(role) BY <1>12
  <2>2. bundle' = bundle /\ updates' = updates /\ (past' = past \/ SyncRoles("request", role, roles))
    BY <2>1, Zenon DEF AskRole
  <2>3. QED BY <1>4, <1>5, <2>2
<1>13. CASE \E s \in Syncers : FindRole(s) \/ StoreRole(s)
  <2>1. past' = past /\ bundle' = bundle /\ updates' = updates
    BY <1>13, Zenon DEF FindRole, FindOne, StoreRole
  <2>2. QED BY <1>4, <2>1
<1>14. CASE \E user \in {"owner", "demo"} : Administer(user)
  <2>1. bundle' = bundle /\ updates' = updates
        /\ past' = [past EXCEPT !.administered = TRUE, !.edited = TRUE]
    BY <1>14, Zenon DEF Administer
  <2>2. QED BY <1>1, <2>1, NotesKept
<1>15. CASE \E m \in DOMAIN Models : Edit(m)
  <2>1. PICK m \in DOMAIN Models : Edit(m) BY <1>15
  <2> DEFINE v == IF m = "enabled" THEN FALSE ELSE "new"
             x == past.excused \/ mongo.applied < Len(MigrationNames)
  <2>2. bundle' = bundle /\ updates' = updates
        /\ past' = [past EXCEPT !.saved[m] = v, !.edited = TRUE, !.excused = x]
    BY <2>1 DEF Edit
  <2>3. x \in BOOLEAN BY <1>2
  <2> HIDE DEF v, x
  <2>4. QED BY <1>1, <2>2, <2>3, NotesKept
<1>16. QED BY <1>4, <1>6, <1>7, <1>8, <1>9, <1>10, <1>11, <1>12, <1>13, <1>14, <1>15

\* A process that has exited updates nothing when it starts again.
LEMMA StartedAgainStep ==
  ASSUME StartInv, BundleInv, StartedAgain
  PROVE  StartInv' /\ BundleInv'
<1>1. \A u \in Requested : updates'[u].at = "none" /\ updates'[u] = NoUpdate
  BY DEF StartedAgain, NoUpdates, NoUpdate
<1>2. StartInv' BY <1>1, BootStep DEF StartedAgain, Next
<1>3. Clearing = {} /\ Clearing' = {}
  BY <1>1 DEF StartInv, StartedAgain, Restarted, Clearing
<1>4. past' = [past EXCEPT !.dropped = FALSE, !.ensured = FALSE] /\ Past(past) /\ bundle' = bundle
  BY DEF StartedAgain, BundleInv, BundleTypes
<1>5. Past(past') /\ past'.mixed = past.mixed /\ past'.torn = past.torn /\ past'.ensured = FALSE
  BY <1>4 DEF Past, Flags
<1>6. Update(NoUpdate) BY DEF Update, NoUpdate
<1>7. DOMAIN updates' = Requested /\ updates' = [u \in Requested |-> updates'[u]]
  BY DEF StartedAgain, NoUpdates
<1>8. BundleTypes' BY <1>1, <1>4, <1>5, <1>6, <1>7 DEF BundleInv, BundleTypes
<1>9. OldGoes' /\ OneVersion' /\ Ensured'
  BY <1>3, <1>4, <1>5 DEF BundleInv, OldGoes, OneVersion, Ensured, Old
<1>10. QED BY <1>2, <1>8, <1>9 DEF BundleInv

\* At first nothing is under way, and the client is of one version.
LEMMA StartInitial ==
  ASSUME StartInit
  PROVE  StartInv /\ BundleInv
<1>1. IInv BY InitEstablishes DEF StartInit
<1>2. updates = NoUpdates /\ \A u \in Requested : updates[u].at = "none"
  BY DEF StartInit, NoUpdates, NoUpdate
<1>3. StartInv BY <1>1, <1>2, DeadIsSafe DEF StartInv, Requested
<1>4. PICK v \in Versions \cup {0} : bundle = [f \in Files |-> v] BY Numbers DEF StartInit
<1>5. bundle \in Bundles BY <1>4 DEF Bundles
<1>6. PICK scope : past = [scope |-> scope, saved |-> [m \in DOMAIN Models |-> IF m = "enabled" THEN TRUE ELSE "old"],
             excused |-> FALSE, cut |-> FALSE, dropped |-> FALSE, overlapped |-> FALSE,
             administered |-> FALSE, mixed |-> FALSE, torn |-> FALSE, ensured |-> FALSE,
             edited |-> FALSE, asked |-> FALSE]
  BY DEF StartInit
<1>7. Past(past) /\ past.ensured = FALSE
  <2> DEFINE s == [m \in DOMAIN Models |-> IF m = "enabled" THEN TRUE ELSE "old"]
  <2> HIDE DEF s
  <2>1. past = [scope |-> scope, saved |-> s,
             excused |-> FALSE, cut |-> FALSE, dropped |-> FALSE, overlapped |-> FALSE,
             administered |-> FALSE, mixed |-> FALSE, torn |-> FALSE, ensured |-> FALSE,
             edited |-> FALSE, asked |-> FALSE]
    BY <1>6 DEF s
  <2>2. QED BY <2>1 DEF Past, Flags
<1>8. Update(NoUpdate) BY DEF Update, NoUpdate
<1>9. BundleTypes BY <1>2, <1>5, <1>7, <1>8 DEF BundleTypes, NoUpdates
<1>10. Clearing = {} BY <1>2 DEF Clearing
<1>11. OldGoes /\ OneVersion /\ Ensured
  BY <1>4, <1>7, <1>10 DEF OldGoes, OneVersion, Ensured, Old
<1>12. QED BY <1>3, <1>9, <1>11 DEF BundleInv

LEMMA StartNext ==
  ASSUME StartInv, BundleInv, [ThisNext]_allVars
  PROVE  StartInv' /\ BundleInv'
<1>1. DOMAIN updates = Requested /\ updates = [u \in Requested |-> updates[u]]
  BY DEF BundleInv, BundleTypes
<1>2. CASE UNCHANGED allVars
  <2>1. UNCHANGED vars /\ updates' = updates /\ bundle' = bundle /\ past' = past
    BY <1>2 DEF allVars, startVars
  <2>2. Past(past') BY <2>1 DEF BundleInv, BundleTypes
  <2>3. QED BY <2>1, <2>2, BootStep, ClientKept
<1>3. CASE \/ Begun \/ MigrateMongo \/ BootJobRuns
           \/ \E c \in Callers :
                \/ Connected(c) \/ Command(c) \/ Recorded(c) \/ ConnectionFailed(c) \/ MigrationDropped(c)
                \/ SyncPermissions(c) \/ FindPermission(c) \/ StorePermission(c)
                \/ CreateOrUpdateDemoAccount(c) \/ GetDemoUserId(c) \/ ChangeDemoAccount(c)
                \/ OtherStep(c) \/ Failed(c)
           \/ \E loginRequired \in BOOLEAN : AskRole(AppDefaultRole(loginRequired))
           \/ \E s \in Syncers : FindRole(s) \/ StoreRole(s)
           \/ \E user \in {"owner", "demo"} : Administer(user)
           \/ \E t \in BOOT_TASKS : OtherTask(t)
           \/ \E m \in DOMAIN Models : Edit(m)
  BY <1>3, OthersSpareClient, StartSteps
<1>4. CASE \/ RunTask \/ UpdateClientBundleGithub
           \/ \E u \in Requested : Downloaded(u) \/ EntryRemoved(u) \/ UpdateFailed(u)
  <2>1. StartInv' BY <1>1, <1>4, UpdateSteps
  <2>2. BundleInv'
    BY <1>4, TaskStep, RequestStep, DownloadedStep, RemovedStep, FailedUpdateStep
  <2>3. QED BY <2>1, <2>2
<1>5. CASE StartedAgain BY <1>5, StartedAgainStep
<1>6. CASE Killed BY <1>6, KilledStep, KilledClient
<1>7. QED BY <1>2, <1>3, <1>4, <1>5, <1>6, Zenon DEF ThisNext

---------------------------------------------------------------------------
(* The theorems of the start                                               *)

\* The invariant of the detailed start.
THEOREM StartInvariant == StartSpec => [](StartInv /\ BundleInv)
<1>1. StartInit => StartInv /\ BundleInv BY StartInitial
<1>2. StartInv /\ BundleInv /\ [ThisNext]_allVars => (StartInv /\ BundleInv)' BY StartNext
<1>3. QED BY <1>1, <1>2, PTL DEF StartSpec

\* Whatever is killed or fails, and whatever is migrated, synchronised and updated meanwhile,
\* the host and the job never run the boot side by side.
THEOREM StartRunsOnce == StartSpec => []OneBootRun
<1>1. StartInv => OneBootRun BY OneRun DEF Dead, NoRun, OneBootRun, Callers, StartInv
<1>2. QED BY <1>1, StartInvariant, PTL

\* And the boot and its job keep their order.
THEOREM StartIsInOrder == StartSpec => []BootInOrder
<1>1. StartInv => BootInOrder BY DEF StartInv, BootInOrder
<1>2. QED BY <1>1, StartInvariant, PTL

\* After its task the server serves a client that is new enough and of one version.
THEOREM ClientIsServed == StartSpec => []ClientServed
<1>1. ASSUME BundleInv PROVE ClientServed
  <2>1. SUFFICES ASSUME past.ensured, Clearing = {} PROVE
          /\ bundle["package.json"] >= Minimum /\ bundle["index.html"] >= Minimum
          /\ past.mixed \/ bundle["index.html"] = bundle["package.json"]
          /\ past.mixed \/ past.torn \/ bundle["rest"] = bundle["package.json"]
    BY DEF ClientServed, Clearing
  <2>2. \A f \in {"package.json", "index.html"} : bundle[f] # 0 /\ bundle[f] >= Minimum
    BY <1>1, <2>1, OldOrNot, FilesAre DEF BundleInv, Ensured
  <2>3. QED BY <1>1, <2>1, <2>2, FilesAre DEF BundleInv, OneVersion
<1>2. BundleInv => ClientServed BY <1>1
<1>3. QED BY <1>2, StartInvariant, PTL

(***************************************************************************)
(* Permissions and roles                                                   *)
(***************************************************************************)
Types == {"permission", "role"}
Row == [id : Nat, name : AllNames]

\* A role in use is stored.
IsRole(r, id, name) == \E q \in r.rows["role"] : q.id = id /\ q.name = name

RolesTypes(r) ==
  /\ r \in [rows : [Types -> SUBSET Row], cache : [Types -> Seq(Row)], user : {None} \cup [name : AppRoles, id : Nat]]
  /\ \A t \in Types :
       /\ IsFiniteSet(r.rows[t])
       /\ \A p, q \in r.rows[t] : p.id = q.id => p = q
       /\ \A i \in DOMAIN r.cache[t] : r.cache[t][i] \in r.rows[t]
  /\ r.user # None => IsRole(r, r.user.id, r.user.name)

\* A caller synchronises in step 3, a request only roles; what was found is stored.
SyncOf(s, e, rows) ==
  /\ e.left # <<>>
  /\ s = "request" => e.of = "role" /\ e.for \in AppRoles
  /\ \/ e.found \in {None, {}}
     \/ \E r \in rows[e.of] : e.found = {r} /\ r.name = Head(e.left)

SyncTypes ==
  /\ sync \in [Syncers -> {None} \cup Syncing]
  /\ \A c \in Callers : sync[c] # None => run[c] = 3
  /\ \A s \in Syncers : sync[s] # None => ~env.isTypeormMode /\ SyncOf(s, sync[s], roles.rows)

\* What a caller has still to cache, or has. A request that begins finds an empty cache.
Known(r, t, n) == \E i \in DOMAIN r.cache[t] : r.cache[t][i].name = n
Awaited(t, n) ==
  Known(roles, t, n) \/ \E c \in Callers : sync[c] # None /\ sync[c].of = t /\ n \in ToSet(sync[c].left)

Synced == booted \/ \E c \in Callers : run[c] > 3
Covered ==
  ~env.isTypeormMode =>
    /\ Synced \/ (\E c \in Callers : sync[c] # None) => \A n \in ToSet(PERM_GROUP) : Awaited("permission", n)
    /\ Synced \/ (\E c \in Callers : SyncsRoles(c)) => \A n \in ToSet(ROLES) : Awaited("role", n)

\* Without overlaps a role is stored once.
Once(r) == \A p, q \in r.rows["role"] : p.name = q.name => p = q
StoredOnce ==
  ~past.overlapped =>
    /\ Once(roles)
    /\ \A s, t \in Syncers : SyncsRoles(s) /\ SyncsRoles(t) => s = t
    /\ \A s \in Syncers : SyncsRoles(s) /\ sync[s].found # None /\ sync[s].found = {} =>
         \A r \in roles.rows["role"] : r.name # Head(sync[s].left)

RolesInv == RolesTypes(roles) /\ SyncTypes /\ Covered /\ StoredOnce

(***************************************************************************)
(* The demo account                                                        *)
(***************************************************************************)
Registers(commands) == "register" \in ToSet(commands) \/ "ormRegister" \in ToSet(commands)

\* What has been done when these commands are left.
Done(accounts, password, commands, id) ==
  \/ Registers(commands)
  \/ /\ accounts # {}
     /\ \A a \in accounts :
          /\ "setVerified" \in ToSet(commands) \/ a.isVerified
          /\ "setIsRootUser" \in ToSet(commands) \/ ~a.isRootUser
          /\ "updatePassword" \in ToSet(commands) \/ a.password = password
          /\ "setUserRoles" \in ToSet(commands) \/ "deleteUserRoles" \in ToSet(commands) \/ a.roles \subseteq {id}
          /\ "setUserRoles" \in ToSet(commands) \/ "createUserRoles" \in ToSet(commands) \/ id \in a.roles

\* The id of the role of the environment.
DemoRole(id) == IF env.isTypeormMode THEN id = OrmRoleId(demo.role) ELSE IsRole(roles, id, demo.role)

\* A new account is stored first; its roles then, unless with it.
Ordered(commands) ==
  /\ "register" \in ToSet(commands) => Head(commands) = "register" /\ Tail(commands) = <<>>
  /\ "ormRegister" \in ToSet(commands) =>
       Head(commands) = "ormRegister" /\ "createUserRoles" \in ToSet(Tail(commands))
  /\ commands # <<>> => ~Registers(Tail(commands))

DemoAccounts == Account(AppRoles, Nat)
Demos == [accounts : SUBSET DemoAccounts, role : AppRoles, left : [Callers -> {None} \cup DemoUpdate]]

DemoTypes ==
  /\ demo \in Demos
  /\ \A c \in Callers : demo.left[c] # None =>
       /\ InDemoMode(c)
       /\ DemoRole(demo.left[c].role)
       /\ demo.left[c].commands \in Seq(CommandNames) /\ Ordered(demo.left[c].commands)
       /\ demo.left[c].commands # <<>> /\ ~past.administered =>
            Done(demo.accounts, demo.role, demo.left[c].commands, demo.left[c].role)

Configured ==
  past.scope = "demo" /\ ~past.administered /\ (booted \/ \E c \in Callers : run[c] > 4) =>
    \E id \in UNION {a.roles : a \in demo.accounts} : DemoRole(id) /\ Done(demo.accounts, demo.role, <<>>, id)

DemoInv == DemoTypes /\ Configured

---------------------------------------------------------------------------
(* Sequences, numbers and rows                                             *)

\* A finite sequence, as a function.
LEMMA IsSeq == ASSUME NEW S, NEW n \in Nat, NEW s \in [1..n -> S] PROVE s \in Seq(S) /\ Len(s) = n
  OBVIOUS

\* The sequence of one row.
LEMMA SetToSeqSingle == ASSUME NEW x PROVE SetToSeq({x}) = <<x>>
<1> DEFINE S == {x}
           s == SetToSeq(S)
<1>1. Cardinality(S) = 1 /\ IsFiniteSet(S) BY FS_Singleton
<1>2. \E f \in [1..1 -> S] : IsInjective(f)
  <2>1. [i \in 1..1 |-> x] \in [1..1 -> S] OBVIOUS
  <2>2. IsInjective([i \in 1..1 |-> x]) BY DEF IsInjective
  <2>3. QED BY <2>1, <2>2
<1>3. s \in [1..1 -> S] BY <1>1, <1>2 DEF SetToSeq
<1>4. x \in S /\ \A y \in S : y = x OBVIOUS
<1> HIDE DEF s, S
<1>5. s \in Seq(S) /\ Len(s) = 1 BY <1>3, IsSeq
<1>6. s[1] = x BY <1>3, <1>4
<1>7. s = <<x>> BY <1>5, <1>6
<1>8. QED BY <1>7 DEF s, S

\* A set of numbers has a least one.
LEMMA LeastNumber ==
  ASSUME NEW ns \in SUBSET Nat, ns # {}
  PROVE  \E n \in ns : \A m \in ns : n <= m
<1>1. IsWellFoundedOn(OpToRel(<, Nat), Nat) BY NatLessThanWellFounded
<1>2. \E n \in ns : \A m \in ns : ~(<<m, n>> \in OpToRel(<, Nat)) BY <1>1, WFMin
<1>3. PICK n \in ns : \A m \in ns : ~(<<m, n>> \in OpToRel(<, Nat)) BY <1>2
<1>4. ASSUME NEW m \in ns PROVE n <= m
  <2>1. <<m, n>> \in Nat \X Nat /\ ~(<<m, n>> \in OpToRel(<, Nat)) BY <1>3
  <2>2. ~(m < n) BY <2>1 DEF OpToRel
  <2>3. m \in Nat /\ n \in Nat OBVIOUS
  <2>4. QED BY <2>2, <2>3
<1>5. QED BY <1>4

\* A finite set of numbers has a greatest one: one with the fewest above it.
LEMMA GreatestNumber ==
  ASSUME NEW U \in SUBSET Nat, IsFiniteSet(U), U # {}
  PROVE  \E x \in U : \A y \in U : x >= y
<1> DEFINE above(x) == {y \in U : y >= x}
           B == {above(x) : x \in U}
           F == FiniteSubsetsOf(U)
           R == StrictSubsetOrdering(U)
<1>1. IsWellFoundedOn(R, F) BY FS_StrictSubsetOrderingWellFounded
<1>2. B \in SUBSET (SUBSET U) /\ B # {} OBVIOUS
<1> HIDE DEF B
<1>3. B \subseteq F BY <1>2, FS_Subset DEF FiniteSubsetsOf
<1>4. \A x, y \in B : y \subseteq x /\ y # x => <<y, x>> \in R
  BY <1>2 DEF StrictSubsetOrdering
<1> HIDE DEF F, R
<1>5. PICK b \in B : \A c \in B : ~(<<c, b>> \in R) BY <1>1, <1>2, <1>3, WFMin
<1>6. PICK x \in U : b = above(x) BY <1>5 DEF B
<1>7. ASSUME NEW y \in U, ~(x >= y) PROVE FALSE
  <2>1. x \in Nat /\ y \in Nat /\ y > x BY <1>7
  <2>2. \A z \in Nat : z >= y => z >= x BY <2>1
  <2>3. above(y) \subseteq above(x) BY <2>2
  <2>4. x \in above(x) /\ x \notin above(y) BY <2>1
  <2>5. above(y) \in B BY DEF B
  <2> HIDE DEF above
  <2>6. QED BY <1>4, <1>5, <1>6, <2>3, <2>4, <2>5
<1>8. QED BY <1>7

\* The id of a cached name is that of a row with this name.
LEMMA IdOfIs ==
  ASSUME NEW cache \in Seq(Row), NEW name
  PROVE  /\ (~\E i \in DOMAIN cache : cache[i].name = name) => IdOf(cache, name) = None
         /\ (\E i \in DOMAIN cache : cache[i].name = name) =>
              \E i \in DOMAIN cache : cache[i].name = name /\ IdOf(cache, name) = cache[i].id
<1> DEFINE named == {i \in DOMAIN cache : cache[i].name = name}
           first == CHOOSE i \in named : \A j \in named : i <= j
<1>1. IdOf(cache, name) = IF named = {} THEN None ELSE cache[first].id BY DEF IdOf
<1>2. named \in SUBSET Nat OBVIOUS
<1>3. named # {} => first \in named
  <2>1. named # {} => \E i \in named : \A j \in named : i <= j
    <3> HIDE DEF named
    <3> QED BY <1>2, LeastNumber
  <2>2. QED BY <2>1
<1> HIDE DEF first
<1>4. QED BY <1>1, <1>3

\* A new id is not yet in use.
LEMMA NextIdIsFresh ==
  ASSUME NEW rows \in SUBSET Row, IsFiniteSet(rows)
  PROVE  NextId(rows) \in Nat /\ \A r \in rows : r.id # NextId(rows)
<1> DEFINE ids == {r.id : r \in rows}
           U == ids \cup {0}
           m == Max(U)
<1>1. IsFiniteSet(ids)
  <2> DEFINE idOf == [r \in rows |-> r.id]
  <2>1. idOf \in Surjection(rows, ids) BY DEF Surjection
  <2> HIDE DEF idOf, ids
  <2>2. QED BY <2>1, FS_Surjection
<1>2. IsFiniteSet(U) BY <1>1, FS_AddElement
<1>3. U \in SUBSET Nat /\ U # {} BY DEF Row
<1>4. \A r \in rows : r.id \in U OBVIOUS
<1> HIDE DEF U
<1>5. m \in U /\ \A y \in U : m >= y BY <1>2, <1>3, GreatestNumber DEF Max
<1>6. NextId(rows) = 1 + m BY DEF NextId, U
<1>7. m \in Nat /\ \A y \in U : y \in Nat BY <1>3, <1>5
<1> HIDE DEF m
<1>8. NextId(rows) \in Nat /\ \A y \in U : y # NextId(rows) BY <1>5, <1>6, <1>7
<1>9. QED BY <1>4, <1>8

\* What is found is the row with this name, one of them.
LEMMA FoundIs ==
  ASSUME NEW rows \in SUBSET Row, \A p, q \in rows : p.id = q.id => p = q, NEW name
  PROVE  \/ \E r \in rows : FindOneBy(rows, name) = {r} /\ r.name = name
         \/ FindOneBy(rows, name) = {} /\ \A r \in rows : r.name # name
<1> DEFINE named == {r \in rows : r.name = name}
           ids == {r.id : r \in named}
<1>1. FindOneBy(rows, name) = {r \in named : \A q \in named : r.id <= q.id} BY DEF FindOneBy
<1>2. CASE named = {} BY <1>1, <1>2
<1>3. CASE named # {}
  <2>1. ids \in SUBSET Nat /\ ids # {} BY <1>3 DEF Row
  <2>2. \E n \in ids : \A m \in ids : n <= m
    <3> HIDE DEF ids
    <3> QED BY <2>1, LeastNumber
  <2>3. PICK r \in named : \A q \in named : r.id <= q.id BY <2>2
  <2>4. \A q \in named : q.id \in Nat BY DEF Row
  <2>5. ASSUME NEW q \in named, \A p \in named : q.id <= p.id PROVE q = r
    <3>1. q.id <= r.id /\ r.id <= q.id /\ q.id \in Nat /\ r.id \in Nat BY <2>3, <2>4, <2>5
    <3>2. q.id = r.id BY <3>1
    <3>3. QED BY <3>2
  <2>6. FindOneBy(rows, name) = {r} BY <1>1, <2>3, <2>5
  <2>7. QED BY <2>6
<1>4. QED BY <1>2, <1>3

\* A row is cached after the others.
LEMMA PushIs ==
  ASSUME NEW cache \in Seq(Row), NEW r \in Row, NEW found, NEW created, found \cup created = {r}
  PROVE  /\ Push(cache, found, created) \in Seq(Row)
         /\ \A i \in DOMAIN cache : i \in DOMAIN Push(cache, found, created) /\ Push(cache, found, created)[i] = cache[i]
         /\ \E i \in DOMAIN Push(cache, found, created) : Push(cache, found, created)[i] = r
         /\ \A i \in DOMAIN Push(cache, found, created) :
              \/ i \in DOMAIN cache /\ Push(cache, found, created)[i] = cache[i]
              \/ Push(cache, found, created)[i] = r
<1> DEFINE p == cache \o <<r>>
<1>1. Push(cache, found, created) = p BY SetToSeqSingle DEF Push
<1>2. <<r>> \in Seq(Row) /\ Len(<<r>>) = 1 /\ <<r>>[1] = r OBVIOUS
<1>3. /\ p \in Seq(Row) /\ Len(p) = Len(cache) + 1
      /\ \A i \in 1..Len(p) : p[i] = IF i <= Len(cache) THEN cache[i] ELSE <<r>>[i - Len(cache)]
  BY <1>2, ConcatProperties
<1>4. Len(cache) \in Nat /\ DOMAIN cache = 1..Len(cache) /\ DOMAIN p = 1..Len(p) BY <1>3
<1> HIDE DEF p
<1>5. \A i \in DOMAIN p : i <= Len(cache) \/ i = Len(cache) + 1 BY <1>3, <1>4
<1>6. \A i \in DOMAIN p : (i \in DOMAIN cache /\ p[i] = cache[i]) \/ p[i] = r
  BY <1>2, <1>3, <1>4, <1>5
<1>7. \A i \in DOMAIN cache : i \in DOMAIN p /\ p[i] = cache[i] BY <1>3, <1>4
<1>8. \E i \in DOMAIN p : p[i] = r BY <1>2, <1>3, <1>4
<1>9. QED BY <1>1, <1>3, <1>6, <1>7, <1>8

\* The names left after the first.
LEMMA LeftIs ==
  ASSUME NEW S, NEW e \in Seq(S), e # <<>>
  PROVE  /\ Head(e) \in S /\ Tail(e) \in Seq(S) /\ Head(e) \in ToSet(e)
         /\ ToSet(e) = {Head(e)} \cup ToSet(Tail(e))
         /\ Len(e) > 1 => Tail(e) # <<>>
         /\ ~(Len(e) > 1) => ToSet(e) = {Head(e)}
<1> DEFINE t == Tail(e)
           h == Head(e)
<1>1. Len(e) \in Nat \ {0} /\ h = e[1] /\ 1 \in DOMAIN e /\ DOMAIN e = 1..Len(e) /\ h \in S
  OBVIOUS
<1>2. t \in Seq(S) /\ Len(t) = Len(e) - 1 /\ \A i \in 1..(Len(e) - 1) : t[i] = e[i + 1]
  BY <1>1
<1>3. DOMAIN t = 1..(Len(e) - 1) BY <1>2
<1> HIDE DEF t, h
<1>4. \A i \in DOMAIN e : i = 1 \/ (i - 1 \in DOMAIN t /\ t[i - 1] = e[i])
  BY <1>1, <1>2, <1>3
<1>5. \A i \in DOMAIN t : i + 1 \in DOMAIN e /\ t[i] = e[i + 1] BY <1>1, <1>2, <1>3
<1>6. ToSet(e) = {h} \cup ToSet(t)
  <2>1. \A i \in DOMAIN e : e[i] = h \/ \E j \in DOMAIN t : t[j] = e[i] BY <1>1, <1>4
  <2>2. \A j \in DOMAIN t : \E i \in DOMAIN e : e[i] = t[j] BY <1>5
  <2>3. \E i \in DOMAIN e : e[i] = h BY <1>1
  <2>4. ToSet(e) = {e[i] : i \in DOMAIN e} /\ ToSet(t) = {t[j] : j \in DOMAIN t}
    BY DEF ToSet
  <2>5. QED BY <2>1, <2>2, <2>3, <2>4
<1>7. Len(e) > 1 => t # <<>> BY <1>1, <1>2
<1>8. ~(Len(e) > 1) => ToSet(e) = {h}
  <2>1. ~(Len(e) > 1) => \A i \in DOMAIN e : i = 1 BY <1>1
  <2>2. QED BY <1>1, <2>1, Zenon DEF ToSet
<1>9. h \in ToSet(e) BY <1>6
<1>10. QED BY <1>1, <1>2, <1>6, <1>7, <1>8, <1>9 DEF t, h

---------------------------------------------------------------------------
(* What is stored and cached                                               *)

\* The names of the code.
LEMMA NamesAre ==
  /\ ToSet(ROLES) = {"ADMIN", "OPERATOR", "GUEST"} /\ ToSet(ROLES) \subseteq AllNames
  /\ ToSet(PERM_GROUP) \subseteq AllNames
  /\ \A n \in ToSet(ROLES) : ROLE_PERMS[n] \subseteq ToSet(PERM_GROUP)
  /\ AppRoles \subseteq ToSet(ROLES)
  /\ ROLES \in Seq(AllNames) /\ ROLES # <<>> /\ PERM_GROUP \in Seq(AllNames) /\ PERM_GROUP # <<>>
  /\ DOMAIN Names = Types /\ Names["role"] = ROLES /\ Names["permission"] = PERM_GROUP
<1>1. ToSet(ROLES) = {"ADMIN", "OPERATOR", "GUEST"} BY DEF ToSet, ROLES
<1>2. ToSet(ROLES) \subseteq AllNames /\ ToSet(PERM_GROUP) \subseteq AllNames
  BY DEF AllNames
<1>3. \A n \in ToSet(ROLES) : ROLE_PERMS[n] \subseteq ToSet(PERM_GROUP)
  BY <1>1 DEF ROLE_PERMS
<1>4. AppRoles \subseteq ToSet(ROLES) BY <1>1 DEF AppRoles
<1>5. ASSUME NEW S, NEW e \in Seq(S), e # <<>>, ToSet(e) \subseteq AllNames PROVE e \in Seq(AllNames)
  <2>1. Len(e) \in Nat /\ DOMAIN e = 1..Len(e) /\ \A i \in 1..Len(e) : e[i] \in AllNames
    BY <1>5 DEF ToSet
  <2>2. e = [i \in 1..Len(e) |-> e[i]] BY <2>1
  <2>3. QED BY <2>1, <2>2
<1> DEFINE three == {"ADMIN", "OPERATOR", "GUEST"}
            five == {"PrinterFiles", "PrinterSettings", "PrinterFloors", "PrintCompletion", "ServerInfo"}
<1>6. /\ ROLES \in Seq(three) /\ Len(ROLES) = 3
      /\ PERM_GROUP \in Seq(five) /\ Len(PERM_GROUP) = 5
  <2>1. ROLES \in Seq(three) /\ Len(ROLES) = 3 BY DEF ROLES
  <2>2. PERM_GROUP \in Seq(five) /\ Len(PERM_GROUP) = 5 BY DEF PERM_GROUP
  <2>3. QED BY <2>1, <2>2
<1> HIDE DEF three, five
<1>7. ROLES # <<>> /\ PERM_GROUP # <<>>
  <2>1. \A S : \A e \in Seq(S) : Len(e) # 0 => e # <<>> OBVIOUS
  <2>2. Len(ROLES) # 0 /\ Len(PERM_GROUP) # 0 BY <1>6
  <2>3. QED BY <1>6, <2>1, <2>2
<1>8. ROLES \in Seq(AllNames) /\ PERM_GROUP \in Seq(AllNames) BY <1>2, <1>5, <1>6, <1>7
<1>9. DOMAIN Names = Types /\ Names["role"] = ROLES /\ Names["permission"] = PERM_GROUP
  BY DEF Names, Types
<1>10. QED BY <1>1, <1>2, <1>3, <1>4, <1>9, <1>7, <1>8

\* What storing a name n changes: its row is there and cached, the rest is as it was.
Grows(r, q, t, n, found) ==
  /\ q.user = r.user
  /\ \A u \in Types : u # t => q.rows[u] = r.rows[u] /\ q.cache[u] = r.cache[u]
  /\ r.rows[t] \subseteq q.rows[t]
  /\ found # {} => q.rows[t] = r.rows[t]
  /\ \E p : p.name = n /\ q.rows[t] \subseteq r.rows[t] \cup {p}
  /\ \A m \in AllNames : Known(r, t, m) \/ m = n => Known(q, t, m)

\* The name that is next is stored and cached.
LEMMA PushedIs ==
  ASSUME RolesTypes(roles), NEW t \in Types, NEW n \in AllNames, NEW s,
         sync[s].of = t, Head(sync[s].left) = n,
         \/ sync[s].found = {}
         \/ \E r \in roles.rows[t] : sync[s].found = {r} /\ r.name = n
  PROVE  RolesTypes(Pushed(s)) /\ Grows(roles, Pushed(s), t, n, sync[s].found)
<1> DEFINE found == sync[s].found
           row == [id |-> NextId(roles.rows[t]), name |-> n]
           created == IF found # {} THEN {} ELSE {row}
           stored == roles.rows[t] \cup created
           cached == Push(roles.cache[t], found, created)
           q == Pushed(s)
<1>1. /\ roles \in [rows : [Types -> SUBSET Row], cache : [Types -> Seq(Row)],
                    user : {None} \cup [name : AppRoles, id : Nat]]
      /\ \A u \in Types :
           /\ IsFiniteSet(roles.rows[u])
           /\ \A p1, p2 \in roles.rows[u] : p1.id = p2.id => p1 = p2
           /\ \A i \in DOMAIN roles.cache[u] : roles.cache[u][i] \in roles.rows[u]
      /\ roles.user # None => IsRole(roles, roles.user.id, roles.user.name)
  BY DEF RolesTypes
<1>2. roles.rows[t] \in SUBSET Row /\ roles.cache[t] \in Seq(Row) /\ IsFiniteSet(roles.rows[t])
  BY <1>1
<1>3. row \in Row /\ \A r \in roles.rows[t] : r.id # row.id BY <1>2, NextIdIsFresh DEF Row
<1>4. q = [roles EXCEPT !.rows[t] = stored, !.cache[t] = cached] BY DEF Pushed
<1>5. PICK r \in Row : /\ found \cup created = {r} /\ r.name = n /\ stored = roles.rows[t] \cup {r}
                       /\ r \in roles.rows[t] \/ (found = {} /\ r = row)
                       /\ found # {} => r \in roles.rows[t]
  <2>1. CASE found = {} BY <1>3, <2>1
  <2>2. CASE \E r \in roles.rows[t] : found = {r} /\ r.name = n
    <3>1. PICK r \in roles.rows[t] : found = {r} /\ r.name = n BY <2>2
    <3>2. created = {} /\ r \in Row /\ stored = roles.rows[t] \cup {r} BY <1>2, <3>1
    <3>3. QED BY <3>1, <3>2
  <2>3. QED BY <2>1, <2>2
<1>6. stored \in SUBSET Row /\ IsFiniteSet(stored)
      /\ \A p1, p2 \in stored : p1.id = p2.id => p1 = p2
  <2>1. IsFiniteSet(roles.rows[t] \cup {r}) BY <1>2, FS_AddElement
  <2>2. \A p1, p2 \in roles.rows[t] \cup {r} : p1.id = p2.id => p1 = p2 BY <1>1, <1>3, <1>5
  <2>3. QED BY <1>2, <1>5, <2>1, <2>2
<1> HIDE DEF found, created
<1>7. /\ cached \in Seq(Row)
      /\ \A i \in DOMAIN roles.cache[t] : i \in DOMAIN cached /\ cached[i] = roles.cache[t][i]
      /\ \E i \in DOMAIN cached : cached[i] = r
      /\ \A i \in DOMAIN cached : (i \in DOMAIN roles.cache[t] /\ cached[i] = roles.cache[t][i]) \/ cached[i] = r
  <2> DEFINE cache == roles.cache[t]
             p == Push(cache, found, created)
  <2>1. cache \in Seq(Row) /\ r \in Row /\ found \cup created = {r} BY <1>2, <1>5
  <2> HIDE DEF cache
  <2>2. /\ p \in Seq(Row)
        /\ \A i \in DOMAIN cache : i \in DOMAIN p /\ p[i] = cache[i]
        /\ \E i \in DOMAIN p : p[i] = r
        /\ \A i \in DOMAIN p : (i \in DOMAIN cache /\ p[i] = cache[i]) \/ p[i] = r
    BY <2>1, PushIs
  <2>3. cached = p BY DEF cache
  <2> HIDE DEF p, cached
  <2>4. QED BY <2>2, <2>3 DEF cache
<1> HIDE DEF stored, cached, row, q
<1>8. /\ q \in [rows : [Types -> SUBSET Row], cache : [Types -> Seq(Row)],
                user : {None} \cup [name : AppRoles, id : Nat]]
      /\ q.user = roles.user /\ q.rows[t] = stored /\ q.cache[t] = cached
      /\ \A u \in Types : u # t => q.rows[u] = roles.rows[u] /\ q.cache[u] = roles.cache[u]
  BY <1>1, <1>4, <1>6, <1>7
<1>9. \A i \in DOMAIN cached : cached[i] \in stored BY <1>1, <1>5, <1>7
<1>10. \A u \in Types :
          /\ IsFiniteSet(q.rows[u])
          /\ \A p1, p2 \in q.rows[u] : p1.id = p2.id => p1 = p2
          /\ \A i \in DOMAIN q.cache[u] : q.cache[u][i] \in q.rows[u]
  BY <1>1, <1>6, <1>8, <1>9
<1>11. \A u \in Types : roles.rows[u] \subseteq q.rows[u] BY <1>5, <1>8
<1>12. q.user # None => IsRole(q, q.user.id, q.user.name)
  BY <1>1, <1>8, <1>11 DEF IsRole, Types
<1>13. RolesTypes(q) BY <1>8, <1>10, <1>12 DEF RolesTypes
<1>14. \A m \in AllNames : Known(roles, t, m) \/ m = n => Known(q, t, m)
  BY <1>5, <1>7, <1>8 DEF Known
<1>15. found # {} => q.rows[t] = roles.rows[t] BY <1>5, <1>8
<1>16. \E p : p.name = n /\ q.rows[t] \subseteq roles.rows[t] \cup {p} BY <1>5, <1>8
<1>17. Grows(roles, q, t, n, found) BY <1>8, <1>11, <1>14, <1>15, <1>16 DEF Grows
<1>18. QED BY <1>13, <1>17 DEF q, found

\* A role that is stored once gives its rights.
LEMMA GrantedIs ==
  ASSUME RolesTypes(roles), Once(roles), NEW id, NEW name \in ToSet(ROLES), IsRole(roles, id, name),
         \A n \in ToSet(PERM_GROUP) : Known(roles, "permission", n),
         Known(roles, "role", name)
  PROVE  Granted({id}) = RightsOf(name)
<1> DEFINE rc == roles.cache["role"]
           pc == roles.cache["permission"]
           fits == {i \in DOMAIN rc : rc[i]["id"] = id}
           norm == Normalized(rc, "id", id)
<1>1. PICK q \in roles.rows["role"] : q.id = id /\ q.name = name BY DEF IsRole
<1>2. /\ \A i \in DOMAIN rc : rc[i] \in roles.rows["role"]
      /\ \A p1, p2 \in roles.rows["role"] : p1.id = p2.id => p1 = p2
      /\ rc \in Seq(Row)
  BY DEF RolesTypes, Types
<1>3. \A i \in DOMAIN rc : rc[i].id = id <=> rc[i].name = name BY <1>1, <1>2 DEF Once
<1>4. \E i \in DOMAIN rc : rc[i].name = name BY DEF Known
<1>5. fits \in SUBSET Nat /\ fits # {} /\ \A i \in fits : rc[i].name = name
  BY <1>2, <1>3, <1>4
<1>6. \E i \in fits : \A j \in fits : i <= j
  <2> HIDE DEF fits
  <2>1. QED BY <1>5, LeastNumber
<1>7. norm = {rc[i].name : i \in {i \in fits : \A j \in fits : i <= j}} BY DEF Normalized
<1> HIDE DEF fits
<1>8. norm = {name} BY <1>5, <1>6, <1>7
<1> HIDE DEF norm
<1>9. NormalizedRoles(rc, "id", {id}) = {name} BY <1>8 DEF NormalizedRoles, norm
<1>10. RolesPermissions(rc, "id", {id}) = ROLE_PERMS[name] BY <1>9 DEF RolesPermissions
<1>11. \A p \in ToSet(PERM_GROUP) : Normalized(pc, "name", p) # {}
  <2> TAKE p \in ToSet(PERM_GROUP)
  <2> DEFINE named == {i \in DOMAIN pc : pc[i]["name"] = p}
  <2>1. pc \in Seq(Row) /\ \E i \in DOMAIN pc : pc[i].name = p
    BY DEF RolesTypes, Types, Known
  <2>2. named \in SUBSET Nat /\ named # {} BY <2>1
  <2>3. Normalized(pc, "name", p) = {pc[i].name : i \in {i \in named : \A j \in named : i <= j}}
    BY DEF Normalized
  <2> HIDE DEF named
  <2>4. \E i \in named : \A j \in named : i <= j BY <2>2, LeastNumber
  <2>5. QED BY <2>3, <2>4
<1>12. \A p \in ToSet(PERM_GROUP) : AuthorizePermission(rc, pc, "id", {id}, p) <=> p \in ROLE_PERMS[name]
  BY <1>10, <1>11 DEF AuthorizePermission
<1>13. \A r \in ToSet(ROLES) : AuthorizeRoles(rc, {r}, "id", {id}) <=> r = name
  BY <1>9 DEF AuthorizeRoles
<1>14. ROLE_PERMS[name] \subseteq ToSet(PERM_GROUP) BY NamesAre
<1>15. Rights(rc, pc, "id", {id}) = {name} \cup ROLE_PERMS[name]
  BY <1>12, <1>13, <1>14 DEF Rights
<1>16. QED BY <1>15 DEF Granted, RightsOf

\* At most one caller runs the boot, none once it has booted.
LEMMA Alone ==
  ASSUME StartInv
  PROVE  /\ run \in [Callers -> 0..LastStep]
         /\ \A c, d \in Callers : run[c] > 0 /\ run[d] > 0 => c = d
         /\ booted => \A c \in Callers : run[c] = 0
         /\ host \in {"started", "crashed"} => \A c \in Callers : run[c] = 0
         /\ booted \in BOOLEAN
<1>1. OneBootRun BY OneRun DEF Dead, NoRun, OneBootRun, Callers, StartInv
<1>2. run \in [Callers -> 0..LastStep] /\ booted \in BOOLEAN BY DEF StartInv, TypeOK
<1>3. \A c, d \in Callers : run[c] > 0 /\ run[d] > 0 => c = d
  BY <1>1, <1>2 DEF OneBootRun, Callers, LastStep
<1>4. booted => \A c \in Callers : run[c] = 0
  BY DEF StartInv, IInv, BootedLoaded, Dead, NoRun
<1>5. host \in {"started", "crashed"} => \A c \in Callers : run[c] = 0
  <2>1. CASE Dead BY <2>1 DEF Dead, NoRun
  <2>2. CASE IInv
    <3>1. host = "started" => \A c \in Callers : run[c] = 0
      BY <2>2 DEF IInv, StartedFresh, NoRun
    <3>2. ASSUME host = "crashed", NEW c \in Callers PROVE run[c] = 0
      BY <2>2, <3>2, RunPending, <1>2 DEF Callers, IInv, BootJob, LastStep
    <3>3. QED BY <3>1, <3>2
  <2>3. QED BY <2>1, <2>2 DEF StartInv
<1>6. QED BY <1>2, <1>3, <1>4, <1>5

---------------------------------------------------------------------------
(* The steps that are not about roles                                      *)

\* How the runs go on in steps that are not modelled in detail.
Moves ==
  /\ \A c \in Callers : run'[c] = run[c] \/ (~Synchronises(c) /\ ~InDemoMode(c))
  /\ Synced' => Synced \/ env.isTypeormMode
  /\ past.scope = "demo" /\ (booted' \/ \E c \in Callers : run'[c] > 4) =>
       booted \/ \E c \in Callers : run[c] > 4

\* Most steps leave the runs where they are.
LEMMA Rests ==
  ASSUME run' = run, booted' = booted
  PROVE  Moves
BY DEF Moves, Synced

\* Others move one of them on by a step that is not modelled in detail, or back.
LEMMA MovesBy ==
  ASSUME run \in [Callers -> 0..LastStep], NEW c \in Callers, NEW k \in 0..LastStep,
         run' = [run EXCEPT ![c] = k], k <= run[c] + 1,
         ~Synchronises(c), ~InDemoMode(c),
         booted' => booted \/ run[c] = LastStep
  PROVE  Moves
<1>1. run[c] \in Nat /\ k \in Nat /\ \A d \in Callers : run'[d] = IF d = c THEN k ELSE run[d]
  BY DEF LastStep
<1>2. LastStep > 4 BY DEF LastStep
<1>3. Synced' => Synced \/ env.isTypeormMode
  <2>1. CASE booted' BY <1>2, <2>1 DEF Synced, LastStep
  <2>2. ASSUME NEW d \in Callers, run'[d] > 3 PROVE Synced \/ env.isTypeormMode
    <3>1. CASE d # c BY <1>1, <2>2, <3>1 DEF Synced
    <3>2. CASE d = c
      <4>1. run[c] >= 3 BY <1>1, <2>2, <3>2
      <4>2. run[c] > 3 \/ run[c] = 3 BY <1>1, <4>1
      <4>3. QED BY <4>2 DEF Synced, Synchronises
    <3>3. QED BY <3>1, <3>2
  <2>3. QED BY <2>1, <2>2 DEF Synced
<1>4. ASSUME past.scope = "demo", booted' \/ \E d \in Callers : run'[d] > 4
      PROVE  booted \/ \E d \in Callers : run[d] > 4
  <2>1. CASE booted' BY <1>2, <2>1 DEF LastStep
  <2>2. ASSUME NEW d \in Callers, run'[d] > 4 PROVE \E e \in Callers : run[e] > 4
    <3>1. CASE d # c BY <1>1, <2>2, <3>1
    <3>2. CASE d = c
      <4>1. run[c] >= 4 /\ run[c] # 4 BY <1>1, <1>4, <2>2, <3>2 DEF InDemoMode
      <4>2. run[c] > 4 BY <1>1, <4>1
      <4>3. QED BY <4>2
    <3>3. QED BY <3>1, <3>2
  <2>3. QED BY <1>4, <2>1, <2>2
<1>5. QED BY <1>1, <1>3, <1>4 DEF Moves

\* Such a step that is done.
LEMMA DoneMoves ==
  ASSUME run \in [Callers -> 0..LastStep], NEW c \in Callers, StepDone(c),
         ~Synchronises(c), ~InDemoMode(c)
  PROVE  Moves
<1>1. run[c] \in 0..LastStep /\ run[c] > 0 BY DEF StepDone
<1>2. CASE run[c] = LastStep
  <2>1. run' = [run EXCEPT ![c] = 0] BY <1>2 DEF StepDone, Finished, Returned
  <2>2. 0 \in 0..LastStep /\ 0 <= run[c] + 1 BY <1>1 DEF LastStep
  <2>3. QED BY <1>2, <2>1, <2>2, MovesBy
<1>3. CASE run[c] # LastStep
  <2> DEFINE k == run[c] + 1
  <2>1. run' = [run EXCEPT ![c] = k] /\ booted' = booted BY <1>3 DEF StepDone
  <2>2. k \in 0..LastStep /\ k <= run[c] + 1 BY <1>1, <1>3 DEF LastStep
  <2> HIDE DEF k
  <2>3. QED BY <2>1, <2>2, MovesBy
<1>4. QED BY <1>2, <1>3

\* Nobody touches the permissions and the roles.
LEMMA RolesKept ==
  ASSUME RolesInv, roles' = roles, sync' = sync, env' = env, past'.overlapped = past.overlapped,
         \A c \in Callers : sync[c] # None => run'[c] = run[c],
         Synced' => Synced \/ env.isTypeormMode
  PROVE  RolesInv'
<1>1. RolesTypes(roles') BY DEF RolesInv
<1>2. SyncTypes' BY DEF RolesInv, SyncTypes
<1>3. \A t, n : Awaited(t, n)' <=> Awaited(t, n) BY DEF Awaited
<1>4. Covered' BY <1>3 DEF RolesInv, Covered, SyncsRoles
<1>5. StoredOnce' BY DEF RolesInv, StoredOnce, SyncsRoles
<1>6. QED BY <1>1, <1>2, <1>4, <1>5 DEF RolesInv

\* Nobody touches the demo account.
LEMMA DemoKept ==
  ASSUME DemoInv, demo' = demo, env' = env, roles.rows["role"] \subseteq roles'.rows["role"],
         past'.scope = past.scope, past'.administered = past.administered,
         \A c \in Callers : demo.left[c] # None => run'[c] = run[c],
         past.scope = "demo" /\ (booted' \/ \E c \in Callers : run'[c] > 4) =>
           booted \/ \E c \in Callers : run[c] > 4
  PROVE  DemoInv'
<1>1. \A id : DemoRole(id) => DemoRole(id)' BY DEF DemoRole, IsRole
<1>2. DemoTypes' BY <1>1 DEF DemoInv, DemoTypes, InDemoMode
<1>3. Configured' BY <1>1 DEF DemoInv, Configured
<1>4. QED BY <1>2, <1>3 DEF DemoInv

\* Neither: what a step leaves alone that moves the runs on.
LEMMA BothKept ==
  ASSUME RolesInv, DemoInv, Moves, roles' = roles, sync' = sync, demo' = demo, env' = env,
         past'.scope = past.scope, past'.administered = past.administered,
         past'.overlapped = past.overlapped
  PROVE  RolesInv' /\ DemoInv'
<1>1. \A c \in Callers : sync[c] # None => Synchronises(c)
  BY DEF RolesInv, SyncTypes, Synchronises, Syncers
<1>2. \A c \in Callers : demo.left[c] # None => InDemoMode(c) BY DEF DemoInv, DemoTypes
<1>3. \A c \in Callers : sync[c] # None \/ demo.left[c] # None => run'[c] = run[c]
  BY <1>1, <1>2 DEF Moves
<1>4. QED BY <1>3, RolesKept, DemoKept DEF Moves

\* What the steps that are not about roles, nor about the demo account, leave alone.
Spared ==
  /\ roles' = roles /\ sync' = sync /\ demo' = demo /\ env' = env
  /\ past'.scope = past.scope /\ past'.administered = past.administered
  /\ past'.overlapped = past.overlapped

\* The steps of the boot, the migrations, the tasks and the client.
LEMMA OthersSpareRoles ==
  ASSUME Past(past),
         \/ Begun \/ MigrateMongo \/ BootJobRuns
         \/ \E c \in Callers :
              Connected(c) \/ Command(c) \/ Recorded(c) \/ ConnectionFailed(c) \/ MigrationDropped(c) \/ OtherStep(c)
         \/ \E t \in BOOT_TASKS : OtherTask(t)
         \/ \E m \in DOMAIN Models : Edit(m)
         \/ RunTask \/ UpdateClientBundleGithub
         \/ \E u \in Requested : Downloaded(u) \/ EntryRemoved(u) \/ UpdateFailed(u)
         \/ UNCHANGED allVars
  PROVE  Spared
<1>1. CASE Begun \/ BootJobRuns \/ UNCHANGED allVars
  BY <1>1 DEF Begun, BootJobRuns, RunOnce, BootJobTick, startVars, allVars, vars, Spared
<1>2. CASE MigrateMongo
  <2>1. PICK up \in BOOLEAN : past' = [past EXCEPT !.excused = @ \/ (past.cut /\ ~up)]
    BY <1>2 DEF MigrateMongo
  <2>2. UNCHANGED <<vars, roles, sync, demo>> BY <1>2, Zenon DEF MigrateMongo
  <2>3. QED BY <2>1, <2>2 DEF Spared, Past, vars
<1>3. ASSUME NEW c \in Callers, Connected(c) \/ Recorded(c) PROVE Spared
  <2>1. StepDone(c) \/ UNCHANGED vars BY <1>3 DEF Connected, Recorded, Begins
  <2>2. env' = env BY <2>1 DEF StepDone, vars
  <2>3. UNCHANGED <<roles, sync, demo, past>> BY <1>3, Zenon DEF Connected, Recorded
  <2>4. QED BY <2>2, <2>3 DEF Spared
<1>4. ASSUME NEW c \in Callers, Command(c) PROVE Spared
  <2>1. UNCHANGED <<roles, sync, demo, past>> /\ (UNCHANGED vars \/ env' = env)
    BY <1>4, Zenon DEF Command
  <2>2. QED BY <2>1 DEF Spared, vars
<1>5. ASSUME NEW c \in Callers, ConnectionFailed(c) \/ OtherStep(c) PROVE Spared
  BY <1>5 DEF ConnectionFailed, OtherStep, MongooseFailed, StepDone, startVars, Spared
<1>6. ASSUME NEW c \in Callers, MigrationDropped(c) PROVE Spared
  <2> DEFINE x == past.cut \/ c \in DOMAIN mig
  <2>1. past' = [past EXCEPT !.dropped = TRUE, !.cut = x] /\ UNCHANGED <<roles, sync, demo, env>>
    BY <1>6 DEF MigrationDropped, MigrationFailed
  <2> HIDE DEF x
  <2>2. QED BY <2>1 DEF Spared, Past
<1>7. CASE \E t \in BOOT_TASKS : OtherTask(t)
  BY <1>7 DEF OtherTask, JobTick, DelayElapsed, TaskEnded, startVars, Spared
<1>8. ASSUME NEW m \in DOMAIN Models, Edit(m) PROVE Spared
  <2> DEFINE v == IF m = "enabled" THEN FALSE ELSE "new"
             x == past.excused \/ mongo.applied < Len(MigrationNames)
             s == [past.saved EXCEPT ![m] = v]
  <2>1. UNCHANGED <<vars, roles, sync, demo>> BY <1>8, Zenon DEF Edit
  <2>2. past' = [past EXCEPT !.saved = s, !.edited = TRUE, !.excused = x]
    BY <1>8 DEF Edit, Past
  <2> HIDE DEF v, x, s
  <2>3. QED BY <2>1, <2>2 DEF Spared, Past, vars
<1>9. ASSUME NEW u \in Requested, NEW failed \in BOOLEAN, UpdateDone(u, failed)
      PROVE  /\ env' = env /\ past'.scope = past.scope /\ past'.administered = past.administered
             /\ past'.overlapped = past.overlapped
  <2> DEFINE n == IF failed THEN past.ensured /\ updates[u].at # "clear" ELSE past.ensured \/ u = "task"
             x == (past.torn /\ bundle' = bundle) \/ (failed /\ updates[u].at = "clear")
  <2>1. past' = [past EXCEPT !.ensured = n, !.torn = x] /\ env' = env BY <1>9 DEF UpdateDone
  <2> HIDE DEF n, x
  <2>2. QED BY <2>1 DEF Past
<1>10. CASE RunTask
  <2>1. UNCHANGED <<roles, sync, demo>> /\ (UNCHANGED <<vars, past>> \/ UpdateDone("task", FALSE))
    BY <1>10, Zenon DEF RunTask
  <2>2. "task" \in Requested BY DEF Requested
  <2>3. QED BY <1>9, <2>1, <2>2 DEF Spared, vars
<1>11. CASE UpdateClientBundleGithub
  <2>1. UNCHANGED <<vars, roles, sync, demo>> /\ past' = [past EXCEPT !.asked = TRUE]
    BY <1>11, Zenon DEF UpdateClientBundleGithub
  <2>2. QED BY <2>1 DEF Spared, vars, Past
<1>12. ASSUME NEW u \in Requested, Downloaded(u) \/ EntryRemoved(u) \/ UpdateFailed(u) PROVE Spared
  <2>1. UNCHANGED <<roles, sync, demo>>
    BY <1>12, Zenon DEF Downloaded, EntryRemoved, UpdateFailed
  <2>2. \/ UpdateDone(u, FALSE) \/ UpdateDone(u, TRUE)
        \/ UNCHANGED vars /\ past' = past
        \/ UNCHANGED vars /\ past' = [past EXCEPT !.mixed = @ \/ \E w \in Requested : updates[w].at = "clear"]
    BY <1>12, Zenon DEF Downloaded, EntryRemoved, UpdateFailed
  <2>3. CASE UpdateDone(u, FALSE) \/ UpdateDone(u, TRUE) BY <1>9, <2>1, <2>3 DEF Spared
  <2>4. CASE UNCHANGED vars /\ past' = past BY <2>1, <2>4 DEF Spared, vars
  <2>5. CASE UNCHANGED vars /\ past' = [past EXCEPT !.mixed = @ \/ \E w \in Requested : updates[w].at = "clear"]
    <3> DEFINE x == past.mixed \/ \E w \in Requested : updates[w].at = "clear"
    <3>1. past' = [past EXCEPT !.mixed = x] BY <2>5
    <3> HIDE DEF x
    <3>2. QED BY <2>1, <2>5, <3>1 DEF Spared, vars, Past
  <2>6. QED BY <2>2, <2>3, <2>4, <2>5
<1>13. QED BY <1>1, <1>2, <1>3, <1>4, <1>5, <1>6, <1>7, <1>8, <1>10, <1>11, <1>12

\* How these move the runs.
LEMMA OthersMove ==
  ASSUME StartInv,
         \/ Begun \/ MigrateMongo \/ BootJobRuns
         \/ \E c \in Callers :
              Connected(c) \/ Command(c) \/ Recorded(c) \/ ConnectionFailed(c) \/ MigrationDropped(c) \/ OtherStep(c)
         \/ \E t \in BOOT_TASKS : OtherTask(t)
         \/ \E m \in DOMAIN Models : Edit(m)
         \/ RunTask \/ UpdateClientBundleGithub
         \/ \E u \in Requested : Downloaded(u) \/ EntryRemoved(u) \/ UpdateFailed(u)
         \/ UNCHANGED allVars
  PROVE  Moves
<1>0. run \in [Callers -> 0..LastStep] /\ "host" \in Callers /\ "job" \in Callers
  BY Alone DEF Callers
<1>1. ASSUME NEW c \in Callers, NEW k \in {0, 1, 2}, run' = [run EXCEPT ![c] = k], k <= run[c] + 1,
             run[c] \in {0, 1}, booted' => booted
      PROVE  Moves
  <2>1. ~Synchronises(c) /\ ~InDemoMode(c) /\ k \in 0..LastStep
    BY <1>1 DEF Synchronises, InDemoMode, LastStep
  <2>2. QED BY <1>0, <1>1, <2>1, MovesBy
<1>2. CASE Begun
  <2>1. run["host"] = 0 /\ run' = [run EXCEPT !["host"] = 1] /\ (booted' => booted)
    BY <1>0, <1>2, Alone DEF Begun, RunOnce
  <2>2. 1 \in {0, 1, 2} /\ 1 <= run["host"] + 1 /\ run["host"] \in {0, 1} BY <2>1
  <2>3. QED BY <1>0, <1>1, <2>1, <2>2, Zenon
<1>3. CASE BootJobRuns
  <2>1. IInv BY <1>3 DEF BootJobRuns, BootJobTick, Alive, StartInv, Dead
  <2>2. ~tasks[BootTask].isExecuting BY <1>3 DEF BootJobRuns, BootJobTick, CanTick
  <2>3. run["job"] = 0 BY <1>0, <2>1, <2>2 DEF IInv, BootJob, LastStep
  <2>4. run' = [run EXCEPT !["job"] = 1] /\ (booted' => booted)
    BY <1>3 DEF BootJobRuns, BootJobTick
  <2>5. 1 \in {0, 1, 2} /\ 1 <= run["job"] + 1 /\ run["job"] \in {0, 1} BY <2>3
  <2>6. QED BY <1>0, <1>1, <2>4, <2>5, Zenon
<1>4. ASSUME NEW c \in Callers, Connected(c) \/ Recorded(c) PROVE Moves
  <2>1. (StepDone(c) \/ UNCHANGED vars) /\ InMongo(c)
    BY <1>4 DEF Connected, Recorded, Begins
  <2>2. ~Synchronises(c) /\ ~InDemoMode(c) BY <2>1 DEF InMongo, Synchronises, InDemoMode
  <2>3. QED BY <1>0, <2>1, <2>2, DoneMoves, Rests DEF vars
<1>5. ASSUME NEW c \in Callers, Command(c) PROVE Moves
  BY <1>5, <1>1, Rests DEF Command, InMongo, vars
<1>6. ASSUME NEW c \in Callers, ConnectionFailed(c) \/ MigrationDropped(c) PROVE Moves
  <2>1. run[c] = 1 /\ booted' = booted /\ (run' = [run EXCEPT ![c] = 2] \/ run' = [run EXCEPT ![c] = 0])
    BY <1>6 DEF ConnectionFailed, MigrationDropped, MongooseFailed, MigrationFailed, Returned
  <2>2. QED BY <1>1, <2>1
<1>7. ASSUME NEW c \in Callers, OtherStep(c) PROVE Moves
  BY <1>0, <1>7, DoneMoves DEF OtherStep
<1>8. CASE \/ MigrateMongo \/ \E m \in DOMAIN Models : Edit(m)
           \/ RunTask \/ UpdateClientBundleGithub \/ UNCHANGED allVars
           \/ \E u \in Requested : Downloaded(u) \/ EntryRemoved(u) \/ UpdateFailed(u)
           \/ \E t \in BOOT_TASKS : OtherTask(t)
  <2>1. run' = run /\ booted' = booted
    <3>1. CASE \/ MigrateMongo \/ \E m \in DOMAIN Models : Edit(m)
      BY <3>1 DEF MigrateMongo, Edit, vars
    <3>2. CASE RunTask \/ UpdateClientBundleGithub \/ UNCHANGED allVars
      BY <3>2 DEF RunTask, UpdateClientBundleGithub, UpdateDone, vars, allVars
    <3>3. CASE \E u \in Requested : Downloaded(u) \/ EntryRemoved(u) \/ UpdateFailed(u)
      BY <3>3 DEF Downloaded, EntryRemoved, UpdateFailed, UpdateDone, vars
    <3>4. CASE \E t \in BOOT_TASKS : OtherTask(t)
      BY <3>4 DEF OtherTask, JobTick, DelayElapsed, TaskEnded
    <3>5. QED BY <1>8, <3>1, <3>2, <3>3, <3>4
  <2>2. QED BY <2>1, Rests
<1>9. QED BY <1>2, <1>3, <1>4, <1>5, <1>6, <1>7, <1>8

\* They keep both invariants.
LEMMA OthersKeep ==
  ASSUME StartInv, BundleInv, RolesInv, DemoInv,
         \/ Begun \/ MigrateMongo \/ BootJobRuns
         \/ \E c \in Callers :
              Connected(c) \/ Command(c) \/ Recorded(c) \/ ConnectionFailed(c) \/ MigrationDropped(c) \/ OtherStep(c)
         \/ \E t \in BOOT_TASKS : OtherTask(t)
         \/ \E m \in DOMAIN Models : Edit(m)
         \/ RunTask \/ UpdateClientBundleGithub
         \/ \E u \in Requested : Downloaded(u) \/ EntryRemoved(u) \/ UpdateFailed(u)
         \/ UNCHANGED allVars
  PROVE  RolesInv' /\ DemoInv'
<1>1. Past(past) BY DEF BundleInv, BundleTypes
<1>2. Spared BY <1>1, OthersSpareRoles
<1>3. Moves BY OthersMove
<1>4. QED BY <1>2, <1>3, BothKept DEF Spared

---------------------------------------------------------------------------
(* The steps of a synchronisation                                          *)

Emptied(r, t) == [r EXCEPT !.cache[t] = <<>>]

\* An emptied cache leaves what is stored.
LEMMA EmptiedIs ==
  ASSUME NEW r, RolesTypes(r), NEW t \in Types
  PROVE  /\ RolesTypes(Emptied(r, t)) /\ Emptied(r, t).rows = r.rows /\ Emptied(r, t).user = r.user
         /\ Emptied(r, t).cache[t] = <<>>
         /\ \A u \in Types : u # t => Emptied(r, t).cache[u] = r.cache[u]
<1> DEFINE q == Emptied(r, t)
<1>1. r \in [rows : [Types -> SUBSET Row], cache : [Types -> Seq(Row)],
             user : {None} \cup [name : AppRoles, id : Nat]]
  BY DEF RolesTypes
<1>2. q = [r EXCEPT !.cache[t] = <<>>] /\ <<>> \in Seq(Row) BY DEF Emptied
<1> HIDE DEF q
<1>3. /\ q \in [rows : [Types -> SUBSET Row], cache : [Types -> Seq(Row)],
                user : {None} \cup [name : AppRoles, id : Nat]]
      /\ q.rows = r.rows /\ q.user = r.user /\ q.cache[t] = <<>>
      /\ \A u \in Types : u # t => q.cache[u] = r.cache[u]
  BY <1>1, <1>2
<1>4. \A u \in Types : \A i \in DOMAIN q.cache[u] : q.cache[u][i] \in q.rows[u]
  <2> TAKE u \in Types
  <2>1. CASE u = t BY <1>3, <2>1
  <2>2. CASE u # t BY <1>3, <2>2 DEF RolesTypes
  <2>3. QED BY <2>1, <2>2
<1>5. RolesTypes(q) BY <1>3, <1>4 DEF RolesTypes, IsRole
<1>6. QED BY <1>3, <1>5 DEF q

\* The role a user is registered with.
LEMMA RegisteredIs ==
  ASSUME NEW r, RolesTypes(r), NEW name \in AppRoles
  PROVE  LET u == Registered(name, r.cache["role"])
         IN  /\ u \in {None} \cup [name : AppRoles, id : Nat]
             /\ u # None => IsRole(r, u.id, u.name)
<1> DEFINE cache == r.cache["role"]
           id == IdOf(cache, name)
<1>1. cache \in Seq(Row) /\ r.rows["role"] \subseteq Row /\ \A i \in DOMAIN cache : cache[i] \in r.rows["role"]
  BY DEF RolesTypes, Types
<1>2. id = None \/ \E i \in DOMAIN cache : cache[i].name = name /\ id = cache[i].id
  BY <1>1, IdOfIs
<1> HIDE DEF id
<1>3. id # None => id \in Nat /\ IsRole(r, id, name) BY <1>1, <1>2 DEF Row, IsRole
<1>4. Registered(name, cache) = IF id = None THEN None ELSE [name |-> name, id |-> id]
  BY DEF Registered, id
<1>5. QED BY <1>3, <1>4

\* A synchronisation under way goes on while rows are added.
LEMMA SyncOn ==
  ASSUME SyncTypes, NEW s \in Syncers, env' = env,
         \A x \in Syncers : x # s => sync'[x] = sync[x],
         sync' \in [Syncers -> {None} \cup Syncing],
         sync'[s] # None => ~env.isTypeormMode /\ SyncOf(s, sync'[s], roles'.rows),
         \A c \in Callers : sync'[c] # None => run'[c] = 3,
         \A t \in Types : roles.rows[t] \subseteq roles'.rows[t]
  PROVE  SyncTypes'
<1>1. ASSUME NEW x \in Syncers, sync[x] # None
      PROVE  ~env.isTypeormMode /\ SyncOf(x, sync[x], roles'.rows)
  <2>1. sync[x] \in Syncing BY <1>1 DEF SyncTypes
  <2>2. sync[x].of \in Types BY <2>1, NamesAre DEF Syncing
  <2>3. QED BY <1>1, <2>2 DEF SyncTypes, SyncOf
<1>2. \A x \in Syncers : sync'[x] # None => ~env'.isTypeormMode /\ SyncOf(x, sync'[x], roles'.rows)
  BY <1>1
<1>3. QED BY <1>2 DEF SyncTypes

\* While a caller synchronises no other one runs.
LEMMA AloneSyncs ==
  ASSUME StartInv, RolesInv, NEW c \in Callers, run[c] = 3
  PROVE  ~Synced /\ \A d \in Callers : d # c => sync[d] = None /\ run[d] = 0
<1>1. ~Synced BY Alone DEF Synced, Callers
<1>2. \A d \in Callers : d # c => run[d] = 0 BY Alone DEF LastStep
<1>3. QED BY <1>1, <1>2 DEF RolesInv, SyncTypes

\* The demo account stays as it is while roles are synchronised.
LEMMA DemoSpared ==
  ASSUME StartInv, DemoInv, demo' = demo, env' = env, booted' = booted,
         roles.rows["role"] \subseteq roles'.rows["role"],
         past'.scope = past.scope, past'.administered = past.administered,
         run' = run \/ \E c \in Callers : run[c] = 3 /\ run' = [run EXCEPT ![c] = 4]
  PROVE  DemoInv'
<1>1. run \in [Callers -> 0..LastStep] BY Alone
<1>2. \A c \in Callers : run'[c] = run[c] \/ (run[c] = 3 /\ run'[c] = 4) BY <1>1
<1>3. \A c \in Callers : demo.left[c] # None => run'[c] = run[c]
  BY <1>2 DEF DemoInv, DemoTypes, InDemoMode
<1>4. \A c \in Callers : run'[c] > 4 => run[c] > 4 BY <1>2
<1>5. QED BY <1>3, <1>4, DemoKept

\* The permissions begin: they are all awaited.
LEMMA SyncPermissionsStep ==
  ASSUME StartInv, RolesInv, DemoInv, NEW c \in Callers, SyncPermissions(c)
  PROVE  RolesInv' /\ DemoInv'
<1> DEFINE new == [of |-> "permission", left |-> PERM_GROUP, found |-> None, for |-> None]
<1>1. /\ ~env.isTypeormMode /\ run[c] = 3 /\ sync[c] = None /\ roles' = Emptied(roles, "permission")
      /\ sync' = [sync EXCEPT ![c] = new] /\ UNCHANGED <<vars, demo, past>>
  BY DEF SyncPermissions, Synchronises, Emptied
<1>2. new \in Syncing /\ new # None BY NamesAre, NoneIsNoValue DEF Syncing, Types
<1>3. sync \in [Syncers -> {None} \cup Syncing] /\ c \in Syncers /\ c # "request"
  BY DEF RolesInv, SyncTypes, Syncers, Callers
<1>4. new.of = "permission" /\ new.left = PERM_GROUP /\ new.found = None OBVIOUS
<1> HIDE DEF new
<1>5. sync' \in [Syncers -> {None} \cup Syncing] /\ sync'[c] = new /\ \A x \in Syncers : x # c => sync'[x] = sync[x]
  BY <1>1, <1>2, <1>3
<1>6. "permission" \in Types /\ "role" \in Types /\ Callers \subseteq Syncers
  BY DEF Types, Syncers
<1>7. RolesTypes(roles') /\ roles'.rows = roles.rows BY <1>1, <1>6, EmptiedIs DEF RolesInv
<1>8. UNCHANGED <<env, run, booted>> BY <1>1 DEF vars
<1>9. ~Synced /\ \A d \in Callers : d # c => sync[d] = None BY <1>1, AloneSyncs
<1>10. SyncTypes'
  <2>1. SyncOf(c, new, roles'.rows) BY <1>3, <1>4, NamesAre DEF SyncOf
  <2>2. \A d \in Callers : sync'[d] # None => run'[d] = 3 BY <1>1, <1>5, <1>6, <1>8, <1>9
  <2>3. QED BY <1>1, <1>3, <1>5, <1>7, <1>8, <2>1, <2>2, SyncOn DEF RolesInv
<1>11. Covered'
  <2>1. \A n \in ToSet(PERM_GROUP) : Awaited("permission", n)'
    BY <1>2, <1>4, <1>5 DEF Awaited
  <2>2. ~Synced' /\ \A d \in Callers : ~SyncsRoles(d)'
    BY <1>4, <1>5, <1>6, <1>8, <1>9 DEF Synced, SyncsRoles
  <2>3. QED BY <2>1, <2>2 DEF Covered
<1>12. StoredOnce' BY <1>4, <1>5, <1>1, <1>7 DEF SyncsRoles, StoredOnce, RolesInv, Once
<1>13. DemoInv' BY <1>1, <1>7, <1>8, DemoSpared
<1>14. QED BY <1>7, <1>10, <1>11, <1>12, <1>13 DEF RolesInv

\* What is found is stored under the name that is next, or the name is not stored.
LEMMA FindStep ==
  ASSUME StartInv, RolesInv, DemoInv, NEW s \in Syncers, NEW t \in Types, FindOne(s, t)
  PROVE  RolesInv' /\ DemoInv'
<1> DEFINE e == sync[s]
           f == FindOneBy(roles.rows[t], Head(e.left))
           new == [e EXCEPT !.found = f]
<1>1. /\ e # None /\ e.of = t /\ roles' = roles /\ UNCHANGED <<vars, demo, past>>
      /\ sync' = [sync EXCEPT ![s].found = f]
  BY DEF FindOne
<1>2. sync \in [Syncers -> {None} \cup Syncing] /\ e \in Syncing /\ ~env.isTypeormMode
      /\ SyncOf(s, e, roles.rows)
  BY <1>1 DEF RolesInv, SyncTypes
<1>3. \/ \E r \in roles.rows[t] : f = {r} /\ r.name = Head(e.left)
      \/ f = {} /\ \A r \in roles.rows[t] : r.name # Head(e.left)
  BY FoundIs DEF RolesInv, RolesTypes
<1>4. roles.rows[t] \subseteq Row BY DEF RolesInv, RolesTypes
<1> HIDE DEF f
<1>5. f \in SUBSET [id : Nat, name : AllNames] BY <1>3, <1>4 DEF Row
<1>6. new \in Syncing /\ new.of = e.of /\ new.left = e.left /\ new.for = e.for /\ new.found = f
  BY <1>2, <1>5 DEF Syncing
<1>7. new # None BY <1>6, NoneIsNoValue
<1>8. sync' = [sync EXCEPT ![s] = new] BY <1>1, <1>2
<1> HIDE DEF new
<1>9. sync' \in [Syncers -> {None} \cup Syncing] /\ sync'[s] = new /\ \A x \in Syncers : x # s => sync'[x] = sync[x]
  BY <1>2, <1>6, <1>8
<1>10. UNCHANGED <<env, run, booted>> /\ Callers \subseteq Syncers BY <1>1 DEF vars, Syncers
<1>11. SyncTypes'
  <2>1. SyncOf(s, new, roles'.rows) BY <1>1, <1>2, <1>3, <1>6 DEF SyncOf
  <2>2. \A d \in Callers : sync'[d] # None => run'[d] = 3
    BY <1>1, <1>9, <1>10 DEF RolesInv, SyncTypes
  <2>3. \A u \in Types : roles.rows[u] \subseteq roles'.rows[u] BY <1>1
  <2>4. QED BY <1>2, <1>7, <1>9, <1>10, <2>1, <2>2, <2>3, SyncOn DEF RolesInv
<1>12. \A x \in Syncers : sync'[x] # None <=> sync[x] # None BY <1>1, <1>7, <1>9
<1>13. \A x \in Syncers : sync[x] # None => sync'[x].of = sync[x].of /\ sync'[x].left = sync[x].left
  BY <1>6, <1>9
<1>14. \A x \in Syncers : SyncsRoles(x)' <=> SyncsRoles(x) BY <1>12, <1>13 DEF SyncsRoles
<1>15. Covered'
  <2>1. \A u, n : Awaited(u, n) => Awaited(u, n)' BY <1>1, <1>10, <1>12, <1>13 DEF Awaited
  <2>2. Synced' = Synced BY <1>10 DEF Synced
  <2>3. QED BY <1>10, <1>12, <1>14, <2>1, <2>2 DEF Covered, RolesInv
<1>16. StoredOnce'
  <2>1. SyncsRoles(s) => t = "role" BY <1>1 DEF SyncsRoles
  <2>2. ASSUME NEW x \in Syncers, SyncsRoles(x), ~past.overlapped, sync'[x].found # None, sync'[x].found = {}
        PROVE  \A r \in roles.rows["role"] : r.name # Head(sync'[x].left)
    <3>1. CASE x = s BY <1>3, <1>6, <1>9, <2>1, <2>2, <3>1
    <3>2. CASE x # s BY <1>9, <2>2, <3>2 DEF RolesInv, StoredOnce
    <3>3. QED BY <3>1, <3>2
  <2>3. QED BY <1>1, <1>14, <2>2 DEF RolesInv, StoredOnce, Once
<1>17. DemoInv' BY <1>1, <1>10, DemoSpared
<1>18. QED BY <1>1, <1>11, <1>15, <1>16, <1>17 DEF RolesInv

\* What is stored with the name that is next.
LEMMA StoreIs ==
  ASSUME RolesInv, NEW s \in Syncers, sync[s] # None, sync[s].found # None
  PROVE  LET e == sync[s]
         IN  /\ ~env.isTypeormMode /\ sync \in [Syncers -> {None} \cup Syncing]
             /\ e \in Syncing /\ e.of \in Types /\ SyncOf(s, e, roles.rows) /\ Head(e.left) \in AllNames
             /\ RolesTypes(Pushed(s)) /\ Grows(roles, Pushed(s), e.of, Head(e.left), e.found)
             /\ e.left \in Seq(AllNames) /\ Tail(e.left) \in Seq(AllNames)
             /\ ToSet(e.left) = {Head(e.left)} \cup ToSet(Tail(e.left))
             /\ Len(e.left) > 1 => Tail(e.left) # <<>>
             /\ ~(Len(e.left) > 1) => ToSet(e.left) = {Head(e.left)}
<1> DEFINE e == sync[s]
           names == e.left
           n == Head(names)
           t == e.of
<1>1. ~env.isTypeormMode /\ sync \in [Syncers -> {None} \cup Syncing] /\ SyncOf(s, e, roles.rows)
  BY DEF RolesInv, SyncTypes
<1>2. e \in Syncing BY <1>1
<1>3. names \in Seq(AllNames) /\ names # <<>> /\ t \in Types
  BY <1>1, <1>2, NamesAre DEF Syncing, SyncOf
<1>4. \/ e.found = {}
      \/ \E r \in roles.rows[t] : e.found = {r} /\ r.name = n
  BY <1>1 DEF SyncOf
<1> HIDE DEF names
<1>5. /\ n \in AllNames /\ Tail(names) \in Seq(AllNames)
      /\ ToSet(names) = {n} \cup ToSet(Tail(names))
      /\ Len(names) > 1 => Tail(names) # <<>>
      /\ ~(Len(names) > 1) => ToSet(names) = {n}
  BY <1>3, LeftIs
<1>6. RolesTypes(roles) /\ sync[s].of = t /\ Head(sync[s].left) = n BY DEF RolesInv, names
<1> HIDE DEF n, t
<1>7. RolesTypes(Pushed(s)) /\ Grows(roles, Pushed(s), t, n, sync[s].found)
  BY <1>3, <1>4, <1>5, <1>6, PushedIs
<1>8. QED BY <1>1, <1>2, <1>3, <1>5, <1>7 DEF names, n, t

\* The synchronisation goes on with the name after.
LEMMA NextNameIs ==
  ASSUME NEW s \in Syncers, sync \in [Syncers -> {None} \cup Syncing], sync[s] \in Syncing,
         Tail(sync[s].left) \in Seq(AllNames), sync' = NextName(s)
  PROVE  /\ sync' \in [Syncers -> {None} \cup Syncing] /\ sync'[s] # None
         /\ sync'[s].of = sync[s].of /\ sync'[s].left = Tail(sync[s].left)
         /\ sync'[s].found = None /\ sync'[s].for = sync[s].for
         /\ \A x \in Syncers : x # s => sync'[x] = sync[x]
<1> DEFINE e == sync[s]
           names == Tail(e.left)
           new == [e EXCEPT !.left = names, !.found = None]
<1>1. sync' = [sync EXCEPT ![s] = new] BY DEF NextName
<1>2. names \in Seq(AllNames) OBVIOUS
<1> HIDE DEF names
<1>3. new \in Syncing /\ new.of = e.of /\ new.left = names /\ new.found = None /\ new.for = e.for
  BY <1>2 DEF Syncing
<1> HIDE DEF new
<1>4. new # None BY <1>3, NoneIsNoValue
<1>5. sync' \in [Syncers -> {None} \cup Syncing] /\ sync'[s] = new /\ \A x \in Syncers : x # s => sync'[x] = sync[x]
  BY <1>1, <1>3
<1>6. QED BY <1>3, <1>4, <1>5 DEF names

\* What SyncRoles begins.
Begin(role) == [of |-> "role", left |-> ROLES, found |-> None, for |-> role]

\* A synchronisation of roles at its beginning.
LEMMA BeginIs ==
  ASSUME NEW s \in Syncers, NEW role \in {None} \cup AppRoles, s = "request" => role \in AppRoles
  PROVE  /\ Begin(role) \in Syncing /\ Begin(role) # None
         /\ Begin(role).of = "role" /\ Begin(role).left = ROLES /\ Begin(role).found = None
         /\ \A rows : SyncOf(s, Begin(role), rows)
<1>1. Begin(role) \in Syncing BY NamesAre DEF Begin, Syncing, Types
<1>2. Begin(role).of = "role" /\ Begin(role).left = ROLES /\ Begin(role).found = None /\ Begin(role).for = role
  BY DEF Begin
<1>3. QED BY <1>1, <1>2, NamesAre, NoneIsNoValue DEF SyncOf

\* What SyncRoles leaves alone.
LEMMA SyncRolesIs ==
  ASSUME NEW s \in Syncers, NEW role, NEW stored, SyncRoles(s, role, stored), Past(past),
         sync \in [Syncers -> {None} \cup Syncing], Begin(role) \in Syncing
  PROVE  /\ roles' = Emptied(stored, "role")
         /\ sync' \in [Syncers -> {None} \cup Syncing] /\ sync'[s] = Begin(role)
         /\ \A x \in Syncers : x # s => sync'[x] = sync[x]
         /\ past'.scope = past.scope /\ past'.administered = past.administered
         /\ ~past'.overlapped => ~past.overlapped /\ \A x \in Syncers : ~SyncsRoles(x)
<1> DEFINE o == past.overlapped \/ \E r \in Syncers : SyncsRoles(r)
<1>1. roles' = Emptied(stored, "role") /\ sync' = [sync EXCEPT ![s] = Begin(role)]
      /\ past' = [past EXCEPT !.overlapped = o]
  BY DEF SyncRoles, Emptied, Begin
<1> HIDE DEF o
<1>2. past'.scope = past.scope /\ past'.administered = past.administered /\ past'.overlapped = o
  BY <1>1 DEF Past, Flags
<1>3. ~o => ~past.overlapped /\ \A x \in Syncers : ~SyncsRoles(x) BY DEF o
<1>4. QED BY <1>1, <1>2, <1>3

\* A permission is known; after the last one the roles begin.
LEMMA StorePermissionStep ==
  ASSUME StartInv, BundleInv, RolesInv, DemoInv, NEW c \in Callers, StorePermission(c)
  PROVE  RolesInv' /\ DemoInv'
<1> DEFINE e == sync[c]
           n == Head(e.left)
           q == Pushed(c)
<1>1. /\ e # None /\ e.of = "permission" /\ e.found # None /\ UNCHANGED <<vars, demo>>
      /\ IF Len(e.left) > 1
           THEN roles' = q /\ sync' = NextName(c) /\ past' = past
           ELSE SyncRoles(c, None, q)
  BY DEF StorePermission
<1>2. c \in Syncers /\ c # "request" /\ "permission" \in Types /\ "role" \in Types /\ Callers \subseteq Syncers
  BY DEF Syncers, Callers, Types
<1>3. /\ ~env.isTypeormMode /\ sync \in [Syncers -> {None} \cup Syncing] /\ e \in Syncing
      /\ SyncOf(c, e, roles.rows) /\ n \in AllNames
      /\ RolesTypes(q) /\ Grows(roles, q, "permission", n, e.found)
      /\ Tail(e.left) \in Seq(AllNames)
      /\ ToSet(e.left) = {n} \cup ToSet(Tail(e.left))
      /\ Len(e.left) > 1 => Tail(e.left) # <<>>
      /\ ~(Len(e.left) > 1) => ToSet(e.left) = {n}
  BY <1>1, <1>2, StoreIs
<1>4. UNCHANGED <<env, run, booted>> BY <1>1 DEF vars
<1>5. run[c] = 3 /\ ~Synced /\ \A d \in Callers : d # c => sync[d] = None
  BY <1>1, AloneSyncs DEF RolesInv, SyncTypes
<1>6. \A m \in ToSet(PERM_GROUP) : Known(roles, "permission", m) \/ m \in ToSet(e.left)
  BY <1>1, <1>3, <1>5 DEF RolesInv, Covered, Awaited
<1>7. \A m \in AllNames : Known(roles, "permission", m) \/ m = n => Known(q, "permission", m)
  BY <1>3 DEF Grows
<1>8. q.rows["role"] = roles.rows["role"] /\ \A u \in Types : roles.rows[u] \subseteq q.rows[u]
  BY <1>2, <1>3 DEF Grows
<1>9. \A m \in ToSet(PERM_GROUP) : m \in AllNames BY NamesAre
<1> HIDE DEF q, n
<1>10. CASE Len(e.left) > 1
  <2>1. roles' = q /\ sync' = NextName(c) /\ past' = past BY <1>1, <1>10
  <2>2. /\ sync' \in [Syncers -> {None} \cup Syncing] /\ sync'[c] # None
        /\ sync'[c].of = e.of /\ sync'[c].left = Tail(e.left) /\ sync'[c].found = None
        /\ \A x \in Syncers : x # c => sync'[x] = sync[x]
    BY <1>2, <1>3, <2>1, NextNameIs
  <2>3. SyncTypes'
    <3>1. SyncOf(c, sync'[c], roles'.rows) BY <1>2, <1>3, <1>10, <2>2 DEF SyncOf
    <3>2. \A d \in Callers : sync'[d] # None => run'[d] = 3 BY <1>2, <1>4, <1>5, <2>2
    <3>3. QED BY <1>2, <1>3, <1>4, <1>8, <2>1, <2>2, <3>1, <3>2, SyncOn DEF RolesInv
  <2>4. Covered'
    <3>1. \A m \in ToSet(PERM_GROUP) : Awaited("permission", m)'
      BY <1>1, <1>3, <1>6, <1>7, <1>9, <2>1, <2>2 DEF Awaited
    <3>2. ~Synced' /\ \A d \in Callers : ~SyncsRoles(d)'
      BY <1>1, <1>2, <1>4, <1>5, <2>2 DEF Synced, SyncsRoles
    <3>3. QED BY <3>1, <3>2 DEF Covered
  <2>5. StoredOnce' BY <1>1, <2>2, <1>8, <2>1 DEF SyncsRoles, StoredOnce, RolesInv, Once
  <2>6. DemoInv' BY <1>1, <1>4, <1>8, <2>1, DemoSpared
  <2>7. QED BY <1>3, <2>1, <2>3, <2>4, <2>5, <2>6 DEF RolesInv
<1>11. CASE ~(Len(e.left) > 1)
  <2>1. SyncRoles(c, None, q) /\ Past(past) BY <1>1, <1>11 DEF BundleInv, BundleTypes
  <2>2. /\ Begin(None) \in Syncing /\ Begin(None) # None
        /\ Begin(None).of = "role" /\ Begin(None).left = ROLES /\ Begin(None).found = None
        /\ \A rows : SyncOf(c, Begin(None), rows)
    BY <1>2, BeginIs
  <2>3. /\ roles' = Emptied(q, "role")
        /\ sync' \in [Syncers -> {None} \cup Syncing] /\ sync'[c] = Begin(None)
        /\ \A x \in Syncers : x # c => sync'[x] = sync[x]
        /\ past'.scope = past.scope /\ past'.administered = past.administered
        /\ ~past'.overlapped => ~past.overlapped /\ \A x \in Syncers : ~SyncsRoles(x)
    BY <1>2, <1>3, <2>1, <2>2, SyncRolesIs
  <2>4. RolesTypes(roles') /\ roles'.rows = q.rows /\ roles'.cache["permission"] = q.cache["permission"]
    BY <1>2, <1>3, <2>3, EmptiedIs
  <2>5. SyncTypes' BY <1>2, <1>4, <1>5, <2>3, <1>3, <1>8, <2>2, <2>4, SyncOn DEF RolesInv
  <2>6. Covered'
    <3>1. \A m \in ToSet(PERM_GROUP) : Known(roles', "permission", m)
      BY <1>3, <1>6, <1>7, <1>9, <1>11, <2>4 DEF Known
    <3>2. \A m \in ToSet(ROLES) : Awaited("role", m)' BY <2>2, <2>3 DEF Awaited
    <3>3. QED BY <3>1, <3>2 DEF Covered, Awaited
  <2>7. StoredOnce' BY <2>3, <1>8, <2>2, <2>4 DEF SyncsRoles, StoredOnce, RolesInv, Once
  <2>8. DemoInv' BY <1>1, <1>4, <1>8, <2>3, <2>4, DemoSpared
  <2>9. QED BY <2>4, <2>5, <2>6, <2>7, <2>8 DEF RolesInv
<1>12. QED BY <1>10, <1>11

\* While a role is stored nothing gets lost that was awaited.
LEMMA StillCovered ==
  ASSUME RolesInv, NEW s \in Syncers, SyncsRoles(s), env' = env,
         NEW names, ToSet(sync[s].left) = {Head(sync[s].left)} \cup names,
         \A m \in AllNames : Known(roles, "permission", m) => Known(roles', "permission", m),
         \A m \in AllNames : Known(roles, "role", m) \/ m = Head(sync[s].left) => Known(roles', "role", m),
         \A x \in Syncers : x # s => sync'[x] = sync[x],
         \/ sync'[s] = None /\ names = {}
         \/ sync'[s] # None /\ sync'[s].of = "role" /\ ToSet(sync'[s].left) = names,
         Synced' => Synced \/ s \in Callers
  PROVE  Covered'
<1>0. Callers \subseteq Syncers /\ sync[s] # None /\ sync[s].of = "role"
  BY DEF Syncers, SyncsRoles
<1>1. \A d \in Callers : sync'[d] # None => sync[d] # None BY <1>0
<1>2. \A d \in Callers : SyncsRoles(d)' => SyncsRoles(d) BY <1>0 DEF SyncsRoles
<1>3. \A m \in ToSet(PERM_GROUP) : Awaited("permission", m) => Awaited("permission", m)'
  <2> TAKE m \in ToSet(PERM_GROUP)
  <2>1. m \in AllNames BY NamesAre
  <2>2. CASE Known(roles, "permission", m) BY <2>1, <2>2 DEF Awaited
  <2>3. ASSUME NEW d \in Callers, sync[d] # None, sync[d].of = "permission", m \in ToSet(sync[d].left)
        PROVE  Awaited("permission", m)'
    <3>1. d # s BY <1>0, <2>3
    <3>2. sync'[d] = sync[d] BY <1>0, <3>1
    <3>3. QED BY <2>3, <3>2 DEF Awaited
  <2>4. QED BY <2>2, <2>3 DEF Awaited
<1>4. \A m \in ToSet(ROLES) : Awaited("role", m) => Awaited("role", m)'
  <2> TAKE m \in ToSet(ROLES)
  <2>1. m \in AllNames BY NamesAre
  <2>2. CASE Known(roles, "role", m) BY <2>1, <2>2 DEF Awaited
  <2>3. ASSUME NEW d \in Callers, sync[d] # None, sync[d].of = "role", m \in ToSet(sync[d].left)
        PROVE  Awaited("role", m)'
    <3>1. CASE d # s BY <1>0, <3>1, <2>3 DEF Awaited
    <3>2. CASE d = s
      <4>1. m = Head(sync[s].left) \/ m \in names BY <2>3, <3>2
      <4>2. CASE m = Head(sync[s].left) BY <2>1, <4>2 DEF Awaited
      <4>3. CASE m \in names BY <2>3, <3>2, <4>3 DEF Awaited
      <4>4. QED BY <4>1, <4>2, <4>3
    <3>3. QED BY <3>1, <3>2
  <2>4. QED BY <2>2, <2>3 DEF Awaited
<1>5. s \in Callers => (\E c \in Callers : sync[c] # None) /\ \E c \in Callers : SyncsRoles(c)
  BY <1>0
<1>6. QED BY <1>1, <1>2, <1>3, <1>4, <1>5 DEF RolesInv, Covered

\* A name that was not found is stored, and is stored once.
LEMMA StillOnce ==
  ASSUME RolesInv, NEW s \in Syncers, SyncsRoles(s), sync[s].found # None,
         NEW q, Grows(roles, q, "role", Head(sync[s].left), sync[s].found),
         roles'.rows = q.rows, past'.overlapped = past.overlapped,
         \A x \in Syncers : x # s => sync'[x] = sync[x],
         sync'[s] # None => sync'[s].found = None
  PROVE  StoredOnce'
<1>1. SUFFICES ASSUME ~past.overlapped PROVE
         /\ Once(roles')
         /\ \A x, y \in Syncers : SyncsRoles(x)' /\ SyncsRoles(y)' => x = y
         /\ \A x \in Syncers : SyncsRoles(x)' /\ sync'[x].found # None /\ sync'[x].found = {} =>
              \A r \in roles'.rows["role"] : r.name # Head(sync'[x].left)
  BY DEF StoredOnce
<1>2. Once(roles) /\ \A x \in Syncers : SyncsRoles(x) => x = s
  BY <1>1 DEF RolesInv, StoredOnce
<1>3. \A x \in Syncers : SyncsRoles(x)' => x = s BY <1>2 DEF SyncsRoles
<1>4. Once(q)
  <2>1. CASE sync[s].found # {} BY <1>2, <2>1 DEF Grows, Once
  <2>2. CASE sync[s].found = {} BY <1>1, <2>2, <1>2 DEF RolesInv, StoredOnce, Grows, Once
  <2>3. QED BY <2>1, <2>2
<1>5. Once(roles') BY <1>4 DEF Once
<1>6. QED BY <1>3, <1>5 DEF SyncsRoles

\* A role is known; after the last one the step is done, or the user registered.
LEMMA StoreRoleStep ==
  ASSUME StartInv, BundleInv, RolesInv, DemoInv, NEW s \in Syncers, StoreRole(s)
  PROVE  RolesInv' /\ DemoInv'
<1> DEFINE e == sync[s]
           n == Head(e.left)
           q == Pushed(s)
           reg == Registered(e.for, q.cache["role"])
<1>1. /\ SyncsRoles(s) /\ e # None /\ e.of = "role" /\ e.found # None /\ demo' = demo /\ past' = past
      /\ IF Len(e.left) > 1
           THEN roles' = q /\ sync' = NextName(s) /\ UNCHANGED vars
           ELSE /\ sync' = [sync EXCEPT ![s] = None]
                /\ IF s = "request"
                     THEN roles' = [q EXCEPT !.user = reg] /\ UNCHANGED vars
                     ELSE roles' = q /\ StepDone(s)
  BY DEF StoreRole, SyncsRoles
<1>2. "permission" \in Types /\ "role" \in Types /\ Callers \subseteq Syncers /\ (s # "request" => s \in Callers)
  BY DEF Syncers, Types
<1>3. /\ ~env.isTypeormMode /\ sync \in [Syncers -> {None} \cup Syncing] /\ e \in Syncing
      /\ SyncOf(s, e, roles.rows) /\ n \in AllNames
      /\ RolesTypes(q) /\ Grows(roles, q, "role", n, e.found)
      /\ Tail(e.left) \in Seq(AllNames)
      /\ ToSet(e.left) = {n} \cup ToSet(Tail(e.left))
      /\ Len(e.left) > 1 => Tail(e.left) # <<>>
      /\ ~(Len(e.left) > 1) => ToSet(e.left) = {n}
  BY <1>1, StoreIs
<1>4. /\ \A m \in AllNames : Known(roles, "permission", m) => Known(q, "permission", m)
      /\ \A m \in AllNames : Known(roles, "role", m) \/ m = n => Known(q, "role", m)
      /\ \A u \in Types : roles.rows[u] \subseteq q.rows[u]
  BY <1>2, <1>3 DEF Grows, Known
<1>5. s \in Callers => run[s] = 3 BY <1>1 DEF RolesInv, SyncTypes
<1>6. run \in [Callers -> 0..LastStep] BY Alone
<1>7. /\ env' = env /\ booted' = booted
      /\ run' = run \/ (s \in Callers /\ ~(Len(e.left) > 1) /\ run' = [run EXCEPT ![s] = 4])
  <2>1. CASE UNCHANGED vars BY <2>1 DEF vars
  <2>2. CASE ~(Len(e.left) > 1) /\ s # "request" /\ StepDone(s)
    BY <1>2, <1>5, <2>2 DEF StepDone, LastStep
  <2>3. QED BY <1>1, <2>1, <2>2
<1> HIDE DEF q, n
<1>8. RolesTypes(roles') /\ roles'.rows = q.rows /\ roles'.cache = q.cache
  <2>1. CASE roles' = q BY <1>3, <2>1
  <2>2. CASE s = "request" /\ roles' = [q EXCEPT !.user = reg]
    <3>1. e.for \in AppRoles BY <1>3, <2>2 DEF SyncOf
    <3> DEFINE f == e.for
    <3>2. f \in AppRoles /\ reg = Registered(f, q.cache["role"]) BY <3>1
    <3> HIDE DEF f
    <3>3. reg \in {None} \cup [name : AppRoles, id : Nat] /\ (reg # None => IsRole(q, reg.id, reg.name))
      BY <1>3, <3>2, RegisteredIs
    <3> HIDE DEF reg
    <3>4. /\ q \in [rows : [Types -> SUBSET Row], cache : [Types -> Seq(Row)],
                    user : {None} \cup [name : AppRoles, id : Nat]]
      BY <1>3 DEF RolesTypes
    <3>5. /\ roles' \in [rows : [Types -> SUBSET Row], cache : [Types -> Seq(Row)],
                    user : {None} \cup [name : AppRoles, id : Nat]]
          /\ roles'.rows = q.rows /\ roles'.cache = q.cache /\ roles'.user = reg
      BY <2>2, <3>3, <3>4
    <3>6. QED BY <1>3, <3>3, <3>5 DEF RolesTypes, IsRole
  <2>3. QED BY <1>1, <2>1, <2>2
<1> HIDE DEF reg
<1>9. /\ sync' \in [Syncers -> {None} \cup Syncing]
      /\ \A x \in Syncers : x # s => sync'[x] = sync[x]
      /\ sync'[s] # None => sync'[s].found = None /\ SyncOf(s, sync'[s], roles'.rows)
  <2>1. CASE Len(e.left) > 1 BY <1>1, <1>3, <2>1, NextNameIs DEF SyncOf
  <2>2. CASE ~(Len(e.left) > 1) BY <1>1, <1>3, <2>2
  <2>3. QED BY <2>1, <2>2
<1>10. SyncTypes'
  <2>1. \A d \in Callers : sync'[d] # None => run'[d] = 3
    <3>1. ASSUME NEW d \in Callers, sync'[d] # None PROVE run'[d] = 3
      <4>1. sync[d] # None BY <1>1, <1>2, <1>9, <3>1
      <4>2. run[d] = 3 BY <4>1 DEF RolesInv, SyncTypes
      <4>3. CASE run' = run BY <4>2, <4>3
      <4>4. CASE ~(Len(e.left) > 1) /\ run' = [run EXCEPT ![s] = 4]
        BY <1>1, <1>3, <3>1, <4>4, <1>6, <4>2
      <4>5. QED BY <1>7, <4>3, <4>4
    <3>2. QED BY <3>1
  <2>2. \A u \in Types : roles.rows[u] \subseteq roles'.rows[u] BY <1>4, <1>8
  <2>3. QED BY <1>3, <1>7, <1>9, <2>1, <2>2, SyncOn DEF RolesInv
<1>11. Covered'
  <2> DEFINE rest == IF Len(e.left) > 1 THEN ToSet(Tail(e.left)) ELSE {}
  <2>1. ToSet(sync[s].left) = {Head(sync[s].left)} \cup rest BY <1>3 DEF n
  <2>2. \/ sync'[s] = None /\ rest = {}
        \/ sync'[s] # None /\ sync'[s].of = "role" /\ ToSet(sync'[s].left) = rest
    <3>1. CASE Len(e.left) > 1 BY <1>1, <1>3, <3>1, NextNameIs
    <3>2. CASE ~(Len(e.left) > 1) BY <1>1, <1>3, <3>2
    <3>3. QED BY <3>1, <3>2
  <2>3. /\ \A m \in AllNames : Known(roles, "permission", m) => Known(roles', "permission", m)
        /\ \A m \in AllNames : Known(roles, "role", m) \/ m = Head(sync[s].left) => Known(roles', "role", m)
    BY <1>4, <1>8 DEF Known, n
  <2>4. Synced' => Synced \/ s \in Callers BY <1>7 DEF Synced
  <2> HIDE DEF rest
  <2>5. QED BY <1>1, <1>7, <1>9, <2>1, <2>2, <2>3, <2>4, StillCovered
<1>12. StoredOnce' BY <1>3, <1>1, <1>8, <1>9, StillOnce DEF n
<1>13. DemoInv'
  <2>1. roles.rows["role"] \subseteq roles'.rows["role"] BY <1>2, <1>4, <1>8
  <2>2. run' = run \/ \E c \in Callers : run[c] = 3 /\ run' = [run EXCEPT ![c] = 4]
    BY <1>5, <1>7
  <2>3. QED BY <1>1, <1>7, <2>1, <2>2, DemoSpared
<1>14. QED BY <1>8, <1>10, <1>11, <1>12, <1>13 DEF RolesInv

\* A request registers a user, or begins another synchronisation.
LEMMA AskRoleStep ==
  ASSUME StartInv, BundleInv, RolesInv, DemoInv, NEW name \in AppRoles, AskRole(name)
  PROVE  RolesInv' /\ DemoInv'
<1>1. /\ UNCHANGED <<vars, demo>> /\ ~env.isTypeormMode /\ sync["request"] = None
      /\ \/ roles.cache["role"] = <<>> /\ SyncRoles("request", name, roles)
         \/ roles' = [roles EXCEPT !.user = Registered(name, roles.cache["role"])] /\ UNCHANGED <<sync, past>>
  BY DEF AskRole
<1>2. UNCHANGED <<env, run, booted>> BY <1>1 DEF vars
<1>3. RolesTypes(roles) /\ "request" \in Syncers /\ "request" \notin Callers /\ Callers \subseteq Syncers
      /\ "role" \in Types /\ Past(past) /\ sync \in [Syncers -> {None} \cup Syncing]
  BY DEF RolesInv, Syncers, Callers, Types, BundleInv, BundleTypes, SyncTypes
<1>4. CASE roles.cache["role"] = <<>> /\ SyncRoles("request", name, roles)
  <2>1. /\ Begin(name) \in Syncing /\ Begin(name) # None
        /\ Begin(name).of = "role" /\ Begin(name).left = ROLES /\ Begin(name).found = None
        /\ \A rows : SyncOf("request", Begin(name), rows)
    BY <1>3, BeginIs
  <2>2. /\ roles' = Emptied(roles, "role")
        /\ sync' \in [Syncers -> {None} \cup Syncing] /\ sync'["request"] = Begin(name)
        /\ \A x \in Syncers : x # "request" => sync'[x] = sync[x]
        /\ past'.scope = past.scope /\ past'.administered = past.administered
        /\ ~past'.overlapped => ~past.overlapped /\ \A x \in Syncers : ~SyncsRoles(x)
    BY <1>3, <1>4, <2>1, SyncRolesIs
  <2>3. /\ RolesTypes(roles') /\ roles'.rows = roles.rows
        /\ \A u \in Types : roles'.cache[u] = roles.cache[u]
    BY <1>3, <1>4, <2>2, EmptiedIs
  <2>4. SyncTypes' BY <1>2, <1>3, <2>2, <1>1, <2>1, <2>3, SyncOn DEF RolesInv, SyncTypes
  <2>5. Covered'
    <3>1. \A d \in Callers : sync'[d] = sync[d] BY <1>3, <2>2
    <3>2. \A u \in Types, m \in AllNames : Awaited(u, m) => Awaited(u, m)'
      BY <2>3, <3>1 DEF Awaited, Known
    <3>3. Synced' = Synced /\ \A d \in Callers : SyncsRoles(d)' = SyncsRoles(d)
      BY <1>2, <3>1 DEF Synced, SyncsRoles
    <3>4. \A m \in ToSet(ROLES) \cup ToSet(PERM_GROUP) : m \in AllNames BY NamesAre
    <3>5. "permission" \in Types BY DEF Types
    <3>6. QED BY <1>2, <1>3, <3>1, <3>2, <3>3, <3>4, <3>5 DEF Covered, RolesInv
  <2>6. StoredOnce' BY <2>2, <2>1, <2>3 DEF SyncsRoles, StoredOnce, RolesInv, Once
  <2>7. DemoInv' BY <1>1, <1>2, <2>2, <2>3, DemoSpared
  <2>8. QED BY <2>3, <2>4, <2>5, <2>6, <2>7 DEF RolesInv
<1>5. CASE roles' = [roles EXCEPT !.user = Registered(name, roles.cache["role"])] /\ UNCHANGED <<sync, past>>
  <2> DEFINE reg == Registered(name, roles.cache["role"])
  <2>1. reg \in {None} \cup [name : AppRoles, id : Nat] /\ (reg # None => IsRole(roles, reg.id, reg.name))
    BY <1>3, RegisteredIs
  <2>2. roles' = [roles EXCEPT !.user = reg] BY <1>5
  <2> HIDE DEF reg
  <2>3. roles \in [rows : [Types -> SUBSET Row], cache : [Types -> Seq(Row)],
                    user : {None} \cup [name : AppRoles, id : Nat]]
    BY <1>3 DEF RolesTypes
  <2>4. /\ roles' \in [rows : [Types -> SUBSET Row], cache : [Types -> Seq(Row)],
                    user : {None} \cup [name : AppRoles, id : Nat]]
        /\ roles'.rows = roles.rows /\ roles'.cache = roles.cache /\ roles'.user = reg
    BY <2>1, <2>2, <2>3
  <2>5. RolesTypes(roles') BY <1>3, <2>1, <2>4 DEF RolesTypes, IsRole
  <2>6. SyncTypes' BY <1>2, <1>5, <2>4 DEF RolesInv, SyncTypes
  <2>7. Covered'
    BY <1>5, <2>4, <1>2 DEF Awaited, Known, RolesInv, Covered, Synced, SyncsRoles
  <2>8. StoredOnce' BY <1>5, <2>4 DEF RolesInv, StoredOnce, Once, SyncsRoles
  <2>9. DemoInv' BY <1>1, <1>2, <1>5, <2>4, DemoSpared
  <2>10. QED BY <2>5, <2>6, <2>7, <2>8, <2>9 DEF RolesInv
<1>6. QED BY <1>1, <1>4, <1>5

---------------------------------------------------------------------------
(* The steps of the demo account                                           *)

\* No commands are left.
LEMMA NoneLeft == ToSet(<<>>) = {} /\ <<>> \in Seq(CommandNames) /\ Ordered(<<>>)
BY DEF ToSet, Ordered

\* What is listed, of two lists.
LEMMA BothListed ==
  ASSUME NEW S, NEW e \in Seq(S), NEW f \in Seq(S), e # <<>>
  PROVE  /\ e \o f \in Seq(S) /\ ToSet(e \o f) = ToSet(e) \cup ToSet(f) /\ e \o f # <<>>
         /\ Head(e \o f) = Head(e) /\ ToSet(Tail(e \o f)) = ToSet(Tail(e)) \cup ToSet(f)
         /\ Len(e) = 1 => Tail(e \o f) = f
<1> DEFINE g == e \o f
<1>1. Len(e) \in Nat \ {0} /\ Len(f) \in Nat /\ DOMAIN e = 1..Len(e) /\ DOMAIN f = 1..Len(f)
  OBVIOUS
<1>2. /\ g \in Seq(S) /\ Len(g) = Len(e) + Len(f)
      /\ \A i \in 1..Len(g) : g[i] = IF i <= Len(e) THEN e[i] ELSE f[i - Len(e)]
  BY ConcatProperties
<1>3. Tail(g) \in Seq(S) /\ Len(Tail(g)) = Len(g) - 1 /\ \A i \in 1..(Len(g) - 1) : Tail(g)[i] = g[i + 1]
  <2> HIDE DEF g
  <2>1. Len(g) > 0 /\ g \in Seq(S) BY <1>1, <1>2
  <2>2. QED BY <2>1
<1>4. Tail(e) \in Seq(S) /\ Len(Tail(e)) = Len(e) - 1 /\ \A i \in 1..(Len(e) - 1) : Tail(e)[i] = e[i + 1]
  BY <1>1
<1> DEFINE tg == Tail(g)
           te == Tail(e)
           m == Len(e)
           k == Len(f)
<1>5. DOMAIN g = 1..(m + k) /\ DOMAIN tg = 1..(m + k - 1) /\ DOMAIN te = 1..(m - 1)
  BY <1>1, <1>2, <1>3, <1>4
<1>6. g # <<>> /\ Head(g) = Head(e) BY <1>1, <1>2
<1>7. /\ \A i \in 1..m : g[i] = e[i]
      /\ \A i \in 1..k : i + m \in 1..(m + k) /\ g[i + m] = f[i]
      /\ \A i \in 1..(m + k) : i \in 1..m \/ (i - m \in 1..k /\ g[i] = f[i - m])
  BY <1>1, <1>2
<1>8. /\ \A i \in 1..(m - 1) : tg[i] = te[i] /\ i \in 1..(m + k - 1)
      /\ \A i \in 1..k : i + m - 1 \in 1..(m + k - 1) /\ tg[i + m - 1] = f[i]
      /\ \A i \in 1..(m + k - 1) : i \in 1..(m - 1) \/ (i - m + 1 \in 1..k /\ tg[i] = f[i - m + 1])
  BY <1>1, <1>2, <1>3, <1>4, <1>7
<1>9. m \in Nat \ {0} /\ k \in Nat /\ DOMAIN e = 1..m /\ DOMAIN f = 1..k /\ g \in Seq(S) /\ f \in Seq(S)
      /\ tg \in Seq(S) /\ Len(tg) = m + k - 1 /\ Len(f) = k
  BY <1>1, <1>2, <1>3
<1> HIDE DEF g, tg, te, m, k
<1>10. ToSet(g) = ToSet(e) \cup ToSet(f)
  <2>1. \A i \in DOMAIN g : (i \in DOMAIN e /\ g[i] = e[i]) \/ (\E j \in DOMAIN f : g[i] = f[j])
    BY <1>5, <1>7, <1>9
  <2>2. \A i \in DOMAIN e : i \in DOMAIN g /\ g[i] = e[i] BY <1>5, <1>7, <1>9
  <2>3. \A j \in DOMAIN f : \E i \in DOMAIN g : g[i] = f[j] BY <1>5, <1>7, <1>9
  <2>4. /\ ToSet(g) = {g[i] : i \in DOMAIN g} /\ ToSet(e) = {e[i] : i \in DOMAIN e}
        /\ ToSet(f) = {f[i] : i \in DOMAIN f}
    BY DEF ToSet
  <2>5. QED BY <2>1, <2>2, <2>3, <2>4
<1>11. ToSet(tg) = ToSet(te) \cup ToSet(f)
  <2>1. \A i \in DOMAIN tg : (i \in DOMAIN te /\ tg[i] = te[i]) \/ (\E j \in DOMAIN f : tg[i] = f[j])
    BY <1>5, <1>8, <1>9
  <2>2. \A i \in DOMAIN te : i \in DOMAIN tg /\ tg[i] = te[i] BY <1>5, <1>8, <1>9
  <2>3. \A j \in DOMAIN f : \E i \in DOMAIN tg : tg[i] = f[j] BY <1>5, <1>8, <1>9
  <2>4. /\ ToSet(tg) = {tg[i] : i \in DOMAIN tg} /\ ToSet(te) = {te[i] : i \in DOMAIN te}
        /\ ToSet(f) = {f[i] : i \in DOMAIN f}
    BY DEF ToSet
  <2>5. QED BY <2>1, <2>2, <2>3, <2>4
<1>12. m = 1 => tg = f
  <2>1. SUFFICES ASSUME m = 1 PROVE tg = f OBVIOUS
  <2>2. \A i \in 1..k : tg[i] = f[i] BY <1>8, <1>9, <2>1
  <2>3. Len(tg) = Len(f) BY <1>9, <2>1
  <2>4. QED BY <1>9, <2>2, <2>3, SeqEqual
<1>13. QED BY <1>6, <1>9, <1>10, <1>11, <1>12 DEF g, tg, te, m, k

\* The commands that change the account.
LEMMA CommandsAre ==
  ASSUME NEW orm \in BOOLEAN, NEW accounts
  PROVE  LET cs == Commands(orm, accounts)
         IN  /\ cs \in Seq(CommandNames) /\ cs # <<>> /\ Ordered(cs)
             /\ accounts = {} => Registers(cs)
             /\ accounts # {} =>
                  /\ {"setVerified", "setIsRootUser", "updatePassword"} \subseteq ToSet(cs)
                  /\ "setUserRoles" \in ToSet(cs) \/ {"deleteUserRoles", "createUserRoles"} \subseteq ToSet(cs)
<1> DEFINE all == <<"setVerified", "setIsRootUser", "updatePassword">>
           orms == <<"ormRegister">>
           one == <<"register">>
           both == <<"deleteUserRoles", "createUserRoles">>
           set == <<"setUserRoles">>
           none == <<>>
<1>1. /\ all \in Seq(CommandNames) /\ orms \in Seq(CommandNames) /\ one \in Seq(CommandNames)
      /\ both \in Seq(CommandNames) /\ set \in Seq(CommandNames) /\ none \in Seq(CommandNames)
  BY DEF CommandNames
<1>2. /\ all # <<>> /\ orms # <<>> /\ one # <<>> /\ Len(orms) = 1 /\ Len(one) = 1
      /\ Head(orms) = "ormRegister" /\ Head(one) = "register"
      /\ Head(all) = "setVerified"
  OBVIOUS
<1>3. /\ ToSet(all) = {"setVerified", "setIsRootUser", "updatePassword"}
      /\ ToSet(orms) = {"ormRegister"} /\ ToSet(one) = {"register"}
      /\ ToSet(both) = {"deleteUserRoles", "createUserRoles"} /\ ToSet(set) = {"setUserRoles"}
      /\ ToSet(none) = {}
  BY DEF ToSet
<1>4. ToSet(Tail(all)) \subseteq ToSet(all) BY <1>1, <1>2, LeftIs
<1>5. Commands(orm, accounts) =
        IF accounts # {} THEN (IF orm THEN all \o both ELSE all \o set)
        ELSE IF orm THEN orms \o both ELSE one \o none
  BY DEF Commands
<1> HIDE DEF all, orms, one, both, set, none
<1>6. CASE accounts # {}
  <2> DEFINE last == IF orm THEN both ELSE set
             cs == all \o last
  <2>1. last \in Seq(CommandNames) /\ Commands(orm, accounts) = all \o last
    BY <1>1, <1>5, <1>6
  <2>2. "setUserRoles" \in ToSet(last) \/ {"deleteUserRoles", "createUserRoles"} \subseteq ToSet(last)
    BY <1>3
  <2>3. "register" \notin ToSet(last) /\ "ormRegister" \notin ToSet(last) BY <1>3
  <2> HIDE DEF last
  <2>4. /\ cs \in Seq(CommandNames) /\ ToSet(cs) = ToSet(all) \cup ToSet(last) /\ cs # <<>>
        /\ ToSet(Tail(cs)) = ToSet(Tail(all)) \cup ToSet(last)
    <3>1. all \in Seq(CommandNames) /\ last \in Seq(CommandNames) /\ all # <<>>
      BY <1>1, <1>2, <2>1
    <3> HIDE DEF CommandNames
    <3>2. QED BY <3>1, BothListed
  <2> HIDE DEF cs
  <2>5. Ordered(cs) BY <1>3, <1>4, <2>3, <2>4 DEF Ordered, Registers
  <2>6. Commands(orm, accounts) = cs BY <2>1 DEF cs
  <2>7. QED BY <1>3, <1>6, <2>2, <2>4, <2>5, <2>6
<1>7. CASE accounts = {}
  <2> DEFINE first == IF orm THEN orms ELSE one
             last == IF orm THEN both ELSE none
             cs == first \o last
  <2>1. first \in Seq(CommandNames) /\ last \in Seq(CommandNames) /\ first # <<>> /\ Len(first) = 1
        /\ Commands(orm, accounts) = first \o last
    BY <1>1, <1>2, <1>5, <1>7
  <2>2. \/ Head(first) = "register" /\ last = <<>> /\ ToSet(first) = {"register"}
        \/ Head(first) = "ormRegister" /\ "createUserRoles" \in ToSet(last) /\ ToSet(first) = {"ormRegister"}
    BY <1>2, <1>3 DEF none
  <2>3. "register" \notin ToSet(last) /\ "ormRegister" \notin ToSet(last) BY <1>3
  <2> HIDE DEF first, last
  <2>4. /\ cs \in Seq(CommandNames) /\ ToSet(cs) = ToSet(first) \cup ToSet(last) /\ cs # <<>>
        /\ Head(cs) = Head(first) /\ Tail(cs) = last
    BY <2>1, BothListed
  <2> HIDE DEF cs
  <2>5. Ordered(cs) /\ Registers(cs) BY <2>2, <2>3, <2>4 DEF Ordered, Registers
  <2>6. Commands(orm, accounts) = cs BY <2>1 DEF cs
  <2>7. QED BY <1>7, <2>4, <2>5, <2>6
<1>8. QED BY <1>6, <1>7

\* A command makes of the account what the rest of the commands relies on.
LEMMA PerformedIs ==
  ASSUME NEW accounts \in SUBSET DemoAccounts, NEW role \in AppRoles, NEW id \in Nat,
         NEW cs \in Seq(CommandNames), cs # <<>>, Ordered(cs)
  PROVE  /\ Performed(Head(cs), accounts, role, id) \in SUBSET DemoAccounts
         /\ Tail(cs) \in Seq(CommandNames) /\ Ordered(Tail(cs))
         /\ Done(accounts, role, cs, id) => Done(Performed(Head(cs), accounts, role, id), role, Tail(cs), id)
<1> DEFINE n == Head(cs)
           rest == Tail(cs)
           p == Performed(n, accounts, role, id)
<1>1. n \in CommandNames /\ rest \in Seq(CommandNames) /\ ToSet(cs) = {n} \cup ToSet(rest)
  BY LeftIs
<1>2. /\ "register" \in ToSet(cs) => n = "register"
      /\ "ormRegister" \in ToSet(cs) => n = "ormRegister" /\ "createUserRoles" \in ToSet(rest)
      /\ ~Registers(rest)
  BY DEF Ordered
<1>3. Ordered(rest)
  <2>1. rest # <<>> => ToSet(Tail(rest)) \subseteq ToSet(rest)
    <3> HIDE DEF rest
    <3>1. QED BY <1>1, LeftIs
  <2> HIDE DEF rest
  <2>2. QED BY <1>2, <2>1 DEF Ordered, Registers
<1> HIDE DEF n, rest
<1>4. CASE n = "register"
  <2>1. p = {NewAccount(role, {id})} BY <1>4 DEF Performed, Register
  <2>2. p \in SUBSET DemoAccounts BY <2>1 DEF NewAccount, DemoAccounts, Account
  <2>3. Done(p, role, rest, id) BY <2>1 DEF Done, NewAccount
  <2>4. QED BY <1>1, <1>3, <2>2, <2>3 DEF n, rest
<1>5. CASE n = "ormRegister"
  <2>1. p = {NewAccount(role, {})} BY <1>5 DEF Performed, OrmRegister
  <2>2. p \in SUBSET DemoAccounts BY <2>1 DEF NewAccount, DemoAccounts, Account
  <2>3. "createUserRoles" \in ToSet(rest) BY <1>1, <1>2, <1>5
  <2>4. Done(p, role, rest, id) BY <2>1, <2>3 DEF Done, NewAccount
  <2>5. QED BY <1>1, <1>3, <2>2, <2>4 DEF n, rest
<1>6. ASSUME n # "register", n # "ormRegister",
             NEW F, p = {F[a] : a \in accounts},
             \A a \in accounts :
               /\ F[a] \in DemoAccounts
               /\ F[a].isVerified = (n = "setVerified" \/ a.isVerified)
               /\ F[a].isRootUser = (n # "setIsRootUser" /\ a.isRootUser)
               /\ F[a].password = IF n = "updatePassword" THEN role ELSE a.password
               /\ F[a].roles = IF n = "setUserRoles" THEN {id}
                               ELSE IF n = "deleteUserRoles" THEN a.roles \cap {id}
                               ELSE IF n = "createUserRoles" THEN a.roles \cup {id} ELSE a.roles
      PROVE  /\ p \in SUBSET DemoAccounts
             /\ Done(accounts, role, cs, id) => Done(p, role, rest, id)
  <2>1. p \in SUBSET DemoAccounts BY <1>6
  <2>2. SUFFICES ASSUME Done(accounts, role, cs, id) PROVE Done(p, role, rest, id) BY <2>1
  <2>3. ~Registers(cs) BY <1>2, <1>6 DEF Registers
  <2>4. accounts # {} /\ p # {} BY <1>6, <2>2, <2>3 DEF Done
  <2>5. ASSUME NEW a \in accounts
        PROVE  /\ "setVerified" \in ToSet(rest) \/ F[a].isVerified
               /\ "setIsRootUser" \in ToSet(rest) \/ ~F[a].isRootUser
               /\ "updatePassword" \in ToSet(rest) \/ F[a].password = role
               /\ "setUserRoles" \in ToSet(rest) \/ "deleteUserRoles" \in ToSet(rest) \/ F[a].roles \subseteq {id}
               /\ "setUserRoles" \in ToSet(rest) \/ "createUserRoles" \in ToSet(rest) \/ id \in F[a].roles
    <3>1. /\ "setVerified" \in ToSet(cs) \/ a.isVerified
          /\ "setIsRootUser" \in ToSet(cs) \/ ~a.isRootUser
          /\ "updatePassword" \in ToSet(cs) \/ a.password = role
          /\ "setUserRoles" \in ToSet(cs) \/ "deleteUserRoles" \in ToSet(cs) \/ a.roles \subseteq {id}
          /\ "setUserRoles" \in ToSet(cs) \/ "createUserRoles" \in ToSet(cs) \/ id \in a.roles
      BY <2>2, <2>3 DEF Done
    <3>2. \A m : m \in ToSet(cs) <=> m = n \/ m \in ToSet(rest) BY <1>1
    <3>3. "setVerified" \in ToSet(rest) \/ F[a].isVerified BY <1>6, <3>1, <3>2
    <3>4. "setIsRootUser" \in ToSet(rest) \/ ~F[a].isRootUser BY <1>6, <3>1, <3>2
    <3>5. "updatePassword" \in ToSet(rest) \/ F[a].password = role BY <1>6, <3>1, <3>2
    <3>6. "setUserRoles" \in ToSet(rest) \/ "deleteUserRoles" \in ToSet(rest) \/ F[a].roles \subseteq {id}
      <4>1. CASE n \in {"setUserRoles", "deleteUserRoles"} BY <1>6, <4>1
      <4>2. CASE n \notin {"setUserRoles", "deleteUserRoles"}
        <5>1. F[a].roles \subseteq a.roles \cup {id} BY <1>6, <4>2
        <5>2. QED BY <3>1, <3>2, <4>2, <5>1
      <4>3. QED BY <4>1, <4>2
    <3>7. "setUserRoles" \in ToSet(rest) \/ "createUserRoles" \in ToSet(rest) \/ id \in F[a].roles
      <4>1. CASE n \in {"setUserRoles", "createUserRoles"} BY <1>6, <4>1
      <4>2. CASE n \notin {"setUserRoles", "createUserRoles"}
        <5>1. id \in a.roles => id \in F[a].roles BY <1>6, <4>2
        <5>2. QED BY <3>1, <3>2, <4>2, <5>1
      <4>3. QED BY <4>1, <4>2
    <3>8. QED BY <3>3, <3>4, <3>5, <3>6, <3>7
  <2>6. QED BY <1>6, <2>4, <2>5 DEF Done
<1>7. \A a \in accounts : a \in Account(AppRoles, Nat) BY DEF DemoAccounts
<1>8. CASE n = "setVerified"
  <2> DEFINE F == [a \in accounts |-> [a EXCEPT !.isVerified = TRUE]]
  <2>1. p = {F[a] : a \in accounts} BY <1>8 DEF Performed, SetVerifiedById
  <2>2. \A a \in accounts :
          /\ F[a] \in DemoAccounts
          /\ F[a].isVerified = TRUE /\ F[a].isRootUser = a.isRootUser
          /\ F[a].password = a.password /\ F[a].roles = a.roles
    BY <1>7 DEF Account, DemoAccounts
  <2> HIDE DEF F
  <2>3. \A a \in accounts :
          /\ F[a] \in DemoAccounts
          /\ F[a].isVerified = (n = "setVerified" \/ a.isVerified)
          /\ F[a].isRootUser = (n # "setIsRootUser" /\ a.isRootUser)
          /\ F[a].password = IF n = "updatePassword" THEN role ELSE a.password
          /\ F[a].roles = IF n = "setUserRoles" THEN {id}
                          ELSE IF n = "deleteUserRoles" THEN a.roles \cap {id}
                          ELSE IF n = "createUserRoles" THEN a.roles \cup {id} ELSE a.roles
    BY <1>7, <1>8, <2>2 DEF Account
  <2>4. n # "register" /\ n # "ormRegister" BY <1>8
  <2>5. QED BY <1>1, <1>3, <1>6, <2>1, <2>3, <2>4 DEF n, rest
<1>9. CASE n = "setIsRootUser"
  <2> DEFINE F == [a \in accounts |-> [a EXCEPT !.isRootUser = FALSE]]
  <2>1. p = {F[a] : a \in accounts} BY <1>9 DEF Performed, SetIsRootUserById
  <2>2. \A a \in accounts :
          /\ F[a] \in DemoAccounts
          /\ F[a].isVerified = a.isVerified /\ F[a].isRootUser = FALSE
          /\ F[a].password = a.password /\ F[a].roles = a.roles
    BY <1>7 DEF Account, DemoAccounts
  <2> HIDE DEF F
  <2>3. \A a \in accounts :
          /\ F[a] \in DemoAccounts
          /\ F[a].isVerified = (n = "setVerified" \/ a.isVerified)
          /\ F[a].isRootUser = (n # "setIsRootUser" /\ a.isRootUser)
          /\ F[a].password = IF n = "updatePassword" THEN role ELSE a.password
          /\ F[a].roles = IF n = "setUserRoles" THEN {id}
                          ELSE IF n = "deleteUserRoles" THEN a.roles \cap {id}
                          ELSE IF n = "createUserRoles" THEN a.roles \cup {id} ELSE a.roles
    BY <1>7, <1>9, <2>2 DEF Account
  <2>4. n # "register" /\ n # "ormRegister" BY <1>9
  <2>5. QED BY <1>1, <1>3, <1>6, <2>1, <2>3, <2>4 DEF n, rest
<1>10. CASE n = "updatePassword"
  <2> DEFINE F == [a \in accounts |-> [a EXCEPT !.password = role]]
  <2>1. p = {F[a] : a \in accounts} BY <1>10 DEF Performed, UpdatePasswordUnsafe
  <2>2. \A a \in accounts :
          /\ F[a] \in DemoAccounts
          /\ F[a].isVerified = a.isVerified /\ F[a].isRootUser = a.isRootUser
          /\ F[a].password = role /\ F[a].roles = a.roles
    BY <1>7 DEF Account, DemoAccounts
  <2> HIDE DEF F
  <2>3. \A a \in accounts :
          /\ F[a] \in DemoAccounts
          /\ F[a].isVerified = (n = "setVerified" \/ a.isVerified)
          /\ F[a].isRootUser = (n # "setIsRootUser" /\ a.isRootUser)
          /\ F[a].password = IF n = "updatePassword" THEN role ELSE a.password
          /\ F[a].roles = IF n = "setUserRoles" THEN {id}
                          ELSE IF n = "deleteUserRoles" THEN a.roles \cap {id}
                          ELSE IF n = "createUserRoles" THEN a.roles \cup {id} ELSE a.roles
    BY <1>7, <1>10, <2>2 DEF Account
  <2>4. n # "register" /\ n # "ormRegister" BY <1>10
  <2>5. QED BY <1>1, <1>3, <1>6, <2>1, <2>3, <2>4 DEF n, rest
<1>11. CASE n = "setUserRoles"
  <2> DEFINE F == [a \in accounts |-> [a EXCEPT !.roles = {id}]]
  <2>1. p = {F[a] : a \in accounts} BY <1>11 DEF Performed, SetUserRoleIds
  <2>2. \A a \in accounts :
          /\ F[a] \in DemoAccounts
          /\ F[a].isVerified = a.isVerified /\ F[a].isRootUser = a.isRootUser
          /\ F[a].password = a.password /\ F[a].roles = {id}
    BY <1>7 DEF Account, DemoAccounts
  <2> HIDE DEF F
  <2>3. \A a \in accounts :
          /\ F[a] \in DemoAccounts
          /\ F[a].isVerified = (n = "setVerified" \/ a.isVerified)
          /\ F[a].isRootUser = (n # "setIsRootUser" /\ a.isRootUser)
          /\ F[a].password = IF n = "updatePassword" THEN role ELSE a.password
          /\ F[a].roles = IF n = "setUserRoles" THEN {id}
                          ELSE IF n = "deleteUserRoles" THEN a.roles \cap {id}
                          ELSE IF n = "createUserRoles" THEN a.roles \cup {id} ELSE a.roles
    BY <1>7, <1>11, <2>2 DEF Account
  <2>4. n # "register" /\ n # "ormRegister" BY <1>11
  <2>5. QED BY <1>1, <1>3, <1>6, <2>1, <2>3, <2>4 DEF n, rest
<1>12. CASE n = "deleteUserRoles"
  <2> DEFINE F == [a \in accounts |-> [a EXCEPT !.roles = @ \cap {id}]]
  <2>1. p = {F[a] : a \in accounts} BY <1>12 DEF Performed, DeleteUserRoles
  <2>2. \A a \in accounts :
          /\ F[a] \in DemoAccounts
          /\ F[a].isVerified = a.isVerified /\ F[a].isRootUser = a.isRootUser
          /\ F[a].password = a.password /\ F[a].roles = a.roles \cap {id}
    BY <1>7 DEF Account, DemoAccounts
  <2> HIDE DEF F
  <2>3. \A a \in accounts :
          /\ F[a] \in DemoAccounts
          /\ F[a].isVerified = (n = "setVerified" \/ a.isVerified)
          /\ F[a].isRootUser = (n # "setIsRootUser" /\ a.isRootUser)
          /\ F[a].password = IF n = "updatePassword" THEN role ELSE a.password
          /\ F[a].roles = IF n = "setUserRoles" THEN {id}
                          ELSE IF n = "deleteUserRoles" THEN a.roles \cap {id}
                          ELSE IF n = "createUserRoles" THEN a.roles \cup {id} ELSE a.roles
    BY <1>7, <1>12, <2>2 DEF Account
  <2>4. n # "register" /\ n # "ormRegister" BY <1>12
  <2>5. QED BY <1>1, <1>3, <1>6, <2>1, <2>3, <2>4 DEF n, rest
<1>13. CASE n = "createUserRoles"
  <2> DEFINE F == [a \in accounts |-> [a EXCEPT !.roles = @ \cup {id}]]
  <2>1. p = {F[a] : a \in accounts} BY <1>13 DEF Performed, CreateUserRoles
  <2>2. \A a \in accounts :
          /\ F[a] \in DemoAccounts
          /\ F[a].isVerified = a.isVerified /\ F[a].isRootUser = a.isRootUser
          /\ F[a].password = a.password /\ F[a].roles = a.roles \cup {id}
    BY <1>7 DEF Account, DemoAccounts
  <2> HIDE DEF F
  <2>3. \A a \in accounts :
          /\ F[a] \in DemoAccounts
          /\ F[a].isVerified = (n = "setVerified" \/ a.isVerified)
          /\ F[a].isRootUser = (n # "setIsRootUser" /\ a.isRootUser)
          /\ F[a].password = IF n = "updatePassword" THEN role ELSE a.password
          /\ F[a].roles = IF n = "setUserRoles" THEN {id}
                          ELSE IF n = "deleteUserRoles" THEN a.roles \cap {id}
                          ELSE IF n = "createUserRoles" THEN a.roles \cup {id} ELSE a.roles
    BY <1>7, <1>13, <2>2 DEF Account
  <2>4. n # "register" /\ n # "ormRegister" BY <1>13
  <2>5. QED BY <1>1, <1>3, <1>6, <2>1, <2>3, <2>4 DEF n, rest
<1>14. QED BY <1>1, <1>4, <1>5, <1>8, <1>9, <1>10, <1>11, <1>12, <1>13 DEF CommandNames

\* The steps of the demo account leave the roles alone.
LEMMA RolesRest ==
  ASSUME StartInv, RolesInv, NEW c \in Callers, InDemoMode(c),
         roles' = roles, sync' = sync, env' = env, past'.overlapped = past.overlapped,
         \A d \in Callers : d # c => run'[d] = run[d]
  PROVE  RolesInv'
<1>1. run[c] = 4 BY DEF InDemoMode
<1>2. Synced BY <1>1 DEF Synced
<1>3. \A d \in Callers : sync[d] # None => d # c BY <1>1 DEF RolesInv, SyncTypes
<1>4. QED BY <1>2, <1>3, RolesKept

\* What they may make of the account.
LEMMA DemoStep ==
  ASSUME StartInv, DemoInv, env' = env, roles' = roles, past'.scope = past.scope,
         NEW c \in Callers, InDemoMode(c),
         \A d \in Callers : d # c => run'[d] = run[d] /\ demo'.left[d] = demo.left[d],
         demo' \in Demos, demo'.role = demo.role,
         demo'.left[c] # None =>
           /\ run'[c] = 4
           /\ DemoRole(demo'.left[c].role)
           /\ demo'.left[c].commands \in Seq(CommandNames) /\ Ordered(demo'.left[c].commands)
           /\ demo'.left[c].commands # <<>> /\ ~past'.administered =>
                Done(demo'.accounts, demo.role, demo'.left[c].commands, demo'.left[c].role),
         ~past'.administered /\ (booted' \/ run'[c] > 4) =>
           \E id \in UNION {a.roles : a \in demo'.accounts} :
             DemoRole(id) /\ Done(demo'.accounts, demo.role, <<>>, id)
  PROVE  DemoInv'
<1>1. run[c] = 4 /\ past.scope = "demo" BY DEF InDemoMode
<1>2. \A d \in Callers : d # c => run[d] = 0 BY <1>1, Alone DEF LastStep
<1>3. \A d \in Callers : d # c => demo'.left[d] = None
  BY <1>2 DEF DemoInv, DemoTypes, InDemoMode
<1>4. \A id : DemoRole(id)' <=> DemoRole(id) BY DEF DemoRole
<1>5. DemoTypes'
  <2>1. ASSUME NEW d \in Callers, demo'.left[d] # None
        PROVE  /\ InDemoMode(d)'
               /\ DemoRole(demo.left[d].role)'
               /\ demo'.left[d].commands \in Seq(CommandNames) /\ Ordered(demo'.left[d].commands)
               /\ demo'.left[d].commands # <<>> /\ ~past'.administered =>
                    Done(demo'.accounts, demo'.role, demo'.left[d].commands, demo'.left[d].role)
    <3>1. d = c BY <1>3, <2>1
    <3>2. InDemoMode(d)' BY <1>1, <2>1, <3>1 DEF InDemoMode
    <3>3. DemoRole(demo.left[d].role)' BY <1>4, <2>1, <3>1
    <3>4. QED BY <2>1, <3>1, <3>2, <3>3
  <2>2. QED BY <2>1 DEF DemoTypes
<1>6. Configured'
  <2>1. SUFFICES ASSUME ~past'.administered, booted' \/ \E d \in Callers : run'[d] > 4
        PROVE  \E id \in UNION {a.roles : a \in demo'.accounts} :
                 DemoRole(id)' /\ Done(demo'.accounts, demo'.role, <<>>, id)
    BY DEF Configured
  <2>2. booted' \/ run'[c] > 4 BY <1>2, <2>1
  <2>3. QED BY <1>4, <2>1, <2>2
<1>7. QED BY <1>5, <1>6 DEF DemoInv

\* The role of the environment is found under its id.
LEMMA RoleIdIs ==
  ASSUME RolesInv, DemoInv, RoleId(demo.role) # None
  PROVE  RoleId(demo.role) \in Nat /\ DemoRole(RoleId(demo.role))
<1>1. demo.role \in AppRoles BY DEF DemoInv, DemoTypes, Demos
<1>2. CASE env.isTypeormMode
  <2>1. \E i \in DOMAIN ROLES : ROLES[i] = demo.role BY <1>1 DEF ROLES, AppRoles
  <2>2. OrmRoleId(demo.role) \in DOMAIN ROLES BY <2>1 DEF OrmRoleId
  <2>3. DOMAIN ROLES \subseteq Nat BY DEF ROLES
  <2>4. QED BY <1>2, <2>2, <2>3 DEF RoleId, DemoRole
<1>3. CASE ~env.isTypeormMode
  <2> DEFINE cache == roles.cache["role"]
             name == demo.role
  <2>1. cache \in Seq(Row) /\ roles.rows["role"] \subseteq Row /\ \A i \in DOMAIN cache : cache[i] \in roles.rows["role"]
    BY DEF RolesInv, RolesTypes, Types
  <2>2. RoleId(demo.role) = IdOf(cache, name) BY <1>3 DEF RoleId
  <2>3. \A i \in DOMAIN cache : cache[i].id \in Nat BY <2>1 DEF Row
  <2> HIDE DEF cache, name
  <2>4. PICK i \in DOMAIN cache : cache[i].name = name /\ IdOf(cache, name) = cache[i].id
    BY <2>1, <2>2, IdOfIs
  <2>5. IsRole(roles, cache[i].id, name) BY <2>1, <2>4 DEF IsRole
  <2>6. DemoRole(cache[i].id) BY <1>3, <2>5 DEF DemoRole, name
  <2>7. QED BY <2>2, <2>3, <2>4, <2>6
<1>4. QED BY <1>2, <1>3

\* The role of the environment is looked up, or the step throws.
LEMMA CreateOrUpdateStep ==
  ASSUME StartInv, BundleInv, RolesInv, DemoInv, NEW c \in Callers, CreateOrUpdateDemoAccount(c)
  PROVE  RolesInv' /\ DemoInv'
<1> DEFINE id == RoleId(demo.role)
           new == [role |-> id, commands |-> <<>>]
<1>1. /\ InDemoMode(c) /\ demo.left[c] = None /\ UNCHANGED <<roles, sync>>
      /\ \/ Thrown(c) /\ UNCHANGED <<env, loaded, booted, left, demo, past>>
         \/ /\ id # None /\ demo' = [demo EXCEPT !.left[c] = new]
            /\ past' = [past EXCEPT !.administered = FALSE] /\ UNCHANGED vars
  BY DEF CreateOrUpdateDemoAccount
<1>2. Past(past) /\ demo \in Demos BY DEF BundleInv, BundleTypes, DemoInv, DemoTypes
<1>3. run \in [Callers -> 0..LastStep] /\ run[c] = 4 /\ ~booted
  BY <1>1, Alone DEF InDemoMode
<1>4. CASE Thrown(c) /\ UNCHANGED <<env, loaded, booted, left, demo, past>>
  <2>1. run'[c] = 0 /\ \A d \in Callers : d # c => run'[d] = run[d] BY <1>3, <1>4 DEF Thrown
  <2>2. RolesInv' BY <1>1, <1>4, <2>1, RolesRest
  <2>3. DemoInv' BY <1>1, <1>2, <1>3, <1>4, <2>1, DemoStep
  <2>4. QED BY <2>2, <2>3
<1>5. CASE id # None /\ demo' = [demo EXCEPT !.left[c] = new] /\ past' = [past EXCEPT !.administered = FALSE] /\ UNCHANGED vars
  <2>1. id \in Nat /\ DemoRole(id) BY <1>5, RoleIdIs
  <2> HIDE DEF id
  <2>2. new \in DemoUpdate /\ new # None /\ new.role = id /\ new.commands = <<>>
    <3>1. <<>> \in Seq(CommandNames) BY NoneLeft
    <3>2. new \in DemoUpdate BY <2>1, <3>1 DEF DemoUpdate
    <3> HIDE DEF DemoUpdate
    <3>3. new # None BY <3>2, NoneIsNoValue
    <3>4. QED BY <3>2, <3>3
  <2>3. past'.scope = past.scope /\ past'.overlapped = past.overlapped
    BY <1>2, <1>5 DEF Past, Flags
  <2>4. UNCHANGED <<env, run, booted>> BY <1>5 DEF vars
  <2>5. RolesInv' BY <1>1, <2>3, <2>4, RolesRest
  <2> HIDE DEF new
  <2>6. /\ demo' \in Demos /\ demo'.role = demo.role /\ demo'.left[c] = new
        /\ \A d \in Callers : d # c => demo'.left[d] = demo.left[d]
    BY <1>2, <1>5, <2>2 DEF Demos
  <2>7. ~(booted' \/ run'[c] > 4) BY <1>3, <2>4
  <2>8. DemoRole(demo'.left[c].role) /\ demo'.left[c].commands = <<>> BY <2>1, <2>2, <2>6
  <2>9. DemoInv' BY <1>1, <1>3, <2>3, <2>4, <2>6, <2>7, <2>8, NoneLeft, DemoStep
  <2>10. QED BY <2>5, <2>9
<1>6. QED BY <1>1, <1>4, <1>5

\* All that has to change is listed.
LEMMA GetDemoUserIdStep ==
  ASSUME StartInv, RolesInv, DemoInv, NEW c \in Callers, GetDemoUserId(c)
  PROVE  RolesInv' /\ DemoInv'
<1> DEFINE e == demo.left[c]
           cs == Commands(env.isTypeormMode, demo.accounts)
           new == [e EXCEPT !.commands = cs]
<1>1. /\ InDemoMode(c) /\ e # None /\ UNCHANGED <<vars, roles, sync, past>>
      /\ demo' = [demo EXCEPT !.left[c].commands = cs]
  BY DEF GetDemoUserId
<1>2. demo \in Demos /\ e \in DemoUpdate /\ DemoRole(e.role) /\ env.isTypeormMode \in BOOLEAN
  BY <1>1 DEF DemoInv, DemoTypes, Demos, StartInv, TypeOK, Environment
<1>3. /\ cs \in Seq(CommandNames) /\ cs # <<>> /\ Ordered(cs)
      /\ demo.accounts = {} => Registers(cs)
      /\ demo.accounts # {} =>
           /\ {"setVerified", "setIsRootUser", "updatePassword"} \subseteq ToSet(cs)
           /\ "setUserRoles" \in ToSet(cs) \/ {"deleteUserRoles", "createUserRoles"} \subseteq ToSet(cs)
  BY <1>2, CommandsAre
<1> HIDE DEF cs
<1>5. new \in DemoUpdate /\ new.role = e.role /\ new.commands = cs
  BY <1>2, <1>3 DEF DemoUpdate
<1>6. demo' = [demo EXCEPT !.left[c] = new] BY <1>1, <1>2 DEF Demos
<1> HIDE DEF new
<1>7. /\ demo' \in Demos /\ demo'.role = demo.role /\ demo'.left[c] = new /\ demo'.accounts = demo.accounts
      /\ \A d \in Callers : d # c => demo'.left[d] = demo.left[d]
  BY <1>2, <1>5, <1>6 DEF Demos
<1>8. Done(demo.accounts, demo.role, cs, e.role) BY <1>3 DEF Done
<1>9. UNCHANGED <<env, run, booted>> /\ run[c] = 4 /\ ~booted
  BY <1>1, Alone DEF vars, InDemoMode
<1>10. RolesInv' BY <1>1, <1>9, RolesRest
<1>11. ~(booted' \/ run'[c] > 4) BY <1>9
<1>12. DemoInv' BY <1>1, <1>2, <1>3, <1>5, <1>7, <1>8, <1>9, <1>11, DemoStep
<1>13. QED BY <1>10, <1>12

\* A command is performed; after the last one the step is done.
LEMMA ChangeDemoStep ==
  ASSUME StartInv, RolesInv, DemoInv, NEW c \in Callers, ChangeDemoAccount(c)
  PROVE  RolesInv' /\ DemoInv'
<1> DEFINE e == demo.left[c]
           id == e.role
           cs == e.commands
           rest == Tail(cs)
           p == Performed(Head(cs), demo.accounts, demo.role, id)
           changed == [demo EXCEPT !.accounts = p]
<1>1. /\ InDemoMode(c) /\ e # None /\ cs # <<>> /\ UNCHANGED <<roles, sync, past>>
      /\ \/ Thrown(c) /\ demo' = [demo EXCEPT !.left[c] = None] /\ UNCHANGED <<env, loaded, booted, left>>
         \/ rest = <<>> /\ demo' = [changed EXCEPT !.left[c] = None] /\ StepDone(c)
         \/ demo' = [changed EXCEPT !.left[c].commands = rest] /\ UNCHANGED vars
  BY DEF ChangeDemoAccount
<1>2. /\ demo \in Demos /\ e \in DemoUpdate /\ DemoRole(id) /\ cs \in Seq(CommandNames) /\ Ordered(cs)
      /\ ~past.administered => Done(demo.accounts, demo.role, cs, id)
  BY <1>1 DEF DemoInv, DemoTypes, Demos
<1>3. run \in [Callers -> 0..LastStep] /\ run[c] = 4 /\ ~booted
  BY <1>1, Alone DEF InDemoMode
<1>4. demo.accounts \in SUBSET DemoAccounts /\ demo.role \in AppRoles /\ id \in Nat
  BY <1>2 DEF Demos, DemoUpdate
<1>5. /\ p \in SUBSET DemoAccounts /\ rest \in Seq(CommandNames) /\ Ordered(rest)
      /\ ~past.administered => Done(p, demo.role, rest, id)
  <2> DEFINE a == demo.accounts
             r == demo.role
  <2>1. a \in SUBSET DemoAccounts /\ r \in AppRoles /\ id \in Nat /\ cs \in Seq(CommandNames) /\ cs # <<>> /\ Ordered(cs)
    BY <1>1, <1>2, <1>4
  <2> HIDE DEF a, r, id, cs
  <2>2. /\ Performed(Head(cs), a, r, id) \in SUBSET DemoAccounts
        /\ Tail(cs) \in Seq(CommandNames) /\ Ordered(Tail(cs))
        /\ Done(a, r, cs, id) => Done(Performed(Head(cs), a, r, id), r, Tail(cs), id)
    BY <2>1, PerformedIs
  <2>3. QED BY <1>2, <2>2 DEF a, r, id, cs
<1> HIDE DEF p, rest
<1>7. changed \in Demos /\ changed.role = demo.role /\ changed.left = demo.left /\ changed.accounts = p
  BY <1>2, <1>5 DEF Demos
<1> HIDE DEF changed
<1>8. CASE Thrown(c) /\ demo' = [demo EXCEPT !.left[c] = None] /\ UNCHANGED <<env, loaded, booted, left>>
  <2>1. run'[c] = 0 /\ \A d \in Callers : d # c => run'[d] = run[d] BY <1>3, <1>8 DEF Thrown
  <2>2. RolesInv' BY <1>1, <1>8, <2>1, RolesRest
  <2>3. /\ demo' \in Demos /\ demo'.role = demo.role /\ demo'.left[c] = None
        /\ \A d \in Callers : d # c => demo'.left[d] = demo.left[d]
    BY <1>2, <1>8 DEF Demos
  <2>4. ~(booted' \/ run'[c] > 4) BY <1>3, <1>8, <2>1
  <2>5. DemoInv' BY <1>1, <1>8, <2>1, <2>3, <2>4, DemoStep
  <2>6. QED BY <2>2, <2>5
<1>9. CASE rest = <<>> /\ demo' = [changed EXCEPT !.left[c] = None] /\ StepDone(c)
  <2>1. /\ run'[c] = 5 /\ booted' = booted /\ env' = env
        /\ \A d \in Callers : d # c => run'[d] = run[d]
    BY <1>3, <1>9 DEF StepDone, LastStep
  <2>2. RolesInv' BY <1>1, <2>1, RolesRest
  <2>3. /\ demo' \in Demos /\ demo'.role = demo.role /\ demo'.left[c] = None /\ demo'.accounts = p
        /\ \A d \in Callers : d # c => demo'.left[d] = demo.left[d]
    BY <1>7, <1>9 DEF Demos
  <2>4. ASSUME ~past'.administered
        PROVE  \E i \in UNION {a.roles : a \in demo'.accounts} :
                 DemoRole(i) /\ Done(demo'.accounts, demo.role, <<>>, i)
    <3>1. Done(p, demo.role, <<>>, id) BY <1>1, <1>5, <1>9, <2>4
    <3>2. p # {} /\ \A a \in p : id \in a.roles BY <3>1, NoneLeft DEF Done, Registers
    <3>3. id \in UNION {a.roles : a \in p} BY <3>2
    <3>4. QED BY <1>2, <2>3, <3>1, <3>3
  <2>5. DemoInv' BY <1>1, <2>1, <2>3, <2>4, DemoStep
  <2>6. QED BY <2>2, <2>5
<1>10. CASE demo' = [changed EXCEPT !.left[c].commands = rest] /\ UNCHANGED vars
  <2> DEFINE new == [e EXCEPT !.commands = rest]
  <2>1. new \in DemoUpdate /\ new.role = id /\ new.commands = rest
    BY <1>2, <1>5 DEF DemoUpdate
  <2>2. demo' = [changed EXCEPT !.left[c] = new] BY <1>2, <1>7, <1>10 DEF Demos
  <2> HIDE DEF new
  <2>3. /\ demo' \in Demos /\ demo'.role = demo.role /\ demo'.left[c] = new /\ demo'.accounts = p
        /\ \A d \in Callers : d # c => demo'.left[d] = demo.left[d]
    BY <1>7, <2>1, <2>2 DEF Demos
  <2>4. UNCHANGED <<env, run, booted>> BY <1>10 DEF vars
  <2>5. RolesInv' BY <1>1, <2>4, RolesRest
  <2>6. ~(booted' \/ run'[c] > 4) BY <1>3, <2>4
  <2>7. DemoInv' BY <1>1, <1>2, <1>3, <1>5, <2>1, <2>3, <2>4, <2>6, DemoStep
  <2>8. QED BY <2>5, <2>7
<1>11. QED BY <1>1, <1>8, <1>9, <1>10

\* An administrator may change the account, which counts from then on.
LEMMA AdministerStep ==
  ASSUME StartInv, BundleInv, RolesInv, DemoInv, NEW user, Administer(user)
  PROVE  RolesInv' /\ DemoInv'
<1> DEFINE ids == IF env.isTypeormMode THEN DOMAIN ROLES
                  ELSE {roles.cache["role"][i].id : i \in DOMAIN roles.cache["role"]}
<1>1. /\ UNCHANGED <<vars, roles, sync>>
      /\ past' = [past EXCEPT !.administered = TRUE, !.edited = TRUE]
      /\ \E a \in UNION {Administered(b, ids) : b \in demo.accounts} : demo' = [demo EXCEPT !.accounts = {a}]
  BY DEF Administer
<1>2. demo \in Demos /\ Past(past) BY DEF BundleInv, BundleTypes, DemoInv, DemoTypes
<1>3. ids \subseteq Nat
  <2>1. DOMAIN ROLES \subseteq Nat BY DEF ROLES
  <2>2. \A i \in DOMAIN roles.cache["role"] : roles.cache["role"][i] \in roles.rows["role"] /\ roles.rows["role"] \subseteq Row
    BY DEF RolesInv, RolesTypes, Types
  <2>3. \A i \in DOMAIN roles.cache["role"] : roles.cache["role"][i].id \in Nat
    BY <2>2 DEF Row
  <2>4. QED BY <2>1, <2>3
<1> HIDE DEF ids
<1>4. \E b \in demo.accounts : \E a \in Administered(b, ids) : demo' = [demo EXCEPT !.accounts = {a}]
  BY <1>1
<1> PICK b \in demo.accounts : \E a \in Administered(b, ids) : demo' = [demo EXCEPT !.accounts = {a}]
  BY <1>4
<1> PICK a \in Administered(b, ids) : demo' = [demo EXCEPT !.accounts = {a}] OBVIOUS
<1>5. a \in DemoAccounts
  <2>1. b \in Account(AppRoles, Nat) BY <1>2 DEF Demos, DemoAccounts
  <2>2. b.password \in AppRoles /\ ids \cup b.roles \subseteq Nat BY <1>3, <2>1 DEF Account
  <2>3. a \in Account({b.password}, ids \cup b.roles) BY DEF Administered
  <2>4. QED BY <2>2, <2>3 DEF Account, DemoAccounts
<1>6. demo' \in Demos /\ demo'.role = demo.role /\ demo'.left = demo.left
  BY <1>2, <1>4, <1>5 DEF Demos
<1>7. past'.scope = past.scope /\ past'.overlapped = past.overlapped /\ past'.administered = TRUE
  BY <1>1, <1>2 DEF Past, Flags
<1>8. UNCHANGED <<env, run, booted>> BY <1>1 DEF vars
<1>9. RolesInv' BY <1>8, <1>1, <1>7, RolesKept DEF Synced
<1>10. \A id : DemoRole(id)' <=> DemoRole(id) BY <1>1, <1>6, <1>8 DEF DemoRole
<1>11. DemoTypes' BY <1>6, <1>7, <1>8, <1>10 DEF DemoInv, DemoTypes, InDemoMode
<1>12. Configured' BY <1>7 DEF Configured
<1>13. QED BY <1>9, <1>11, <1>12 DEF DemoInv

---------------------------------------------------------------------------
(* The other steps, and the theorems                                       *)

\* A boot that fails leaves nothing under way.
LEMMA FailedStep ==
  ASSUME StartInv, RolesInv, DemoInv, NEW c \in Callers, Failed(c)
  PROVE  RolesInv' /\ DemoInv'
<1>1. /\ run[c] > 0 /\ Thrown(c) /\ UNCHANGED <<env, booted, roles, past>>
      /\ sync' = [sync EXCEPT ![c] = None] /\ demo' = [demo EXCEPT !.left[c] = None]
  BY DEF Failed, StepFailed
<1>2. run \in [Callers -> 0..LastStep] /\ ~booted /\ \A d \in Callers : d # c => run[d] = 0
  BY <1>1, Alone DEF LastStep
<1>3. \A d \in Callers : run'[d] = 0 BY <1>1, <1>2 DEF Thrown
<1>4. sync \in [Syncers -> {None} \cup Syncing] /\ Callers \subseteq Syncers
  BY DEF RolesInv, SyncTypes, Syncers
<1>5. sync' \in [Syncers -> {None} \cup Syncing] /\ sync'[c] = None /\ \A x \in Syncers : x # c => sync'[x] = sync[x]
  BY <1>1, <1>4
<1>6. \A d \in Callers : sync'[d] = None BY <1>2, <1>4, <1>5 DEF RolesInv, SyncTypes
<1>7. ~Synced' BY <1>1, <1>2, <1>3 DEF Synced
<1>8. SyncTypes' BY <1>1, <1>4, <1>5, <1>6, SyncOn DEF RolesInv
<1>9. Covered' BY <1>6, <1>7 DEF Covered, SyncsRoles
<1>10. StoredOnce' BY <1>5, <1>1 DEF SyncsRoles, RolesInv, StoredOnce, Once
<1>11. RolesTypes(roles') BY <1>1 DEF RolesInv
<1>12. demo' \in Demos /\ \A d \in Callers : demo'.left[d] = None
  <2>1. \A d \in Callers : d # c => demo.left[d] = None
    BY <1>2 DEF DemoInv, DemoTypes, InDemoMode
  <2>2. demo \in Demos BY DEF DemoInv, DemoTypes
  <2>3. QED BY <1>1, <2>1, <2>2 DEF Demos
<1>13. DemoTypes' /\ Configured' BY <1>1, <1>2, <1>3, <1>12 DEF DemoTypes, Configured
<1>14. QED BY <1>8, <1>9, <1>10, <1>11, <1>13 DEF RolesInv, DemoInv

\* The roles, and nothing under way, when a process starts again or is killed.
LEMMA NothingUnderWay ==
  ASSUME RolesInv, sync' = NoSync, env' = env, roles'.rows = roles.rows, RolesTypes(roles'),
         past'.overlapped = past.overlapped,
         \/ ~Synced'
         \/ roles' = roles /\ Synced /\ \A c \in Callers : sync[c] = None
  PROVE  RolesInv'
<1>1. \A x \in Syncers : sync'[x] = None BY DEF NoSync
<1>2. Callers \subseteq Syncers BY DEF Syncers
<1>3. SyncTypes' BY <1>1, <1>2 DEF SyncTypes, NoSync
<1>4. Covered'
  <2>1. CASE ~Synced' BY <1>1, <1>2, <2>1 DEF Covered, SyncsRoles
  <2>2. CASE roles' = roles /\ Synced /\ \A c \in Callers : sync[c] = None
    BY <1>1, <1>2, <2>2 DEF RolesInv, Covered, Awaited
  <2>3. QED BY <2>1, <2>2
<1>5. StoredOnce' BY <1>1 DEF RolesInv, StoredOnce, Once, SyncsRoles
<1>6. QED BY <1>3, <1>4, <1>5 DEF RolesInv

\* The caches of a new process.
LEMMA UncachedIs ==
  ASSUME NEW r, RolesTypes(r)
  PROVE  RolesTypes([r EXCEPT !.cache = Uncached])
<1> DEFINE q == [r EXCEPT !.cache = Uncached]
<1>1. Uncached \in [Types -> Seq(Row)] /\ \A t \in Types : Uncached[t] = <<>>
  BY NamesAre DEF Uncached
<1>2. q \in [rows : [Types -> SUBSET Row], cache : [Types -> Seq(Row)],
             user : {None} \cup [name : AppRoles, id : Nat]]
      /\ q.rows = r.rows /\ q.user = r.user /\ q.cache = Uncached
  BY <1>1 DEF RolesTypes
<1> HIDE DEF q
<1>3. \A t \in Types : DOMAIN q.cache[t] = {} BY <1>1, <1>2
<1>4. RolesTypes(q) BY <1>2, <1>3 DEF RolesTypes, IsRole
<1>5. QED BY <1>4 DEF q

\* The demo account of a new process.
LEMMA NoCommandsLeft ==
  ASSUME NEW d \in Demos, NEW role \in AppRoles
  PROVE  /\ [d EXCEPT !.role = role, !.left = NoCommands] \in Demos
         /\ [d EXCEPT !.left = NoCommands] \in Demos
BY DEF Demos, NoCommands

\* A process that starts again has to synchronise and configure once more.
LEMMA StartedAgainRoles ==
  ASSUME BundleInv, RolesInv, DemoInv, StartedAgain
  PROVE  RolesInv' /\ DemoInv'
<1>1. /\ run' = NoRun /\ booted' = FALSE /\ env' = env /\ sync' = NoSync
      /\ roles' = [roles EXCEPT !.cache = Uncached]
      /\ past' = [past EXCEPT !.dropped = FALSE, !.ensured = FALSE]
  BY DEF StartedAgain, Restarted
<1>2. PICK role \in {demo.role, "GUEST"} : demo' = [demo EXCEPT !.role = role, !.left = NoCommands]
  BY DEF StartedAgain
<1>3. Past(past) /\ demo \in Demos /\ RolesTypes(roles)
  BY DEF BundleInv, BundleTypes, DemoInv, DemoTypes, RolesInv
<1>4. past'.overlapped = past.overlapped BY <1>1, <1>3 DEF Past, Flags
<1>5. \A c \in Callers : run'[c] = 0 BY <1>1 DEF NoRun
<1>6. ~Synced' BY <1>1, <1>5 DEF Synced
<1>7. RolesInv'
  <2>1. RolesTypes(roles') BY <1>1, <1>3, UncachedIs
  <2>2. roles'.rows = roles.rows BY <1>1, <1>3 DEF RolesTypes
  <2>3. QED BY <1>1, <1>4, <1>6, <2>1, <2>2, NothingUnderWay
<1>8. role \in AppRoles BY <1>3 DEF Demos, AppRoles
<1>9. demo' \in Demos /\ demo'.left = NoCommands
  BY <1>2, <1>3, <1>8, NoCommandsLeft DEF Demos
<1>10. DemoTypes' /\ Configured' BY <1>1, <1>5, <1>9 DEF DemoTypes, Configured, NoCommands
<1>11. QED BY <1>7, <1>10 DEF DemoInv

\* A process that is killed has cached what it had.
LEMMA KilledRoles ==
  ASSUME StartInv, BundleInv, RolesInv, DemoInv, Killed
  PROVE  RolesInv' /\ DemoInv'
<1> DEFINE torn == past.torn \/ \E u \in Requested : updates[u].at = "clear"
           cut == past.cut \/ DOMAIN mig # {}
<1>1. /\ run' = NoRun /\ UNCHANGED <<env, booted, roles>> /\ sync' = NoSync
      /\ past' = [past EXCEPT !.torn = torn, !.cut = cut, !.ensured = FALSE]
      /\ demo' = [demo EXCEPT !.left = NoCommands]
  BY DEF Killed
<1> HIDE DEF torn, cut
<1>2. Past(past) /\ demo \in Demos /\ RolesTypes(roles)
  BY DEF BundleInv, BundleTypes, DemoInv, DemoTypes, RolesInv
<1>3. past'.overlapped = past.overlapped /\ past'.scope = past.scope /\ past'.administered = past.administered
  BY <1>1, <1>2 DEF Past, Flags
<1>4. \A c \in Callers : run'[c] = 0 BY <1>1 DEF NoRun
<1>5. booted => \A c \in Callers : sync[c] = None BY Alone DEF RolesInv, SyncTypes
<1>6. Synced' => booted BY <1>1, <1>4 DEF Synced
<1>7. RolesInv'
  <2>1. ~Synced' \/ (Synced /\ \A c \in Callers : sync[c] = None) BY <1>5, <1>6 DEF Synced
  <2>2. RolesTypes(roles') /\ roles'.rows = roles.rows BY <1>1, <1>2
  <2>3. QED BY <1>1, <1>3, <2>1, <2>2, NothingUnderWay
<1>8. demo' \in Demos /\ demo'.left = NoCommands /\ demo'.role = demo.role /\ demo'.accounts = demo.accounts
  <2>1. demo.role \in AppRoles BY <1>2 DEF Demos
  <2>2. demo' \in Demos BY <1>1, <1>2, <2>1, NoCommandsLeft
  <2>3. QED BY <1>1, <1>2, <2>2 DEF Demos
<1>9. DemoTypes' BY <1>8 DEF DemoTypes, NoCommands
<1>10. \A id : DemoRole(id)' <=> DemoRole(id) BY <1>1, <1>8 DEF DemoRole
<1>11. Configured' BY <1>1, <1>3, <1>4, <1>8, <1>10 DEF DemoInv, Configured
<1>12. QED BY <1>7, <1>9, <1>11 DEF DemoInv

\* What a database has at first.
LEMMA StoredIs ==
  /\ \A rows \in {Unstored, Stored} :
       /\ rows \in [Types -> SUBSET Row]
       /\ \A t \in Types :
            /\ IsFiniteSet(rows[t])
            /\ \A p, q \in rows[t] : p.id = q.id => p = q
       /\ \A p, q \in rows["role"] : p.name = q.name => p = q
<1>1. \A t \in Types : Unstored[t] = {} BY NamesAre DEF Unstored
<1>2. Unstored \in [Types -> SUBSET Row] /\ IsFiniteSet({}) /\ "role" \in Types
  BY NamesAre, FS_EmptySet DEF Unstored, Types
<1> DEFINE rowOf(t, i) == [id |-> i, name |-> Names[t][i]]
           stored(t) == {rowOf(t, i) : i \in DOMAIN Names[t]}
<1>3. Stored = [t \in Types |-> stored(t)] BY NamesAre DEF Stored
<1>4. \A t \in Types : Names[t] \in Seq(AllNames) BY NamesAre DEF Types
<1>5. ASSUME NEW t \in Types
      PROVE  stored(t) \in SUBSET Row /\ IsFiniteSet(stored(t)) /\ \A p, q \in stored(t) : p.id = q.id => p = q
  <2> DEFINE n == Len(Names[t])
             f == [i \in 1..n |-> rowOf(t, i)]
             S == stored(t)
  <2>1. n \in Nat /\ DOMAIN Names[t] = 1..n /\ \A i \in 1..n : Names[t][i] \in AllNames
    BY <1>4
  <2> HIDE DEF n
  <2>2. stored(t) \in SUBSET Row BY <2>1 DEF Row
  <2>3. f \in Surjection(1..n, S) BY <2>1 DEF Surjection
  <2>4. IsFiniteSet(1..n) BY <2>1, FS_Interval
  <2> HIDE DEF f, S
  <2>5. IsFiniteSet(S) BY <2>3, <2>4, FS_Surjection
  <2>6. QED BY <2>2, <2>5 DEF S
<1>6. \A p, q \in stored("role") : p.name = q.name => p = q
  <2>1. Names["role"] = ROLES BY NamesAre
  <2>2. stored("role") = {rowOf("role", i) : i \in {1, 2, 3}} BY <2>1 DEF ROLES
  <2>3. ROLES[1] = "ADMIN" /\ ROLES[2] = "OPERATOR" /\ ROLES[3] = "GUEST" BY DEF ROLES
  <2>4. \A i, j \in {1, 2, 3} : ROLES[i] = ROLES[j] => i = j BY <2>3
  <2>5. QED BY <2>1, <2>2, <2>4
<1> HIDE DEF stored
<1>7. Stored \in [Types -> SUBSET Row] /\ \A t \in Types : Stored[t] = stored(t)
  BY <1>3, <1>5
<1>8. ASSUME NEW rows, rows = Unstored \/ rows = Stored
      PROVE  /\ rows \in [Types -> SUBSET Row]
             /\ \A t \in Types :
                  /\ IsFiniteSet(rows[t])
                  /\ \A p, q \in rows[t] : p.id = q.id => p = q
             /\ \A p, q \in rows["role"] : p.name = q.name => p = q
  <2>1. CASE rows = Unstored BY <1>1, <1>2, <2>1
  <2>2. CASE rows = Stored BY <1>2, <1>7, <2>2, <1>5, <1>6
  <2>3. QED BY <1>8, <2>1, <2>2
<1>9. QED BY <1>8

\* At first the rows are those of the definitions, or none.
LEMMA RolesInitial ==
  ASSUME StartInit
  PROVE  RolesInv /\ DemoInv
<1>1. /\ sync = NoSync /\ demo = [accounts |-> {}, role |-> "ADMIN", left |-> NoCommands]
      /\ run = NoRun /\ booted = FALSE
  BY DEF StartInit, Init
<1>2. PICK rows \in {Unstored, Stored} : roles = [rows |-> rows, cache |-> Uncached, user |-> None]
  BY DEF StartInit
<1>3. Uncached \in [Types -> Seq(Row)] /\ \A t \in Types : Uncached[t] = <<>>
  BY NamesAre DEF Uncached
<1>4. /\ rows \in [Types -> SUBSET Row]
      /\ \A t \in Types :
           /\ IsFiniteSet(rows[t])
           /\ \A p, q \in rows[t] : p.id = q.id => p = q
      /\ \A p, q \in rows["role"] : p.name = q.name => p = q
  BY StoredIs
<1> DEFINE cache == Uncached
<1> HIDE DEF cache
<1>5. RolesTypes(roles)
  <2>1. roles = [rows |-> rows, cache |-> cache, user |-> None] /\ cache \in [Types -> Seq(Row)]
        /\ \A t \in Types : DOMAIN cache[t] = {}
    BY <1>2, <1>3 DEF cache
  <2>2. /\ roles \in [rows : [Types -> SUBSET Row], cache : [Types -> Seq(Row)],
                      user : {None} \cup [name : AppRoles, id : Nat]]
        /\ roles.rows = rows /\ roles.cache = cache /\ roles.user = None
    BY <1>4, <2>1
  <2>3. QED BY <1>4, <2>1, <2>2 DEF RolesTypes
<1>6. \A x \in Syncers : sync[x] = None BY <1>1 DEF NoSync
<1>7. \A c \in Callers : run[c] = 0 BY <1>1 DEF NoRun
<1>8. Callers \subseteq Syncers BY DEF Syncers
<1>9. SyncTypes BY <1>1, <1>6, <1>8 DEF SyncTypes, NoSync
<1>10. ~Synced BY <1>1, <1>7 DEF Synced
<1>11. Covered BY <1>6, <1>8, <1>10 DEF Covered, SyncsRoles
<1>12. StoredOnce BY <1>2, <1>4, <1>6 DEF StoredOnce, Once, SyncsRoles
<1>13. demo \in Demos /\ demo.left = NoCommands BY <1>1 DEF Demos, NoCommands, AppRoles
<1>14. DemoTypes /\ Configured BY <1>1, <1>7, <1>13 DEF DemoTypes, Configured, NoCommands
<1>15. QED BY <1>5, <1>9, <1>11, <1>12, <1>14 DEF RolesInv, DemoInv

\* Every step keeps both invariants.
LEMMA RolesNext ==
  ASSUME StartInv, BundleInv, RolesInv, DemoInv, [ThisNext]_allVars
  PROVE  RolesInv' /\ DemoInv'
<1>1. CASE \/ Begun \/ MigrateMongo \/ BootJobRuns
           \/ \E c \in Callers :
                Connected(c) \/ Command(c) \/ Recorded(c) \/ ConnectionFailed(c) \/ MigrationDropped(c) \/ OtherStep(c)
           \/ \E t \in BOOT_TASKS : OtherTask(t)
           \/ \E m \in DOMAIN Models : Edit(m)
           \/ RunTask \/ UpdateClientBundleGithub
           \/ \E u \in Requested : Downloaded(u) \/ EntryRemoved(u) \/ UpdateFailed(u)
           \/ UNCHANGED allVars
  BY <1>1, OthersKeep
<1>2. ASSUME NEW c \in Callers,
             \/ SyncPermissions(c) \/ FindPermission(c) \/ StorePermission(c)
             \/ CreateOrUpdateDemoAccount(c) \/ GetDemoUserId(c) \/ ChangeDemoAccount(c) \/ Failed(c)
      PROVE  RolesInv' /\ DemoInv'
  <2>1. c \in Syncers /\ "permission" \in Types BY DEF Syncers, Types
  <2>2. FindPermission(c) => FindOne(c, "permission") BY DEF FindPermission
  <2>3. QED
    BY <1>2, <2>1, <2>2, SyncPermissionsStep, FindStep, StorePermissionStep, CreateOrUpdateStep,
       GetDemoUserIdStep, ChangeDemoStep, FailedStep
<1>3. ASSUME NEW loginRequired \in BOOLEAN, AskRole(AppDefaultRole(loginRequired))
      PROVE  RolesInv' /\ DemoInv'
  BY <1>3, AskRoleStep DEF AppDefaultRole, AppRoles
<1>4. ASSUME NEW s \in Syncers, FindRole(s) \/ StoreRole(s)
      PROVE  RolesInv' /\ DemoInv'
  <2>1. "role" \in Types BY DEF Types
  <2>2. FindRole(s) => FindOne(s, "role") BY DEF FindRole
  <2>3. QED BY <1>4, <2>1, <2>2, FindStep, StoreRoleStep
<1>5. CASE StartedAgain \/ Killed \/ \E user \in {"owner", "demo"} : Administer(user)
  BY <1>5, StartedAgainRoles, KilledRoles, AdministerStep
<1>6. QED BY <1>1, <1>2, <1>3, <1>4, <1>5, Zenon DEF ThisNext

\* The invariant of the synchronisation, which that of the boot is part of.
THEOREM RolesInvariant == StartSpec => [](StartInv /\ BundleInv /\ RolesInv /\ DemoInv)
<1>1. StartInit => StartInv /\ BundleInv /\ RolesInv /\ DemoInv
  BY StartInitial, RolesInitial
<1>2. StartInv /\ BundleInv /\ RolesInv /\ DemoInv /\ [ThisNext]_allVars =>
        (StartInv /\ BundleInv /\ RolesInv /\ DemoInv)'
  BY StartNext, RolesNext
<1>3. QED BY <1>1, <1>2, PTL DEF StartSpec

\* What the invariant comes to once the boot is over.
LEMMA KnownThen ==
  ASSUME StartInv, RolesInv, DemoInv, booted, sync = NoSync
  PROVE  /\ ~env.isTypeormMode =>
              /\ \A n \in ToSet(PERM_GROUP) : Known(roles, "permission", n)
              /\ \A n \in ToSet(ROLES) : Known(roles, "role", n)
         /\ past.scope = "demo" /\ ~past.administered =>
              /\ demo.accounts # {}
              /\ \E id : /\ DemoRole(id)
                         /\ \A a \in demo.accounts :
                              a.isVerified /\ ~a.isRootUser /\ a.password = demo.role /\ a.roles = {id}
<1>1. \A c \in Callers : sync[c] = None BY DEF NoSync, Syncers
<1>2. Synced BY DEF Synced
<1>3. ~env.isTypeormMode =>
        /\ \A n \in ToSet(PERM_GROUP) : Known(roles, "permission", n)
        /\ \A n \in ToSet(ROLES) : Known(roles, "role", n)
  BY <1>1, <1>2 DEF RolesInv, Covered, Awaited
<1>4. ASSUME past.scope = "demo", ~past.administered
      PROVE  /\ demo.accounts # {}
             /\ \E id : /\ DemoRole(id)
                        /\ \A a \in demo.accounts :
                             a.isVerified /\ ~a.isRootUser /\ a.password = demo.role /\ a.roles = {id}
  <2>1. PICK id \in UNION {a.roles : a \in demo.accounts} :
               DemoRole(id) /\ Done(demo.accounts, demo.role, <<>>, id)
    BY <1>4 DEF DemoInv, Configured
  <2>2. /\ demo.accounts # {}
        /\ \A a \in demo.accounts :
             a.isVerified /\ ~a.isRootUser /\ a.password = demo.role /\ a.roles \subseteq {id} /\ id \in a.roles
    BY <2>1, NoneLeft DEF Done, Registers
  <2>3. \A a \in demo.accounts : a.roles = {id} BY <2>2
  <2>4. QED BY <2>1, <2>2, <2>3
<1>5. QED BY <1>3, <1>4

\* Once the boot is over and no synchronisation is under way, permissions and roles are known,
\* and the user registered and the demo account have the rights of their roles.
THEOREM RolesAreKnown == StartSpec => []RolesKnown
<1>1. ASSUME StartInv, RolesInv, DemoInv PROVE RolesKnown
  <2>1. SUFFICES ASSUME booted, sync = NoSync
        PROVE  /\ ~env.isTypeormMode =>
                    /\ \A t \in DOMAIN Names : \A i \in DOMAIN Names[t] : IdOf(roles.cache[t], Names[t][i]) # None
                    /\ \/ roles.user = None \/ past.overlapped
                       \/ Granted({roles.user.id}) = RightsOf(roles.user.name)
               /\ past.scope = "demo" /\ ~past.administered => DemoIsConfigured
    BY DEF RolesKnown
  <2>2. /\ ~env.isTypeormMode =>
             /\ \A n \in ToSet(PERM_GROUP) : Known(roles, "permission", n)
             /\ \A n \in ToSet(ROLES) : Known(roles, "role", n)
        /\ past.scope = "demo" /\ ~past.administered =>
             /\ demo.accounts # {}
             /\ \E id : /\ DemoRole(id)
                        /\ \A a \in demo.accounts :
                             a.isVerified /\ ~a.isRootUser /\ a.password = demo.role /\ a.roles = {id}
    BY <1>1, <2>1, KnownThen
  <2>3. RolesTypes(roles) /\ (~past.overlapped => Once(roles))
    BY <1>1 DEF RolesInv, StoredOnce
  <2>4. ASSUME ~env.isTypeormMode, NEW t \in Types, NEW i \in DOMAIN Names[t]
        PROVE  IdOf(roles.cache[t], Names[t][i]) # None
    <3> DEFINE cache == roles.cache[t]
               n == Names[t][i]
    <3>1. n \in ToSet(Names[t]) BY DEF ToSet
    <3>2. Known(roles, t, n) BY <2>2, <2>4, <3>1, NamesAre DEF Types
    <3>3. cache \in Seq(Row) /\ \A j \in DOMAIN cache : cache[j].id \in Nat
      <4>1. cache \in Seq(Row) /\ roles.rows[t] \subseteq Row /\ \A j \in DOMAIN cache : cache[j] \in roles.rows[t]
        BY <2>3 DEF RolesTypes
      <4> HIDE DEF cache
      <4>2. QED BY <4>1 DEF Row
    <3>4. \E j \in DOMAIN cache : cache[j].name = n BY <3>2 DEF Known
    <3> HIDE DEF cache, n
    <3>5. PICK j \in DOMAIN cache : IdOf(cache, n) = cache[j].id BY <3>3, <3>4, IdOfIs
    <3>6. IdOf(cache, n) # None BY <3>3, <3>5, NoneIsNoValue
    <3>7. QED BY <3>6 DEF cache, n
  <2>5. ASSUME ~env.isTypeormMode, ~past.overlapped, NEW id, NEW name \in AppRoles, IsRole(roles, id, name)
        PROVE  Granted({id}) = RightsOf(name)
    BY <2>2, <2>3, <2>5, NamesAre, GrantedIs
  <2>6. ASSUME ~env.isTypeormMode, roles.user # None, ~past.overlapped
        PROVE  Granted({roles.user.id}) = RightsOf(roles.user.name)
    BY <2>3, <2>6, <2>5 DEF RolesTypes
  <2>7. ASSUME past.scope = "demo", ~past.administered PROVE DemoIsConfigured
    <3>1. PICK id : /\ DemoRole(id)
                    /\ \A a \in demo.accounts :
                         a.isVerified /\ ~a.isRootUser /\ a.password = demo.role /\ a.roles = {id}
      BY <2>2, <2>7
    <3>2. env.isTypeormMode => id = RoleId(demo.role) BY <3>1 DEF DemoRole, RoleId
    <3>3. demo.role \in AppRoles BY <1>1 DEF DemoInv, DemoTypes, Demos
    <3>4. ~env.isTypeormMode /\ ~past.overlapped => Granted({id}) = RightsOf(demo.role)
      BY <2>5, <3>1, <3>3 DEF DemoRole
    <3>5. QED BY <2>2, <2>7, <3>1, <3>2, <3>4 DEF DemoIsConfigured
  <2>8. QED BY <2>4, <2>6, <2>7, NamesAre
<1>2. StartInv /\ BundleInv /\ RolesInv /\ DemoInv => RolesKnown BY <1>1
<1>3. QED BY <1>2, RolesInvariant, PTL

(***************************************************************************)
(* MongoDB: where the documents keep what users saved, s, at the stage a,  *)
(* when a migrations are recorded; half, when the commands of the next one *)
(* may have been executed.                                                 *)
(***************************************************************************)
Has(d, f, v) == f \in DOMAIN d /\ d[f] = v

\* Flattening leaves an empty settingsAppearance beside the name, until the next migration.
NameKept(d, a, half, v) ==
  /\ a >= 7 => Has(d, "name", v)
  /\ a \in 1..6 => \/ Has(d, "settingsAppearance", {v})
                   \/ /\ a = 6 /\ half /\ Has(d, "name", v)
                      /\ "settingsAppearance" \in DOMAIN d => d["settingsAppearance"] = {}
  /\ a = 0 => \/ Has(d, "settingsApperance", {v})
              \/ /\ half /\ "settingsApperance" \notin DOMAIN d
                 /\ Has(d, "settingsAppearance", {v})

\* The first migration renames the names' field before this one.
ApiKeyKept(d, a, half, v) ==
  /\ a > 0 => Has(d, "apiKey", v)
  /\ a = 0 => Has(d, "apikey", v) \/ (half /\ "apikey" \notin DOMAIN d /\ Has(d, "apiKey", v))

\* A printer is enabled unless its user has disabled it, which an old one could not.
EnabledKept(d, a, v) == (a > 1 => Has(d, "enabled", v)) /\ (a < 2 => v = TRUE)

PrinterKept(d, a, half, s) ==
  NameKept(d, a, half, s["name"]) /\ ApiKeyKept(d, a, half, s["apiKey"]) /\ EnabledKept(d, a, s["enabled"])

UserKept(d, a, half, v) ==
  /\ a > 2 => Has(d, "passwordHash", v)
  /\ a < 3 => \/ Has(d, "password", v)
              \/ a = 2 /\ half /\ "password" \notin DOMAIN d /\ Has(d, "passwordHash", v)

Named(docs, v) == docs # {} /\ \A d \in docs : Has(d, "name", v)

\* The floors are moved, unless a collection of the new name is in the way, which is empty.
FloorsKept(colls, v) ==
  \/ /\ "printerfloors" \in DOMAIN colls /\ Named(colls["printerfloors"], v)
     /\ "floors" \in DOMAIN colls => colls["floors"] = {}
  \/ /\ "printerfloors" \notin DOMAIN colls
     /\ "floors" \in DOMAIN colls /\ Named(colls["floors"], v)

PrintersKept(docs, a, half, s) == docs # {} /\ \A d \in docs : PrinterKept(d, a, half, s)
UsersKept(docs, a, half, s) == docs # {} /\ \A d \in docs : UserKept(d, a, half, s["passwordHash"])

Kept(colls, a, half, s) ==
  /\ {"printers", "users"} \subseteq DOMAIN colls
  /\ PrintersKept(colls["printers"], a, half, s)
  /\ UsersKept(colls["users"], a, half, s)
  /\ FloorsKept(colls, s["floor"])

\* What is left of migration a + 1 when its first commands have been executed.
Rest(ops, a, colls) ==
  /\ a = 0 => ops \in {ApiKeyUp, Tail(ApiKeyUp), <<>>}
  /\ a = 3 /\ ops # <<>> =>
       /\ "printerfloors" \in DOMAIN colls
       /\ ops \in {FloorsUp(colls), Tail(FloorsUp(colls)), Tail(Tail(FloorsUp(colls)))}
  /\ a \notin {0, 3} => ops \in {MigrateUp(a + 1, colls), <<>>}

\* All done, the documents are those of the next stage.
RestKept(ops, a, colls, s) ==
  /\ ops = <<>> => Kept(colls, a + 1, FALSE, s)
  /\ a = 0 /\ ops = Tail(ApiKeyUp) => \A d \in colls["printers"] : "settingsApperance" \notin DOMAIN d

\* A migration is under way, or was cut short.
Half == past.cut \/ DOMAIN mig # {}

\* The boot has left its first step behind.
Over == booted \/ \E c \in Callers : run[c] > 1

\* The record, the callers that migrate and what they have left to do, how a boot goes on,
\* and what the documents hold.
MongoInv ==
  /\ past.saved = [m \in DOMAIN Models |-> past.saved[m]]
  /\ mongo = [colls |-> mongo.colls, applied |-> mongo.applied]
  /\ mongo.applied \in 0..Len(MigrationNames)
  /\ DOMAIN mig \subseteq Callers
  /\ \A c \in DOMAIN mig :
       /\ InMongo(c) /\ mongo.applied < Len(MigrationNames)
       /\ Rest(mig[c], mongo.applied, mongo.colls)
       /\ past.excused \/ RestKept(mig[c], mongo.applied, mongo.colls, past.saved)
  /\ Over /\ ~env.isTypeormMode =>
       mongo.applied = Len(MigrationNames) \/ past.dropped \/ FloorsBlocked
  /\ past.excused \/ Kept(mongo.colls, mongo.applied, Half, past.saved)

---------------------------------------------------------------------------
(* What an update makes of the fields of a document                        *)
\* e is d but for the fields F.
ButFor(d, e, F) ==
  /\ DOMAIN e \ F = DOMAIN d \ F
  /\ \A g \in DOMAIN d \ F : e[g] = d[g]

\* The fields of a document after an update.
LEMMA UpdatedBySet ==
  ASSUME NEW d, NEW c, NEW f, NEW v, NEW e, e = Updated(d, Set(c, f, v))
  PROVE  Has(e, f, v) /\ ButFor(d, e, {f})
BY DEF Updated, Set, Put, Has, ButFor

LEMMA UpdatedByUnset ==
  ASSUME NEW d, NEW c, NEW f, NEW e, e = Updated(d, Unset(c, f))
  PROVE  f \notin DOMAIN e /\ ButFor(d, e, {f})
BY DEF Updated, Unset, Without, ButFor

Renamed(d, e, f, g) ==
  /\ f \in DOMAIN d => f \notin DOMAIN e /\ Has(e, g, d[f]) /\ ButFor(d, e, {f, g})
  /\ f \notin DOMAIN d => e = d

LEMMA UpdatedByRename ==
  ASSUME NEW d, NEW c, NEW f, NEW g, f # g, NEW e, e = Updated(d, Rename(c, f, g))
  PROVE  Renamed(d, e, f, g)
<1> USE DEF Renamed
<1>1. CASE f \in DOMAIN d BY <1>1 DEF Updated, Rename, Put, Without, Has, ButFor
<1>2. CASE f \notin DOMAIN d BY <1>2 DEF Updated, Rename
<1>3. QED BY <1>1, <1>2

Nested(d, e, f, g) ==
  /\ f \in DOMAIN d => f \notin DOMAIN e /\ Has(e, g, {d[f]}) /\ ButFor(d, e, {f, g})
  /\ f \notin DOMAIN d => e = d

LEMMA UpdatedByNest ==
  ASSUME NEW d, NEW c, NEW f, NEW g, f # g, NEW e, e = Updated(d, Nest(c, f, g))
  PROVE  Nested(d, e, f, g)
<1> USE DEF Nested
<1>1. CASE f \in DOMAIN d BY <1>1 DEF Updated, Nest, Put, Without, Has, ButFor
<1>2. CASE f \notin DOMAIN d BY <1>2 DEF Updated, Nest
<1>3. QED BY <1>1, <1>2

Flattened(d, e, f, g) ==
  /\ \A v : Has(d, f, {v}) => Has(e, f, {}) /\ Has(e, g, v) /\ ButFor(d, e, {f, g})
  /\ f \in DOMAIN d /\ d[f] = {} => e = d
  /\ f \notin DOMAIN d => e = d

LEMMA UpdatedByFlatten ==
  ASSUME NEW d, NEW c, NEW f, NEW g, f # g, NEW e, e = Updated(d, Flatten(c, f, g))
  PROVE  Flattened(d, e, f, g)
<1>1. ASSUME NEW v, Has(d, f, {v})
      PROVE  Has(e, f, {}) /\ Has(e, g, v) /\ ButFor(d, e, {f, g})
  <2>1. e = Put(Put(d, f, {}), g, CHOOSE x \in d[f] : TRUE)
    BY <1>1 DEF Updated, Flatten, Has
  <2>2. (CHOOSE x \in d[f] : TRUE) = v BY <1>1 DEF Has
  <2>3. QED BY <2>1, <2>2 DEF Put, Has, ButFor
<1>2. ASSUME f \notin DOMAIN d \/ d[f] = {}
      PROVE  e = d
  <2> DEFINE o == Flatten(c, f, g)
  <2>1. o.op = "flatten" /\ o.from = f BY DEF Flatten
  <2> HIDE DEF o
  <2>2. Updated(d, o) = d BY <1>2, <2>1 DEF Updated
  <2>3. QED BY <2>2 DEF o
<1>3. QED BY <1>1, <1>2 DEF Flattened

\* Fields that an update leaves alone.
Alike(d, e, f) ==
  /\ f \in DOMAIN e <=> f \in DOMAIN d
  /\ f \in DOMAIN d => e[f] = d[f]
  /\ \A v : Has(e, f, v) <=> Has(d, f, v)

---------------------------------------------------------------------------
(* What the commands make of documents                                     *)
\* The fields of a printer that the models read, when other fields change.
LEMMA PrinterSame ==
  ASSUME NEW d, NEW e, NEW a, NEW half, NEW s, PrinterKept(d, a, half, s),
         NEW F, ButFor(d, e, F),
         F \cap {"settingsApperance", "settingsAppearance", "name", "apikey", "apiKey", "enabled"} = {}
  PROVE  PrinterKept(e, a, half, s)
<1>1. \A f \in {"settingsApperance", "settingsAppearance", "name", "apikey", "apiKey", "enabled"} : Alike(d, e, f)
  BY DEF ButFor, Alike, Has
<1>2. NameKept(e, a, half, s["name"]) BY <1>1 DEF Alike, Has, PrinterKept, NameKept
<1>3. ApiKeyKept(e, a, half, s["apiKey"]) BY <1>1 DEF Alike, Has, PrinterKept, ApiKeyKept
<1>4. EnabledKept(e, a, s["enabled"]) BY <1>1 DEF Alike, Has, PrinterKept, EnabledKept
<1>5. QED BY <1>2, <1>3, <1>4 DEF PrinterKept

\* A migration that is no matter of the printers, or is done with them.
LEMMA PrinterLater ==
  ASSUME NEW d, NEW a \in {2, 3, 4, 5, 7, 8}, NEW half, NEW s, PrinterKept(d, a, half, s)
  PROVE  PrinterKept(d, a + 1, FALSE, s)
<1>1. NameKept(d, a + 1, FALSE, s["name"]) BY DEF PrinterKept, NameKept
<1>2. ApiKeyKept(d, a + 1, FALSE, s["apiKey"]) /\ EnabledKept(d, a + 1, s["enabled"])
  BY DEF PrinterKept, ApiKeyKept, EnabledKept
<1>3. QED BY <1>1, <1>2 DEF PrinterKept

LEMMA PrinterRenamed ==
  ASSUME NEW d, NEW s, PrinterKept(d, 0, TRUE, s),
         NEW e, e = Updated(d, Rename("printers", "settingsApperance", "settingsAppearance"))
  PROVE  PrinterKept(e, 0, TRUE, s) /\ "settingsApperance" \notin DOMAIN e
<1>1. Renamed(d, e, "settingsApperance", "settingsAppearance") BY UpdatedByRename
<1>2. CASE "settingsApperance" \notin DOMAIN d BY <1>1, <1>2 DEF Renamed
<1>3. CASE "settingsApperance" \in DOMAIN d
  <2>1. NameKept(e, 0, TRUE, s["name"])
    BY <1>1, <1>3 DEF PrinterKept, NameKept, Has, Renamed
  <2>2. \A f \in {"apikey", "apiKey", "enabled"} : Alike(d, e, f)
    BY <1>1, <1>3 DEF Renamed, ButFor, Alike, Has
  <2>3. ApiKeyKept(e, 0, TRUE, s["apiKey"]) /\ EnabledKept(e, 0, s["enabled"])
    BY <2>2 DEF Alike, PrinterKept, ApiKeyKept, EnabledKept
  <2>4. QED BY <1>1, <1>3, <2>1, <2>3 DEF PrinterKept, Renamed
<1>4. QED BY <1>2, <1>3

LEMMA PrinterKeyed ==
  ASSUME NEW d, NEW s, PrinterKept(d, 0, TRUE, s), "settingsApperance" \notin DOMAIN d,
         NEW e, e = Updated(d, Rename("printers", "apikey", "apiKey"))
  PROVE  /\ PrinterKept(e, 0, TRUE, s) /\ PrinterKept(e, 1, FALSE, s)
         /\ "settingsApperance" \notin DOMAIN e
<1>1. Renamed(d, e, "apikey", "apiKey") BY UpdatedByRename
<1>2. \A f \in {"settingsApperance", "settingsAppearance", "name", "enabled"} : Alike(d, e, f)
  <2>1. CASE "apikey" \in DOMAIN d BY <1>1, <2>1 DEF Renamed, Flattened, ButFor, Alike, Has
  <2>2. CASE "apikey" \notin DOMAIN d BY <1>1, <2>2 DEF Renamed, Alike
  <2>3. QED BY <2>1, <2>2
<1>3. "apikey" \notin DOMAIN e /\ Has(e, "apiKey", s["apiKey"])
  BY <1>1 DEF Alike, PrinterKept, ApiKeyKept, Has, Renamed
<1>4. Has(e, "settingsAppearance", {s["name"]}) /\ "settingsApperance" \notin DOMAIN e
  BY <1>2 DEF Alike, PrinterKept, NameKept, Has
<1>5. NameKept(e, 0, TRUE, s["name"]) /\ NameKept(e, 1, FALSE, s["name"])
  BY <1>4 DEF NameKept
<1>6. /\ ApiKeyKept(e, 0, TRUE, s["apiKey"]) /\ ApiKeyKept(e, 1, FALSE, s["apiKey"])
      /\ EnabledKept(e, 0, s["enabled"]) /\ EnabledKept(e, 1, s["enabled"])
  BY <1>3 DEF PrinterKept, ApiKeyKept, EnabledKept
<1>7. QED BY <1>4, <1>5, <1>6 DEF PrinterKept

LEMMA PrinterGiven ==
  ASSUME NEW d, NEW s, PrinterKept(d, 1, TRUE, s), NEW e, Has(e, "enabled", s["enabled"]),
         ButFor(d, e, {"enabled"})
  PROVE  PrinterKept(e, 1, TRUE, s) /\ PrinterKept(e, 2, FALSE, s)
<1>1. Alike(d, e, "settingsAppearance") /\ Alike(d, e, "apiKey") BY DEF ButFor, Alike, Has
<1>2. Has(d, "settingsAppearance", {s["name"]}) /\ Has(d, "apiKey", s["apiKey"])
  BY DEF PrinterKept, NameKept, ApiKeyKept
<1>3. Has(e, "settingsAppearance", {s["name"]}) /\ Has(e, "apiKey", s["apiKey"])
  BY <1>1, <1>2, Zenon DEF Alike
<1>4. NameKept(e, 1, TRUE, s["name"]) /\ NameKept(e, 2, FALSE, s["name"])
  BY <1>3 DEF NameKept
<1>5. ApiKeyKept(e, 1, TRUE, s["apiKey"]) /\ ApiKeyKept(e, 2, FALSE, s["apiKey"])
  BY <1>3 DEF ApiKeyKept
<1>6. EnabledKept(e, 1, s["enabled"]) /\ EnabledKept(e, 2, s["enabled"])
  BY DEF EnabledKept, PrinterKept
<1>7. QED BY <1>4, <1>5, <1>6 DEF PrinterKept

LEMMA PrinterEnabled ==
  ASSUME NEW d, NEW s, PrinterKept(d, 1, TRUE, s),
         NEW e, e = Updated(d, Set("printers", "enabled", TRUE))
  PROVE  PrinterKept(e, 1, TRUE, s) /\ PrinterKept(e, 2, FALSE, s)
<1>1. Has(e, "enabled", TRUE) /\ ButFor(d, e, {"enabled"}) BY UpdatedBySet
<1>2. s["enabled"] = TRUE BY DEF PrinterKept, EnabledKept
<1>3. Has(e, "enabled", s["enabled"]) BY <1>1, <1>2
<1>4. QED BY <1>1, <1>3, PrinterGiven, Zenon

LEMMA PrinterFlattened ==
  ASSUME NEW d, NEW s, PrinterKept(d, 6, TRUE, s),
         NEW e, e = Updated(d, Flatten("printers", "settingsAppearance", "name"))
  PROVE  PrinterKept(e, 6, TRUE, s) /\ PrinterKept(e, 7, FALSE, s)
<1>1. Flattened(d, e, "settingsAppearance", "name") BY UpdatedByFlatten
<1>2. /\ Has(e, "name", s["name"])
      /\ "settingsAppearance" \in DOMAIN e => e["settingsAppearance"] = {}
  <2>1. CASE Has(d, "settingsAppearance", {s["name"]}) BY <1>1, <2>1 DEF Flattened, Has
  <2>2. CASE ~Has(d, "settingsAppearance", {s["name"]})
    BY <1>1, <2>2 DEF PrinterKept, NameKept, Flattened, Has
  <2>3. QED BY <2>1, <2>2
<1>3. \A f \in {"apikey", "apiKey", "enabled"} : \A v : Has(d, f, v) => Has(e, f, v)
  <2>1. CASE ButFor(d, e, {"settingsAppearance", "name"})
    BY <2>1 DEF Renamed, Flattened, ButFor, Alike, Has
  <2>2. CASE e = d BY <2>2
  <2>3. QED BY <1>1, <2>1, <2>2 DEF PrinterKept, NameKept, Flattened
<1>4. NameKept(e, 6, TRUE, s["name"]) /\ NameKept(e, 7, FALSE, s["name"])
  BY <1>2 DEF NameKept
<1>5. /\ ApiKeyKept(e, 6, TRUE, s["apiKey"]) /\ ApiKeyKept(e, 7, FALSE, s["apiKey"])
      /\ EnabledKept(e, 6, s["enabled"]) /\ EnabledKept(e, 7, s["enabled"])
  BY <1>3 DEF PrinterKept, ApiKeyKept, EnabledKept
<1>6. QED BY <1>4, <1>5 DEF PrinterKept

\* The other updates of migrations up and down that printers do not mind.
LEMMA PrinterSpared ==
  ASSUME NEW d, NEW a \in 0..9, NEW half, NEW s, PrinterKept(d, a, half, s), NEW f, NEW v, NEW e,
         e \in {Updated(d, Set("printers", f, v)), Updated(d, Unset("printers", f))},
         \/ f \in {"sortIndex", "fileList"}
         \/ a > 6 /\ f = "settingsAppearance"
  PROVE  PrinterKept(e, a, half, s)
<1>1. ButFor(d, e, {f}) BY UpdatedBySet, UpdatedByUnset
<1>2. CASE f \in {"sortIndex", "fileList"} BY <1>1, <1>2, PrinterSame
<1>3. CASE a > 6 /\ f = "settingsAppearance"
  <2>1. \A g \in {"name", "apiKey", "enabled"} : \A x : Has(d, g, x) => Has(e, g, x)
    BY <1>1, <1>3 DEF Renamed, Flattened, ButFor, Alike, Has
  <2>2. NameKept(e, a, half, s["name"]) BY <1>3, <2>1 DEF PrinterKept, NameKept
  <2>3. ApiKeyKept(e, a, half, s["apiKey"]) /\ EnabledKept(e, a, s["enabled"])
    BY <1>3, <2>1 DEF PrinterKept, ApiKeyKept, EnabledKept
  <2>4. QED BY <2>2, <2>3 DEF PrinterKept
<1>4. QED BY <1>2, <1>3

\* Users.
LEMMA UserHashed ==
  ASSUME NEW d, NEW v, UserKept(d, 2, TRUE, v),
         NEW e, e = Updated(d, Rename("users", "password", "passwordHash"))
  PROVE  UserKept(e, 2, TRUE, v) /\ UserKept(e, 3, FALSE, v)
<1>1. Renamed(d, e, "password", "passwordHash") BY UpdatedByRename
<1>2. "password" \notin DOMAIN e /\ Has(e, "passwordHash", v)
  BY <1>1 DEF UserKept, Has, Renamed
<1>3. QED BY <1>2 DEF UserKept

LEMMA UserUnnamed ==
  ASSUME NEW d, NEW v, UserKept(d, 5, TRUE, v), NEW e, e = Updated(d, Unset("users", "name"))
  PROVE  UserKept(e, 5, TRUE, v) /\ UserKept(e, 6, FALSE, v)
<1>1. ButFor(d, e, {"name"}) BY UpdatedByUnset
<1>2. Has(e, "passwordHash", v) BY <1>1 DEF ButFor, Has, UserKept
<1>3. QED BY <1>2 DEF UserKept

LEMMA UserLater ==
  ASSUME NEW d, NEW a \in 0..8, a # 2, NEW half, NEW v, UserKept(d, a, half, v)
  PROVE  UserKept(d, a + 1, FALSE, v)
BY DEF UserKept

---------------------------------------------------------------------------
(* What the commands make of collections                                   *)
\* What an update that finds its collection makes of the collections.
Changed(colls, e, o) ==
  /\ DOMAIN e = DOMAIN colls
  /\ e[o.coll] = {Updated(d, o) : d \in colls[o.coll]}
  /\ \A k \in DOMAIN colls : k # o.coll => e[k] = colls[k]

LEMMA ExecutedOn ==
  ASSUME NEW colls, NEW o, o.op # "move", o.coll \in DOMAIN colls, NEW e, e = Executed(colls, o)
  PROVE  Changed(colls, e, o)
<1> DEFINE docs == {Updated(d, o) : d \in colls[o.coll]}
<1>1. e = [colls EXCEPT ![o.coll] = docs] BY DEF Executed
<1> HIDE DEF docs
<1>2. DOMAIN e = DOMAIN colls /\ e[o.coll] = docs /\ \A k \in DOMAIN colls : k # o.coll => e[k] = colls[k]
  BY <1>1
<1>3. QED BY <1>2 DEF docs, Changed

LEMMA ExecutedOff ==
  ASSUME NEW colls, NEW o, o.op # "move", o.coll \notin DOMAIN colls
  PROVE  Executed(colls, o) = colls
BY DEF Executed

Moved(colls, e, from, to) ==
  /\ DOMAIN e = (DOMAIN colls \ {from}) \cup {to}
  /\ e[to] = colls[from]
  /\ \A k \in DOMAIN colls : k # from /\ k # to => e[k] = colls[k]

LEMMA ExecutedMove ==
  ASSUME NEW colls, NEW from, NEW to, NEW e, e = Executed(colls, Move(from, to))
  PROVE  Moved(colls, e, from, to)
BY DEF Executed, Move, Put, Without, Moved

\* What a command does to the printers, to the users, and to the floors.
LEMMA PrintersUpdated ==
  ASSUME NEW colls, NEW a, NEW half, NEW s, Kept(colls, a, half, s),
         NEW o, o.op # "move", o.coll = "printers", NEW b, NEW h,
         \A d \in colls["printers"] : PrinterKept(Updated(d, o), b, h, s),
         UsersKept(colls["users"], b, h, s),
         NEW e, e = Executed(colls, o)
  PROVE  Kept(e, b, h, s) /\ DOMAIN e = DOMAIN colls
<1>1. Changed(colls, e, o) BY ExecutedOn DEF Kept
<1>2. PrintersKept(e["printers"], b, h, s) BY <1>1 DEF Changed, Kept, PrintersKept
<1>3. DOMAIN e = DOMAIN colls /\ \A k \in DOMAIN colls : k # "printers" => e[k] = colls[k]
  BY <1>1 DEF Changed
<1>4. UsersKept(e["users"], b, h, s) BY <1>3 DEF Kept
<1>5. FloorsKept(e, s["floor"]) BY <1>3 DEF Kept, FloorsKept
<1>6. QED BY <1>2, <1>3, <1>4, <1>5 DEF Kept

LEMMA UsersUpdated ==
  ASSUME NEW colls, NEW a, NEW half, NEW s, Kept(colls, a, half, s),
         NEW o, o.op # "move", o.coll = "users", NEW b, NEW h,
         \A d \in colls["users"] : UserKept(Updated(d, o), b, h, s["passwordHash"]),
         PrintersKept(colls["printers"], b, h, s),
         NEW e, e = Executed(colls, o)
  PROVE  Kept(e, b, h, s) /\ DOMAIN e = DOMAIN colls
<1>1. Changed(colls, e, o) BY ExecutedOn DEF Kept
<1>2. UsersKept(e["users"], b, h, s) BY <1>1 DEF Changed, Kept, UsersKept
<1>3. DOMAIN e = DOMAIN colls /\ \A k \in DOMAIN colls : k # "users" => e[k] = colls[k]
  BY <1>1 DEF Changed
<1>4. PrintersKept(e["printers"], b, h, s) BY <1>3 DEF Kept
<1>5. FloorsKept(e, s["floor"]) BY <1>3 DEF Kept, FloorsKept
<1>6. QED BY <1>2, <1>3, <1>4, <1>5 DEF Kept

LEMMA FloorsUpdated ==
  ASSUME NEW colls, NEW a, NEW half, NEW s, Kept(colls, a, half, s),
         NEW o, o.op # "move", o.coll = "printerfloors",
         \A d : Has(d, "name", s["floor"]) => Has(Updated(d, o), "name", s["floor"]),
         NEW e, e = Executed(colls, o)
  PROVE  Kept(e, a, half, s) /\ DOMAIN e = DOMAIN colls
<1>1. CASE "printerfloors" \notin DOMAIN colls BY <1>1, ExecutedOff
<1>2. CASE "printerfloors" \in DOMAIN colls
  <2>1. Changed(colls, e, o) BY <1>2, ExecutedOn
  <2>2. DOMAIN e = DOMAIN colls /\ \A k \in DOMAIN colls : k # "printerfloors" => e[k] = colls[k]
    BY <2>1 DEF Changed
  <2>3. Named(e["printerfloors"], s["floor"])
    <3>1. Named(colls["printerfloors"], s["floor"]) BY <1>2 DEF Kept, FloorsKept
    <3>2. e["printerfloors"] = {Updated(d, o) : d \in colls["printerfloors"]}
      BY <2>1 DEF Changed
    <3>3. QED BY <3>1, <3>2 DEF Named
  <2>4. FloorsKept(e, s["floor"]) BY <1>2, <2>2, <2>3 DEF Kept, FloorsKept
  <2>5. QED BY <2>2, <2>4 DEF Kept
<1>3. QED BY <1>1, <1>2

LEMMA FloorsMoved ==
  ASSUME NEW colls, NEW a, NEW half, NEW s, Kept(colls, a, half, s),
         NEW from, NEW to,
         (from = "floors" /\ to = "printerfloors") \/ (from = "printerfloors" /\ to = "floors"),
         Succeeds(colls, Move(from, to)),
         NEW e, e = Executed(colls, Move(from, to))
  PROVE  Kept(e, a, half, s)
<1>1. from \in DOMAIN colls /\ to \notin DOMAIN colls BY DEF Succeeds, Move
<1>2. Moved(colls, e, from, to) BY ExecutedMove
<1>3. /\ from \notin {"printers", "users"} /\ to \notin {"printers", "users"}
      /\ (from = "floors" /\ to = "printerfloors") \/ (from = "printerfloors" /\ to = "floors")
  OBVIOUS
<1>4. /\ {"printers", "users"} \subseteq DOMAIN e
      /\ e["printers"] = colls["printers"] /\ e["users"] = colls["users"]
  BY <1>2, <1>3 DEF Moved, Kept
<1>5. FloorsKept(e, s["floor"])
  <2>1. from \notin DOMAIN e /\ to \in DOMAIN e /\ e[to] = colls[from]
    BY <1>1, <1>2 DEF Moved
  <2>2. Named(colls[from], s["floor"]) BY <1>1, <1>3 DEF Kept, FloorsKept
  <2>3. QED BY <1>3, <2>1, <2>2 DEF FloorsKept
<1>6. QED BY <1>4, <1>5 DEF Kept

\* Where nothing is half done, the collections are as good as where something may be.
LEMMA KeptMore ==
  ASSUME NEW colls, NEW a, NEW half, NEW s, Kept(colls, a, FALSE, s) \/ (Kept(colls, a, half, s) /\ a \notin {0, 2, 6}),
         NEW h
  PROVE  Kept(colls, a, h, s)
<1>1. ASSUME NEW d, PrinterKept(d, a, FALSE, s) \/ (PrinterKept(d, a, half, s) /\ a \notin {0, 2, 6})
      PROVE  PrinterKept(d, a, h, s)
  <2>1. NameKept(d, a, h, s["name"]) BY <1>1 DEF PrinterKept, NameKept
  <2>2. ApiKeyKept(d, a, h, s["apiKey"]) BY <1>1 DEF PrinterKept, ApiKeyKept
  <2>3. QED BY <1>1, <2>1, <2>2 DEF PrinterKept
<1>2. ASSUME NEW d, NEW v, UserKept(d, a, FALSE, v) \/ (UserKept(d, a, half, v) /\ a \notin {0, 2, 6})
      PROVE  UserKept(d, a, h, v)
  BY <1>2 DEF UserKept
<1>3. QED BY <1>1, <1>2 DEF Kept, PrintersKept, UsersKept

LEMMA KeptHalf ==
  ASSUME NEW colls, NEW a, NEW half \in BOOLEAN, NEW s, Kept(colls, a, half, s)
  PROVE  Kept(colls, a, TRUE, s)
<1>1. CASE half = TRUE BY <1>1
<1>2. CASE half = FALSE BY <1>2, KeptMore
<1>3. QED BY <1>1, <1>2

\* The migrations in their order.
LEMMA NamesInOrder ==
  /\ Len(MigrationNames) = 9
  /\ MigrationNames[1] = "apikey" /\ MigrationNames[2] = "enabled" /\ MigrationNames[3] = "passwordhash"
  /\ MigrationNames[4] = "floors" /\ MigrationNames[5] = "sortindex" /\ MigrationNames[6] = "username"
  /\ MigrationNames[7] = "flattenname" /\ MigrationNames[8] = "settingsappearance"
  /\ MigrationNames[9] = "files"
BY DEF MigrationNames

LEMMA UpsAre ==
  ASSUME NEW colls
  PROVE  /\ MigrateUp(1, colls) = ApiKeyUp /\ MigrateUp(2, colls) = EnabledUp
         /\ MigrateUp(3, colls) = PasswordHashUp /\ MigrateUp(4, colls) = FloorsUp(colls)
         /\ MigrateUp(5, colls) = SortIndexUp /\ MigrateUp(6, colls) = UserNameUp
         /\ MigrateUp(7, colls) = FlattenNameUp /\ MigrateUp(8, colls) = SettingsAppearanceUp
         /\ MigrateUp(9, colls) = FileListUp
BY NamesInOrder DEF MigrateUp

LEMMA DownsAre ==
  ASSUME NEW colls
  PROVE  /\ MigrateDown(1, colls) = ApiKeyDown /\ MigrateDown(2, colls) = EnabledDown
         /\ MigrateDown(3, colls) = PasswordHashDown /\ MigrateDown(4, colls) = FloorsDown(colls)
         /\ MigrateDown(5, colls) = SortIndexDown /\ MigrateDown(6, colls) = UserNameDown
         /\ MigrateDown(7, colls) = FlattenNameDown /\ MigrateDown(8, colls) = SettingsAppearanceDown
         /\ MigrateDown(9, colls) = FileListDown
BY NamesInOrder DEF MigrateDown

\* What these updates are good for.
Commanded(o, c) == o.op \notin {"move", "refused"} /\ o.coll = c

LEMMA Updates ==
  ASSUME NEW c, NEW f, NEW g
  PROVE  /\ Commanded(Rename(c, f, g), c) /\ Commanded(Set(c, f, g), c) /\ Commanded(Unset(c, f), c)
         /\ Commanded(Flatten(c, f, g), c) /\ Commanded(Nest(c, f, g), c)
BY DEF Commanded, Rename, Set, Unset, Flatten, Nest

LEMMA Succeed ==
  ASSUME NEW colls, NEW o, NEW c, Commanded(o, c)
  PROVE  Succeeds(colls, o)
BY DEF Commanded, Succeeds

\* The other collection, when migration a + 1 is no matter of it.
LEMMA PrintersLater ==
  ASSUME NEW docs, NEW a \in {2, 3, 4, 5, 7, 8}, NEW half, NEW s, PrintersKept(docs, a, half, s)
  PROVE  PrintersKept(docs, a + 1, FALSE, s)
BY PrinterLater DEF PrintersKept

LEMMA UsersLater ==
  ASSUME NEW docs, NEW a \in 0..8, a # 2, NEW half, NEW s, UsersKept(docs, a, half, s)
  PROVE  UsersKept(docs, a + 1, FALSE, s)
BY UserLater DEF UsersKept

LEMMA KeptLater ==
  ASSUME NEW colls, NEW half, NEW s, Kept(colls, 3, half, s)
  PROVE  Kept(colls, 4, FALSE, s)
<1>1. 3 \in {2, 3, 4, 5, 7, 8} /\ 3 \in 0..8 /\ 3 # 2 /\ 3 + 1 = 4 OBVIOUS
<1>2. PrintersKept(colls["printers"], 3 + 1, FALSE, s) /\ UsersKept(colls["users"], 3 + 1, FALSE, s)
  BY <1>1, PrintersLater, UsersLater DEF Kept
<1>3. QED BY <1>1, <1>2 DEF Kept

---------------------------------------------------------------------------
(* The migrations, up and down                                             *)
\* The only command of a migration, again or for the first time, is all of it.
Advanced(e, a, s) == Kept(e, a, TRUE, s) /\ Kept(e, a + 1, FALSE, s)

LEMMA EnabledAdvances ==
  ASSUME NEW colls, NEW s, Kept(colls, 1, TRUE, s),
         NEW e, e = Executed(colls, Set("printers", "enabled", TRUE))
  PROVE  Advanced(e, 1, s)
<1> DEFINE o == Set("printers", "enabled", TRUE)
<1>1. o.op # "move" /\ o.coll = "printers" BY DEF Set
<1>2. \A d \in colls["printers"] : PrinterKept(Updated(d, o), 1, TRUE, s) /\ PrinterKept(Updated(d, o), 2, FALSE, s)
  BY PrinterEnabled DEF Kept, PrintersKept
<1>3. UsersKept(colls["users"], 1, TRUE, s) /\ UsersKept(colls["users"], 2, FALSE, s)
  <2>1. 1 \in 0..8 /\ 1 # 2 /\ 1 + 1 = 2 OBVIOUS
  <2>2. UsersKept(colls["users"], 1 + 1, FALSE, s) BY <2>1, UsersLater DEF Kept
  <2>3. QED BY <2>1, <2>2 DEF Kept
<1>4. e = Executed(colls, o) OBVIOUS
<1> HIDE DEF o
<1>5. Kept(e, 1, TRUE, s) BY <1>1, <1>2, <1>3, <1>4, PrintersUpdated
<1>6. 1 + 1 = 2 OBVIOUS
<1>7. Kept(e, 1 + 1, FALSE, s) BY <1>1, <1>2, <1>3, <1>4, <1>6, PrintersUpdated
<1>8. QED BY <1>5, <1>7 DEF Advanced

LEMMA HashAdvances ==
  ASSUME NEW colls, NEW s, Kept(colls, 2, TRUE, s),
         NEW e, e = Executed(colls, Rename("users", "password", "passwordHash"))
  PROVE  Advanced(e, 2, s)
<1> DEFINE o == Rename("users", "password", "passwordHash")
<1>1. o.op # "move" /\ o.coll = "users" BY DEF Rename
<1>2. \A d \in colls["users"] : /\ UserKept(Updated(d, o), 2, TRUE, s["passwordHash"])
                                /\ UserKept(Updated(d, o), 3, FALSE, s["passwordHash"])
  BY UserHashed DEF Kept, UsersKept
<1>3. PrintersKept(colls["printers"], 2, TRUE, s) /\ PrintersKept(colls["printers"], 3, FALSE, s)
  <2>1. 2 \in {2, 3, 4, 5, 7, 8} /\ 2 + 1 = 3 OBVIOUS
  <2>2. PrintersKept(colls["printers"], 2 + 1, FALSE, s) BY <2>1, PrintersLater DEF Kept
  <2>3. QED BY <2>1, <2>2 DEF Kept
<1>4. e = Executed(colls, o) OBVIOUS
<1> HIDE DEF o
<1>5. Kept(e, 2, TRUE, s) BY <1>1, <1>2, <1>3, <1>4, UsersUpdated
<1>6. 2 + 1 = 3 OBVIOUS
<1>7. Kept(e, 2 + 1, FALSE, s) BY <1>1, <1>2, <1>3, <1>4, <1>6, UsersUpdated
<1>8. QED BY <1>5, <1>7 DEF Advanced

LEMMA UnnamedAdvances ==
  ASSUME NEW colls, NEW s, Kept(colls, 5, TRUE, s), NEW e, e = Executed(colls, Unset("users", "name"))
  PROVE  Advanced(e, 5, s)
<1> DEFINE o == Unset("users", "name")
<1>1. o.op # "move" /\ o.coll = "users" BY DEF Unset
<1>2. \A d \in colls["users"] : /\ UserKept(Updated(d, o), 5, TRUE, s["passwordHash"])
                                /\ UserKept(Updated(d, o), 6, FALSE, s["passwordHash"])
  BY UserUnnamed DEF Kept, UsersKept
<1>3. PrintersKept(colls["printers"], 5, TRUE, s) /\ PrintersKept(colls["printers"], 6, FALSE, s)
  <2>1. 5 \in {2, 3, 4, 5, 7, 8} /\ 5 + 1 = 6 OBVIOUS
  <2>2. PrintersKept(colls["printers"], 5 + 1, FALSE, s) BY <2>1, PrintersLater DEF Kept
  <2>3. QED BY <2>1, <2>2 DEF Kept
<1>4. e = Executed(colls, o) OBVIOUS
<1> HIDE DEF o
<1>5. Kept(e, 5, TRUE, s) BY <1>1, <1>2, <1>3, <1>4, UsersUpdated
<1>6. 5 + 1 = 6 OBVIOUS
<1>7. Kept(e, 5 + 1, FALSE, s) BY <1>1, <1>2, <1>3, <1>4, <1>6, UsersUpdated
<1>8. QED BY <1>5, <1>7 DEF Advanced

LEMMA FlattenAdvances ==
  ASSUME NEW colls, NEW s, Kept(colls, 6, TRUE, s),
         NEW e, e = Executed(colls, Flatten("printers", "settingsAppearance", "name"))
  PROVE  Advanced(e, 6, s)
<1> DEFINE o == Flatten("printers", "settingsAppearance", "name")
<1>1. o.op # "move" /\ o.coll = "printers" BY DEF Flatten
<1>2. \A d \in colls["printers"] : PrinterKept(Updated(d, o), 6, TRUE, s) /\ PrinterKept(Updated(d, o), 7, FALSE, s)
  BY PrinterFlattened DEF Kept, PrintersKept
<1>3. UsersKept(colls["users"], 6, TRUE, s) /\ UsersKept(colls["users"], 7, FALSE, s)
  <2>1. 6 \in 0..8 /\ 6 # 2 /\ 6 + 1 = 7 OBVIOUS
  <2>2. UsersKept(colls["users"], 6 + 1, FALSE, s) BY <2>1, UsersLater DEF Kept
  <2>3. QED BY <2>1, <2>2 DEF Kept
<1>4. e = Executed(colls, o) OBVIOUS
<1> HIDE DEF o
<1>5. Kept(e, 6, TRUE, s) BY <1>1, <1>2, <1>3, <1>4, PrintersUpdated
<1>6. 6 + 1 = 7 OBVIOUS
<1>7. Kept(e, 6 + 1, FALSE, s) BY <1>1, <1>2, <1>3, <1>4, <1>6, PrintersUpdated
<1>8. QED BY <1>5, <1>7 DEF Advanced

\* The fields that later models do not read.
LEMMA SparedAdvances ==
  ASSUME NEW colls, NEW a \in {4, 7, 8}, NEW s, Kept(colls, a, TRUE, s), NEW f, NEW v, NEW o,
         o \in {Set("printers", f, v), Unset("printers", f)},
         f \in {"sortIndex", "fileList"} \/ (a > 6 /\ f = "settingsAppearance"),
         NEW e, e = Executed(colls, o)
  PROVE  Advanced(e, a, s)
<1>1. o.op # "move" /\ o.coll = "printers" BY DEF Set, Unset
<1>2. ASSUME NEW d, PrinterKept(d, a, TRUE, s)
      PROVE  PrinterKept(Updated(d, o), a, TRUE, s) /\ PrinterKept(Updated(d, o), a + 1, FALSE, s)
  <2>1. a \in 0..9 /\ a \in {2, 3, 4, 5, 7, 8} OBVIOUS
  <2>2. Updated(d, o) \in {Updated(d, Set("printers", f, v)), Updated(d, Unset("printers", f))}
    OBVIOUS
  <2>3. PrinterKept(Updated(d, o), a, TRUE, s) BY <1>2, <2>1, <2>2, PrinterSpared, Zenon
  <2>4. QED BY <2>1, <2>3, PrinterLater
<1>3. UsersKept(colls["users"], a, TRUE, s) /\ UsersKept(colls["users"], a + 1, FALSE, s)
  <2>1. a \in 0..8 /\ a # 2 OBVIOUS
  <2>2. QED BY <2>1, UsersLater DEF Kept
<1> DEFINE b == a + 1
<1>4. \A d \in colls["printers"] : PrinterKept(Updated(d, o), a, TRUE, s) /\ PrinterKept(Updated(d, o), b, FALSE, s)
  BY <1>2 DEF Kept, PrintersKept
<1>5. UsersKept(colls["users"], b, FALSE, s) BY <1>3
<1> HIDE DEF b
<1>6. Kept(e, a, TRUE, s) BY <1>1, <1>3, <1>4, PrintersUpdated, Zenon
<1>7. Kept(e, b, FALSE, s) BY <1>1, <1>4, <1>5, PrintersUpdated, Zenon
<1>8. QED BY <1>6, <1>7 DEF Advanced, b

\* The two commands of the first migration.
LEMMA ApiKeyAdvances ==
  ASSUME NEW colls, NEW s, Kept(colls, 0, TRUE, s), NEW e
  PROVE  /\ e = Executed(colls, Rename("printers", "settingsApperance", "settingsAppearance")) =>
              Kept(e, 0, TRUE, s) /\ \A d \in e["printers"] : "settingsApperance" \notin DOMAIN d
         /\ /\ e = Executed(colls, Rename("printers", "apikey", "apiKey"))
            /\ \A d \in colls["printers"] : "settingsApperance" \notin DOMAIN d
            => Advanced(e, 0, s)
<1>1. UsersKept(colls["users"], 0, TRUE, s) /\ UsersKept(colls["users"], 1, FALSE, s)
  <2>1. 0 \in 0..8 /\ 0 # 2 /\ 0 + 1 = 1 OBVIOUS
  <2>2. UsersKept(colls["users"], 0 + 1, FALSE, s) BY <2>1, UsersLater DEF Kept
  <2>3. QED BY <2>1, <2>2 DEF Kept
<1>2. ASSUME e = Executed(colls, Rename("printers", "settingsApperance", "settingsAppearance"))
      PROVE  Kept(e, 0, TRUE, s) /\ \A d \in e["printers"] : "settingsApperance" \notin DOMAIN d
  <2> DEFINE o == Rename("printers", "settingsApperance", "settingsAppearance")
  <2>1. o.op # "move" /\ o.coll = "printers" BY DEF Rename
  <2>2. \A d \in colls["printers"] : PrinterKept(Updated(d, o), 0, TRUE, s) /\ "settingsApperance" \notin DOMAIN Updated(d, o)
    BY PrinterRenamed DEF Kept, PrintersKept
  <2>3. e = Executed(colls, o) BY <1>2
  <2> HIDE DEF o
  <2>4. Kept(e, 0, TRUE, s) BY <1>1, <2>1, <2>2, <2>3, PrintersUpdated
  <2>5. Changed(colls, e, o) BY <2>1, <2>3, ExecutedOn DEF Kept
  <2>6. \A d \in e["printers"] : "settingsApperance" \notin DOMAIN d
    BY <2>1, <2>2, <2>5 DEF Changed
  <2>7. QED BY <2>4, <2>6
<1>3. ASSUME e = Executed(colls, Rename("printers", "apikey", "apiKey")),
             \A d \in colls["printers"] : "settingsApperance" \notin DOMAIN d
      PROVE  Advanced(e, 0, s)
  <2> DEFINE o == Rename("printers", "apikey", "apiKey")
  <2>1. o.op # "move" /\ o.coll = "printers" BY DEF Rename
  <2>2. \A d \in colls["printers"] : PrinterKept(Updated(d, o), 0, TRUE, s) /\ PrinterKept(Updated(d, o), 1, FALSE, s)
    BY <1>3, PrinterKeyed DEF Kept, PrintersKept
  <2>3. e = Executed(colls, o) BY <1>3
  <2> HIDE DEF o
  <2>4. Kept(e, 0, TRUE, s) BY <1>1, <2>1, <2>2, <2>3, PrintersUpdated
  <2>5. 0 + 1 = 1 OBVIOUS
  <2>6. Kept(e, 0 + 1, FALSE, s) BY <1>1, <2>1, <2>2, <2>3, <2>5, PrintersUpdated
  <2>7. QED BY <2>4, <2>6 DEF Advanced
<1>4. QED BY <1>2, <1>3

\* The three of that of the floors.
LEMMA FloorsAdvance ==
  ASSUME NEW colls, NEW a, NEW half, NEW s, Kept(colls, a, half, s), NEW o,
         o \in {Unset("printerfloors", "printerGroups"), Set("printerfloors", "printers", {}),
                Set("printerfloors", "printerGroups", {}), Unset("printerfloors", "printers")},
         NEW e, e = Executed(colls, o)
  PROVE  Kept(e, a, half, s) /\ DOMAIN e = DOMAIN colls
<1>1. o.op # "move" /\ o.coll = "printerfloors" BY DEF Set, Unset
<1>2. ASSUME NEW d, Has(d, "name", s["floor"]) PROVE Has(Updated(d, o), "name", s["floor"])
  BY UpdatedBySet, UpdatedByUnset, <1>2 DEF ButFor, Has
<1>3. QED BY <1>1, <1>2, FloorsUpdated

\* A migration of one command, which makes the next of this one when it is done.
Single(a, ops) ==
  \E o : /\ ops = <<o>>
         /\ \A colls : Succeeds(colls, o)
         /\ \A colls, s : Kept(colls, a, TRUE, s) => Advanced(Executed(colls, o), a, s)

LEMMA SingleBy ==
  ASSUME NEW a, NEW o, NEW c, Commanded(o, c),
         \A colls, s : Kept(colls, a, TRUE, s) => Advanced(Executed(colls, o), a, s)
  PROVE  Single(a, <<o>>)
BY Succeed, Zenon DEF Single

LEMMA Singles ==
  ASSUME NEW a \in {1, 2, 4, 5, 6, 7, 8}, NEW colls
  PROVE  Single(a, MigrateUp(a + 1, colls))
<1>1. CASE a = 1
  <2>1. MigrateUp(a + 1, colls) = <<Set("printers", "enabled", TRUE)>>
    <3>1. a + 1 = 2 BY <1>1
    <3>2. QED BY <3>1, UpsAre, Zenon DEF EnabledUp
  <2>2. QED BY <1>1, <2>1, SingleBy, Updates, EnabledAdvances, Zenon
<1>2. CASE a = 2
  <2>1. MigrateUp(a + 1, colls) = <<Rename("users", "password", "passwordHash")>>
    <3>1. a + 1 = 3 BY <1>2
    <3>2. QED BY <3>1, UpsAre, Zenon DEF PasswordHashUp
  <2>2. QED BY <1>2, <2>1, SingleBy, Updates, HashAdvances, Zenon
<1>3. CASE a = 4
  <2>1. MigrateUp(a + 1, colls) = <<Unset("printers", "sortIndex")>>
    <3>1. a + 1 = 5 BY <1>3
    <3>2. QED BY <3>1, UpsAre, Zenon DEF SortIndexUp
  <2>2. ASSUME NEW k, NEW s, Kept(k, a, TRUE, s)
        PROVE  Advanced(Executed(k, Unset("printers", "sortIndex")), a, s)
    <3> DEFINE o == Unset("printers", "sortIndex")
    <3>1. o \in {Set("printers", "sortIndex", 0), Unset("printers", "sortIndex")} /\ a \in {4, 7, 8}
      BY <1>3
    <3>2. "sortIndex" \in {"sortIndex", "fileList"} \/ (a > 6 /\ "sortIndex" = "settingsAppearance")
      BY <1>3
    <3> HIDE DEF o
    <3>3. Advanced(Executed(k, o), a, s) BY <2>2, <3>1, <3>2, SparedAdvances, Zenon
    <3>4. QED BY <3>3 DEF o
  <2>3. QED BY <2>1, <2>2, SingleBy, Updates, Zenon
<1>4. CASE a = 5
  <2>1. MigrateUp(a + 1, colls) = <<Unset("users", "name")>>
    <3>1. a + 1 = 6 BY <1>4
    <3>2. QED BY <3>1, UpsAre, Zenon DEF UserNameUp
  <2>2. QED BY <1>4, <2>1, SingleBy, Updates, UnnamedAdvances, Zenon
<1>5. CASE a = 6
  <2>1. MigrateUp(a + 1, colls) = <<Flatten("printers", "settingsAppearance", "name")>>
    <3>1. a + 1 = 7 BY <1>5
    <3>2. QED BY <3>1, UpsAre, Zenon DEF FlattenNameUp
  <2>2. QED BY <1>5, <2>1, SingleBy, Updates, FlattenAdvances, Zenon
<1>6. CASE a = 7
  <2>1. MigrateUp(a + 1, colls) = <<Unset("printers", "settingsAppearance")>>
    <3>1. a + 1 = 8 BY <1>6
    <3>2. QED BY <3>1, UpsAre, Zenon DEF SettingsAppearanceUp
  <2>2. ASSUME NEW k, NEW s, Kept(k, a, TRUE, s)
        PROVE  Advanced(Executed(k, Unset("printers", "settingsAppearance")), a, s)
    <3> DEFINE o == Unset("printers", "settingsAppearance")
    <3>1. o \in {Set("printers", "settingsAppearance", 0), Unset("printers", "settingsAppearance")} /\ a \in {4, 7, 8}
      BY <1>6
    <3>2. "settingsAppearance" \in {"sortIndex", "fileList"} \/ (a > 6 /\ "settingsAppearance" = "settingsAppearance")
      BY <1>6
    <3> HIDE DEF o
    <3>3. Advanced(Executed(k, o), a, s) BY <2>2, <3>1, <3>2, SparedAdvances, Zenon
    <3>4. QED BY <3>3 DEF o
  <2>3. QED BY <2>1, <2>2, SingleBy, Updates, Zenon
<1>7. CASE a = 8
  <2>1. MigrateUp(a + 1, colls) = <<Set("printers", "fileList", "list")>>
    <3>1. a + 1 = 9 BY <1>7
    <3>2. QED BY <3>1, UpsAre, Zenon DEF FileListUp
  <2>2. ASSUME NEW k, NEW s, Kept(k, a, TRUE, s)
        PROVE  Advanced(Executed(k, Set("printers", "fileList", "list")), a, s)
    <3> DEFINE o == Set("printers", "fileList", "list")
    <3>1. o \in {Set("printers", "fileList", "list"), Unset("printers", "fileList")} /\ a \in {4, 7, 8}
      BY <1>7
    <3>2. "fileList" \in {"sortIndex", "fileList"} \/ (a > 6 /\ "fileList" = "settingsAppearance")
      BY <1>7
    <3> HIDE DEF o
    <3>3. Advanced(Executed(k, o), a, s) BY <2>2, <3>1, <3>2, SparedAdvances, Zenon
    <3>4. QED BY <3>3 DEF o
  <2>3. QED BY <2>1, <2>2, SingleBy, Updates, Zenon
<1>8. QED BY <1>1, <1>2, <1>3, <1>4, <1>5, <1>6, <1>7

\* The commands of the two other migrations.
NewApiKey == Rename("printers", "apikey", "apiKey")
NewAppearance == Rename("printers", "settingsApperance", "settingsAppearance")

LEMMA ApiKeyCommands ==
  /\ ApiKeyUp # <<>> /\ Head(ApiKeyUp) = NewAppearance /\ Tail(ApiKeyUp) = <<NewApiKey>>
  /\ Tail(ApiKeyUp) # <<>> /\ Head(Tail(ApiKeyUp)) = NewApiKey /\ Tail(Tail(ApiKeyUp)) = <<>>
  /\ ApiKeyUp # Tail(ApiKeyUp)
<1> DEFINE p == NewAppearance
           q == NewApiKey
<1>1. ApiKeyUp = <<p, q>> BY DEF ApiKeyUp, NewAppearance, NewApiKey
<1> HIDE DEF p, q
<1>2. /\ ApiKeyUp # <<>> /\ Head(ApiKeyUp) = p /\ Tail(ApiKeyUp) = <<q>>
      /\ <<q>> # <<>> /\ Head(<<q>>) = q /\ Tail(<<q>>) = <<>> /\ ApiKeyUp # <<q>>
  BY <1>1
<1>3. QED BY <1>2, Zenon DEF p, q

NoGroups == Unset("printerfloors", "printerGroups")
NoPrinters == Set("printerfloors", "printers", {})
ToFloors == Move("printerfloors", "floors")

LEMMA FloorsCommands ==
  ASSUME NEW colls, "printerfloors" \in DOMAIN colls
  PROVE  LET all == FloorsUp(colls) IN
         /\ all # <<>> /\ Head(all) = NoGroups /\ Tail(all) # <<>> /\ Head(Tail(all)) = NoPrinters
         /\ Tail(Tail(all)) # <<>> /\ Head(Tail(Tail(all))) = ToFloors /\ Tail(Tail(Tail(all))) = <<>>
         /\ all = <<NoGroups, NoPrinters, ToFloors>>
<1> DEFINE p == NoGroups
           q == NoPrinters
           r == ToFloors
           all == FloorsUp(colls)
<1>1. all = <<p, q, r>> BY Zenon DEF FloorsUp, NoGroups, NoPrinters, ToFloors
<1> HIDE DEF p, q, r, all
<1>2. Tail(all) = <<q, r>> /\ Tail(<<q, r>>) = <<r>> /\ Tail(<<r>>) = <<>> BY <1>1
<1>3. /\ all # <<>> /\ Head(all) = p /\ <<q, r>> # <<>> /\ Head(<<q, r>>) = q
      /\ <<r>> # <<>> /\ Head(<<r>>) = r
  BY <1>1
<1>4. QED BY <1>1, <1>2, <1>3, Zenon DEF p, q, r, all

\* What a command leaves of its migration.
LEMMA RestKeeps ==
  ASSUME NEW a \in 0..8, NEW ops, NEW colls, Rest(ops, a, colls), ops # <<>>,
         Succeeds(colls, Head(ops)), NEW e, e = Executed(colls, Head(ops))
  PROVE  Rest(Tail(ops), a, e)
<1>1. CASE a = 0 BY <1>1, ApiKeyCommands DEF Rest
<1>2. CASE a = 3
  <2>1. /\ "printerfloors" \in DOMAIN colls
        /\ ops \in {FloorsUp(colls), Tail(FloorsUp(colls)), Tail(Tail(FloorsUp(colls)))}
    BY <1>2 DEF Rest
  <2> DEFINE all == FloorsUp(colls)
  <2>2. /\ Head(all) = NoGroups /\ Head(Tail(all)) = NoPrinters
        /\ Tail(Tail(Tail(all))) = <<>> /\ all = <<NoGroups, NoPrinters, ToFloors>>
    BY <2>1, FloorsCommands
  <2>3. ops \in {all, Tail(all), Tail(Tail(all))} BY <2>1
  <2>4. "printerfloors" \in DOMAIN e => FloorsUp(e) = all BY <2>1, Zenon DEF FloorsUp
  <2> HIDE DEF all
  <2>5. CASE ops = Tail(Tail(all)) BY <1>2, <2>2, <2>5 DEF Rest
  <2>6. CASE ops = all \/ ops = Tail(all)
    <3>1. Head(ops) \in {NoGroups, NoPrinters} BY <2>2, <2>6
    <3>2. Head(ops).op # "move" /\ Head(ops).coll = "printerfloors"
      BY <3>1 DEF NoGroups, NoPrinters, Set, Unset
    <3>3. DOMAIN e = DOMAIN colls BY <2>1, <3>2, ExecutedOn DEF Changed
    <3>4. FloorsUp(e) = all /\ "printerfloors" \in DOMAIN e BY <2>1, <2>4, <3>3
    <3>5. Tail(ops) \in {FloorsUp(e), Tail(FloorsUp(e)), Tail(Tail(FloorsUp(e)))}
      BY <2>6, <3>4
    <3>6. QED BY <1>2, <3>4, <3>5 DEF Rest
  <2>7. QED BY <2>3, <2>5, <2>6
<1>3. CASE a \notin {0, 3}
  <2>1. ops = MigrateUp(a + 1, colls) /\ Single(a, ops) BY <1>3, Singles DEF Rest
  <2>2. Tail(ops) = <<>> BY <2>1 DEF Single
  <2>3. QED BY <1>3, <2>2 DEF Rest
<1>4. QED BY <1>1, <1>2, <1>3

\* A command keeps what was saved, and after the last one the models of the next migration
\* find it.
LEMMA CommandKeeps ==
  ASSUME NEW a \in 0..8, NEW ops, NEW colls, NEW s, Rest(ops, a, colls), ops # <<>>,
         Kept(colls, a, TRUE, s), RestKept(ops, a, colls, s),
         Succeeds(colls, Head(ops)), NEW e, e = Executed(colls, Head(ops))
  PROVE  Kept(e, a, TRUE, s) /\ RestKept(Tail(ops), a, e, s)
<1>1. CASE a = 0
  <2>1. a + 1 = 1 /\ 0 + 1 = 1 BY <1>1
  <2>2. CASE ops = ApiKeyUp
    <3>1. e = Executed(colls, NewAppearance) BY <2>2, ApiKeyCommands
    <3>2. Kept(e, 0, TRUE, s) /\ \A d \in e["printers"] : "settingsApperance" \notin DOMAIN d
      BY <1>1, <3>1, ApiKeyAdvances, Zenon DEF NewAppearance
    <3>3. Tail(ops) # <<>> BY <2>2, ApiKeyCommands
    <3>4. RestKept(Tail(ops), a, e, s) BY <1>1, <3>2, <3>3, Zenon DEF RestKept
    <3>5. QED BY <1>1, <3>2, <3>4
  <2>3. CASE ops = Tail(ApiKeyUp)
    <3>1. e = Executed(colls, NewApiKey) BY <2>3, ApiKeyCommands
    <3>2. \A d \in colls["printers"] : "settingsApperance" \notin DOMAIN d
      BY <1>1, <2>3 DEF RestKept
    <3>3. Advanced(e, 0, s) BY <1>1, <3>1, <3>2, ApiKeyAdvances, Zenon DEF NewApiKey
    <3>4. Kept(e, a, TRUE, s) /\ Kept(e, a + 1, FALSE, s) BY <1>1, <3>3, Zenon DEF Advanced
    <3>5. Tail(ops) = <<>> /\ Tail(ops) # Tail(ApiKeyUp) BY <2>3, ApiKeyCommands
    <3>6. RestKept(Tail(ops), a, e, s) BY <3>4, <3>5, Zenon DEF RestKept
    <3>7. QED BY <3>4, <3>6
  <2>4. QED BY <1>1, <2>2, <2>3 DEF Rest
<1>2. CASE a = 3
  <2> DEFINE all == FloorsUp(colls)
  <2>1. "printerfloors" \in DOMAIN colls /\ ops \in {all, Tail(all), Tail(Tail(all))}
    BY <1>2 DEF Rest
  <2>2. /\ Head(all) = NoGroups /\ Tail(all) # <<>> /\ Head(Tail(all)) = NoPrinters
        /\ Tail(Tail(all)) # <<>> /\ Head(Tail(Tail(all))) = ToFloors /\ Tail(Tail(Tail(all))) = <<>>
    BY <2>1, FloorsCommands
  <2> HIDE DEF all
  <2>3. CASE ops = all \/ ops = Tail(all)
    <3>1. Head(ops) \in {NoGroups, NoPrinters} /\ Tail(ops) # <<>> BY <2>2, <2>3
    <3>2. Kept(e, a, TRUE, s) BY <3>1, FloorsAdvance DEF NoGroups, NoPrinters
    <3>3. RestKept(Tail(ops), a, e, s)
      <4>1. a # 0 BY <1>2
      <4>2. QED BY <3>1, <4>1, Zenon DEF RestKept
    <3>4. QED BY <3>2, <3>3
  <2>4. CASE ops = Tail(Tail(all))
    <3>1. Head(ops) = ToFloors /\ Tail(ops) = <<>> BY <2>2, <2>4
    <3>2. Kept(e, a, TRUE, s) BY <3>1, FloorsMoved, Zenon DEF ToFloors
    <3>3. Kept(e, a + 1, FALSE, s)
      <4>1. a + 1 = 4 BY <1>2
      <4>2. QED BY <1>2, <3>2, <4>1, KeptLater, Zenon
    <3>4. RestKept(Tail(ops), a, e, s)
      <4>1. a # 0 BY <1>2
      <4>2. QED BY <3>1, <3>3, <4>1, Zenon DEF RestKept
    <3>5. QED BY <3>2, <3>4
  <2>5. QED BY <2>1, <2>3, <2>4
<1>3. CASE a \notin {0, 3}
  <2>1. ops = MigrateUp(a + 1, colls) /\ Single(a, ops) BY <1>3, Singles DEF Rest
  <2>2. PICK o : ops = <<o>> /\ \A k, t : Kept(k, a, TRUE, t) => Advanced(Executed(k, o), a, t)
    BY <2>1 DEF Single
  <2>3. Head(ops) = o /\ Tail(ops) = <<>> BY <2>2
  <2>4. Advanced(e, a, s) BY <2>2, <2>3
  <2>5. QED BY <1>3, <2>3, <2>4 DEF Advanced, RestKept
<1>4. QED BY <1>1, <1>2, <1>3

\* Only the floors can get in the way.
LEMMA OnlyFloorsFail ==
  ASSUME NEW a \in 0..8, NEW ops, NEW colls, Rest(ops, a, colls), ops # <<>>, ~Succeeds(colls, Head(ops))
  PROVE  a = 3 /\ "printerfloors" \in DOMAIN colls /\ "floors" \in DOMAIN colls
<1>1. CASE a = 0
  <2>1. Head(ops) \in {NewAppearance, NewApiKey} BY <1>1, ApiKeyCommands DEF Rest
  <2>2. Commanded(Head(ops), "printers") BY <2>1, Updates DEF NewAppearance, NewApiKey
  <2>3. QED BY <2>2, Succeed
<1>2. CASE a = 3
  <2> DEFINE all == FloorsUp(colls)
  <2>1. "printerfloors" \in DOMAIN colls /\ ops \in {all, Tail(all), Tail(Tail(all))}
    BY <1>2 DEF Rest
  <2>2. Head(all) = NoGroups /\ Head(Tail(all)) = NoPrinters /\ Head(Tail(Tail(all))) = ToFloors
    BY <2>1, FloorsCommands
  <2> HIDE DEF all
  <2>3. Succeeds(colls, NoGroups) /\ Succeeds(colls, NoPrinters)
    BY Updates, Succeed, Zenon DEF NoGroups, NoPrinters
  <2>4. Head(ops) = ToFloors BY <2>1, <2>2, <2>3
  <2>5. QED BY <1>2, <2>1, <2>4 DEF Succeeds, ToFloors, Move
<1>3. CASE a \notin {0, 3}
  <2>1. ops = MigrateUp(a + 1, colls) /\ Single(a, ops) BY <1>3, Singles DEF Rest
  <2>2. PICK o : ops = <<o>> /\ Succeeds(colls, o) BY <2>1 DEF Single
  <2>3. Head(ops) = o BY <2>2
  <2>4. QED BY <2>2, <2>3
<1>4. QED BY <1>1, <1>2, <1>3

\* A migration begins.
LEMMA MigrationBegins ==
  ASSUME NEW a \in 0..8, NEW colls, NEW ops, ops = MigrateUp(a + 1, colls)
  PROVE  /\ Rest(ops, a, colls)
         /\ \A s, half : Kept(colls, a, half, s) => RestKept(ops, a, colls, s)
<1>1. CASE a = 0
  <2>1. a + 1 = 1 /\ a # 3 /\ a \in {0, 3} BY <1>1
  <2>2. ops = ApiKeyUp BY <2>1, UpsAre
  <2>3. Rest(ops, a, colls) BY <2>1, <2>2, Zenon DEF Rest
  <2>4. ASSUME NEW s PROVE RestKept(ops, a, colls, s)
    BY <2>2, ApiKeyCommands, Zenon DEF RestKept
  <2>5. QED BY <2>3, <2>4
<1>2. CASE a = 3
  <2>1. a + 1 = 4 /\ a # 0 /\ a \in {0, 3} BY <1>2
  <2>2. ops = FloorsUp(colls) BY <2>1, UpsAre
  <2>3. CASE "printerfloors" \in DOMAIN colls
    <3>1. ops # <<>> BY <2>2, <2>3, FloorsCommands
    <3>2. Rest(ops, a, colls) BY <2>1, <2>2, <2>3, Zenon DEF Rest
    <3>3. ASSUME NEW s PROVE RestKept(ops, a, colls, s) BY <2>1, <3>1, Zenon DEF RestKept
    <3>4. QED BY <3>2, <3>3
  <2>4. CASE "printerfloors" \notin DOMAIN colls
    <3>1. ops = <<>> BY <2>2, <2>4 DEF FloorsUp
    <3>2. Rest(ops, a, colls) BY <2>1, <3>1, Zenon DEF Rest
    <3>3. ASSUME NEW s, NEW half, Kept(colls, a, half, s) PROVE RestKept(ops, a, colls, s)
      <4>1. Kept(colls, a + 1, FALSE, s) BY <1>2, <2>1, <3>3, KeptLater, Zenon
      <4>2. QED BY <2>1, <4>1, Zenon DEF RestKept
    <3>4. QED BY <3>2, <3>3
  <2>5. QED BY <2>3, <2>4
<1>3. CASE a \notin {0, 3}
  <2>1. Single(a, ops) /\ a # 0 /\ a # 3 BY <1>3, Singles
  <2>2. ops # <<>>
    <3>1. PICK o : ops = <<o>> BY <2>1 DEF Single
    <3>2. QED BY <3>1
  <2>3. Rest(ops, a, colls) BY <2>1, Zenon DEF Rest
  <2>4. ASSUME NEW s PROVE RestKept(ops, a, colls, s) BY <2>1, <2>2, Zenon DEF RestKept
  <2>5. QED BY <2>3, <2>4
<1>4. QED BY <1>1, <1>2, <1>3

Start(colls) == [colls |-> colls, ok |-> TRUE]

\* The commands of a migration, one after another; none has more than four.
Runs(r, colls, ops) ==
  /\ r[0] = Start(colls)
  /\ \A n \in 1..Len(ops) : r[n] = Then(r[n - 1], ops[n])
  /\ Migrated(colls, ops) = r[Len(ops)]

LEMMA MigratedRuns ==
  ASSUME NEW colls, NEW ops, Len(ops) \in 0..4
  PROVE  \E r : Runs(r, colls, ops)
<1> DEFINE s0 == Start(colls)
           s1 == Then(s0, ops[1])
           s2 == Then(s1, ops[2])
           s3 == Then(s2, ops[3])
           s4 == Then(s3, ops[4])
           k == Len(ops)
           After(f) == [n \in 0..k |-> IF n = 0 THEN s0 ELSE Then(f[n - 1], ops[n])]
           w == [n \in 0..k |-> IF n = 0 THEN s0 ELSE IF n = 1 THEN s1 ELSE IF n = 2 THEN s2
                                ELSE IF n = 3 THEN s3 ELSE s4]
           r == CHOOSE f : f = After(f)
<1>1. w = After(w)
  <2>1. ASSUME NEW n \in 0..k PROVE w[n] = IF n = 0 THEN s0 ELSE Then(w[n - 1], ops[n])
    <3> HIDE DEF s0
    <3>1. CASE n = 0 BY <3>1
    <3>2. CASE n = 1 BY <3>2
    <3>3. CASE n = 2
      <4> HIDE DEF s1
      <4>1. QED BY <3>3
    <3>4. CASE n = 3
      <4> HIDE DEF s2
      <4>1. QED BY <3>4
    <3>5. CASE n = 4
      <4> HIDE DEF s3
      <4>1. QED BY <3>5
    <3>6. QED BY <3>1, <3>2, <3>3, <3>4, <3>5
  <2>2. w = [n \in 0..k |-> w[n]] OBVIOUS
  <2> HIDE DEF w, s0
  <2>3. QED BY <2>1, <2>2
<1>2. r = After(r)
  <2> HIDE DEF w, After
  <2>1. QED BY <1>1
<1>3. Migrated(colls, ops) = r[k] BY DEF Migrated, Start
<1>4. r[0] = s0
  <2> HIDE DEF r, s0
  <2>1. QED BY <1>2
<1>5. \A n \in 1..k : r[n] = Then(r[n - 1], ops[n])
  <2> HIDE DEF r, s0
  <2>1. QED BY <1>2
<1>6. Runs(r, colls, ops) BY <1>3, <1>4, <1>5, Zenon DEF Runs
<1>7. QED BY <1>6

\* How far a migration has come.
Going(st, rest, a, s) ==
  /\ st.ok \in BOOLEAN
  /\ st.ok => Rest(rest, a, st.colls) /\ Kept(st.colls, a, TRUE, s) /\ RestKept(rest, a, st.colls, s)
  /\ ~st.ok => a = 3 /\ Kept(st.colls, a, TRUE, s)

LEMMA GoesOn ==
  ASSUME NEW st, NEW rest, NEW a \in 0..8, NEW s, Going(st, rest, a, s), rest # <<>>
  PROVE  Going(Then(st, Head(rest)), Tail(rest), a, s)
<1> DEFINE o == Head(rest)
           e == Executed(st.colls, o)
           next == Then(st, o)
<1>1. CASE st.ok /\ Succeeds(st.colls, o)
  <2>1. next.colls = e /\ next.ok = TRUE BY <1>1 DEF Then
  <2>2. Rest(Tail(rest), a, e) BY <1>1, RestKeeps DEF Going
  <2>3. Kept(e, a, TRUE, s) /\ RestKept(Tail(rest), a, e, s) BY <1>1, CommandKeeps DEF Going
  <2> HIDE DEF next, e
  <2>4. Going(next, Tail(rest), a, s) BY <2>1, <2>2, <2>3 DEF Going
  <2>5. QED BY <2>4 DEF next
<1>2. CASE ~(st.ok /\ Succeeds(st.colls, o))
  <2>1. next.colls = st.colls /\ next.ok = FALSE BY <1>2 DEF Then
  <2>2. a = 3 /\ Kept(st.colls, a, TRUE, s)
    <3>1. CASE ~st.ok BY <3>1 DEF Going
    <3>2. CASE st.ok BY <1>2, <3>2, OnlyFloorsFail DEF Going
    <3>3. QED BY <3>1, <3>2
  <2> HIDE DEF next
  <2>3. Going(next, Tail(rest), a, s) BY <2>1, <2>2 DEF Going
  <2>4. QED BY <2>3 DEF next
<1>3. QED BY <1>1, <1>2

\* What a migration of one, two or three commands makes of the collections.
LEMMA Migrates ==
  ASSUME NEW colls
  PROVE  /\ Migrated(colls, <<>>) = Start(colls)
         /\ \A o : Migrated(colls, <<o>>) = Then(Start(colls), o)
         /\ \A o, p : Migrated(colls, <<o, p>>) = Then(Then(Start(colls), o), p)
         /\ \A o, p, q : Migrated(colls, <<o, p, q>>) = Then(Then(Then(Start(colls), o), p), q)
         /\ \A o, p, q, r : Migrated(colls, <<o, p, q, r>>) = Then(Then(Then(Then(Start(colls), o), p), q), r)
<1>1. Migrated(colls, <<>>) = Start(colls)
  <2> DEFINE ops == <<>>
  <2>1. Len(ops) = 0 /\ Len(ops) \in 0..4 OBVIOUS
  <2> HIDE DEF ops
  <2>2. PICK f : Runs(f, colls, ops) BY <2>1, MigratedRuns
  <2>3. f[0] = Start(colls) /\ Migrated(colls, ops) = f[0] BY <2>1, <2>2 DEF Runs
  <2>4. QED BY <2>3, Zenon DEF ops
<1>2. ASSUME NEW o PROVE Migrated(colls, <<o>>) = Then(Start(colls), o)
  <2> DEFINE ops == <<o>>
  <2>1. Len(ops) = 1 /\ Len(ops) \in 0..4 /\ ops[1] = o OBVIOUS
  <2> HIDE DEF ops
  <2>2. PICK f : Runs(f, colls, ops) BY <2>1, MigratedRuns
  <2>3. f[0] = Start(colls) /\ f[1] = Then(f[0], o) /\ Migrated(colls, ops) = f[1]
    BY <2>1, <2>2 DEF Runs
  <2>4. QED BY <2>3, Zenon DEF ops
<1>3. ASSUME NEW o, NEW p PROVE Migrated(colls, <<o, p>>) = Then(Then(Start(colls), o), p)
  <2> DEFINE ops == <<o, p>>
  <2>1. Len(ops) = 2 /\ Len(ops) \in 0..4 /\ ops[1] = o /\ ops[2] = p OBVIOUS
  <2> HIDE DEF ops
  <2>2. PICK f : Runs(f, colls, ops) BY <2>1, MigratedRuns
  <2>3. f[0] = Start(colls) /\ f[1] = Then(f[0], o) /\ f[2] = Then(f[1], p) /\ Migrated(colls, ops) = f[2]
    BY <2>1, <2>2 DEF Runs
  <2>4. QED BY <2>3, Zenon DEF ops
<1>4. ASSUME NEW o, NEW p, NEW q
      PROVE  Migrated(colls, <<o, p, q>>) = Then(Then(Then(Start(colls), o), p), q)
  <2> DEFINE ops == <<o, p, q>>
  <2>1. Len(ops) = 3 /\ Len(ops) \in 0..4 /\ ops[1] = o /\ ops[2] = p /\ ops[3] = q OBVIOUS
  <2> HIDE DEF ops
  <2>2. PICK f : Runs(f, colls, ops) BY <2>1, MigratedRuns
  <2>3. /\ f[0] = Start(colls) /\ f[1] = Then(f[0], o) /\ f[2] = Then(f[1], p)
        /\ f[3] = Then(f[2], q) /\ Migrated(colls, ops) = f[3]
    BY <2>1, <2>2 DEF Runs
  <2>4. QED BY <2>3, Zenon DEF ops
<1>5. ASSUME NEW o, NEW p, NEW q, NEW r
      PROVE  Migrated(colls, <<o, p, q, r>>) = Then(Then(Then(Then(Start(colls), o), p), q), r)
  <2> DEFINE ops == <<o, p, q, r>>
  <2>1. Len(ops) = 4 /\ Len(ops) \in 0..4 /\ ops[1] = o /\ ops[2] = p /\ ops[3] = q /\ ops[4] = r
    OBVIOUS
  <2> HIDE DEF ops
  <2>2. PICK f : Runs(f, colls, ops) BY <2>1, MigratedRuns
  <2>3. /\ f[0] = Start(colls) /\ f[1] = Then(f[0], o) /\ f[2] = Then(f[1], p)
        /\ f[3] = Then(f[2], q) /\ f[4] = Then(f[3], r) /\ Migrated(colls, ops) = f[4]
    BY <2>1, <2>2 DEF Runs
  <2>4. QED BY <2>3, Zenon DEF ops
<1>6. QED BY <1>1, <1>2, <1>3, <1>4, <1>5

\* A migration up keeps what was saved, or stops at the floors.
LEMMA UpKeeps ==
  ASSUME NEW a \in 0..8, NEW colls, NEW s, NEW half \in BOOLEAN, Kept(colls, a, half, s),
         NEW done, done = Migrated(colls, MigrateUp(a + 1, colls))
  PROVE  IF done.ok THEN Kept(done.colls, a + 1, FALSE, s) ELSE Kept(done.colls, a, half, s)
<1> DEFINE ops == MigrateUp(a + 1, colls)
           start == Start(colls)
<1>1. Going(start, ops, a, s)
  <2>1. start.ok = TRUE /\ start.colls = colls BY DEF Start
  <2>2. Rest(ops, a, colls) /\ RestKept(ops, a, colls, s) /\ Kept(colls, a, TRUE, s)
    BY MigrationBegins, KeptHalf
  <2> HIDE DEF start, ops
  <2>3. QED BY <2>1, <2>2 DEF Going
<1>2. Going(done, <<>>, a, s)
  <2>1. CASE a = 0
    <3>1. ops = ApiKeyUp BY <2>1, UpsAre
    <3>2. Going(Then(start, NewAppearance), <<NewApiKey>>, a, s)
      BY <1>1, <3>1, ApiKeyCommands, GoesOn
    <3>3. Going(Then(Then(start, NewAppearance), NewApiKey), <<>>, a, s)
      BY <3>2, ApiKeyCommands, GoesOn
    <3>4. ops = <<NewAppearance, NewApiKey>> BY <3>1 DEF ApiKeyUp, NewAppearance, NewApiKey
    <3>5. done = Then(Then(start, NewAppearance), NewApiKey) BY <3>4, Migrates
    <3>6. QED BY <3>3, <3>5
  <2>2. CASE a = 3
    <3>1. ops = FloorsUp(colls) BY <2>2, UpsAre
    <3>2. CASE "printerfloors" \notin DOMAIN colls
      BY <3>1, <3>2, <1>1, Migrates DEF FloorsUp
    <3>3. CASE "printerfloors" \in DOMAIN colls
      <4> DEFINE two == Tail(ops)
                 one == Tail(two)
                 p == Then(start, NoGroups)
                 q == Then(p, NoPrinters)
                 r == Then(q, ToFloors)
      <4>1. /\ ops # <<>> /\ Head(ops) = NoGroups /\ two # <<>> /\ Head(two) = NoPrinters
            /\ one # <<>> /\ Head(one) = ToFloors /\ Tail(one) = <<>>
            /\ ops = <<NoGroups, NoPrinters, ToFloors>>
        BY <3>1, <3>3, FloorsCommands
      <4>2. done = r BY <4>1, Migrates
      <4> HIDE DEF start, ops
      <4>3. Going(p, two, a, s) BY <1>1, <4>1, GoesOn
      <4> HIDE DEF two, p
      <4>4. Going(q, one, a, s) BY <4>1, <4>3, GoesOn
      <4> HIDE DEF one, q
      <4>5. Going(r, <<>>, a, s) BY <4>1, <4>4, GoesOn
      <4>6. QED BY <4>2, <4>5
    <3>4. QED BY <3>2, <3>3
  <2>3. CASE a \notin {0, 3}
    <3>1. Single(a, ops) BY <2>3, Singles
    <3>2. PICK o : ops = <<o>> BY <3>1 DEF Single
    <3>3. done = Then(start, o) BY <3>2, Migrates
    <3> HIDE DEF start, ops
    <3>4. ops # <<>> /\ Head(ops) = o /\ Tail(ops) = <<>> BY <3>2
    <3>5. QED BY <1>1, <3>3, <3>4, GoesOn
  <2>4. QED BY <2>1, <2>2, <2>3
<1>3. CASE done.ok BY <1>2, <1>3 DEF Going, RestKept
<1>4. CASE ~done.ok
  <2>1. a = 3 /\ Kept(done.colls, a, TRUE, s) BY <1>2, <1>4 DEF Going
  <2>2. Kept(done.colls, a, half, s)
    <3>1. a \notin {0, 2, 6} BY <2>1
    <3>2. QED BY <2>1, <3>1, KeptMore, Zenon
  <2>3. QED BY <1>4, <2>2
<1>5. QED BY <1>3, <1>4

\* Where a migration is no matter of printers, or of users, taking it back is none either.
LEMMA PrinterEarlier ==
  ASSUME NEW d, NEW a \in {3, 4, 5, 6, 8, 9}, NEW s, PrinterKept(d, a, FALSE, s)
  PROVE  PrinterKept(d, a - 1, FALSE, s)
<1>1. NameKept(d, a - 1, FALSE, s["name"]) BY DEF PrinterKept, NameKept
<1>2. ApiKeyKept(d, a - 1, FALSE, s["apiKey"]) /\ EnabledKept(d, a - 1, s["enabled"])
  BY DEF PrinterKept, ApiKeyKept, EnabledKept
<1>3. QED BY <1>1, <1>2 DEF PrinterKept

LEMMA UserEarlier ==
  ASSUME NEW d, NEW a \in 1..9, a # 3, NEW v, UserKept(d, a, FALSE, v)
  PROVE  UserKept(d, a - 1, FALSE, v)
BY DEF UserKept

LEMMA PrintersEarlier ==
  ASSUME NEW docs, NEW a \in {3, 4, 5, 6, 8, 9}, NEW s, PrintersKept(docs, a, FALSE, s)
  PROVE  PrintersKept(docs, a - 1, FALSE, s)
BY PrinterEarlier DEF PrintersKept

LEMMA UsersEarlier ==
  ASSUME NEW docs, NEW a \in 1..9, a # 3, NEW s, UsersKept(docs, a, FALSE, s)
  PROVE  UsersKept(docs, a - 1, FALSE, s)
BY UserEarlier DEF UsersKept

\* Taken back, the migrations of one command leave the models of before what was saved.
LEMMA PrinterTakenBack ==
  ASSUME NEW d, NEW a \in {5, 6, 7, 8, 9}, NEW s, PrinterKept(d, a, FALSE, s), NEW o, NEW e, e = Updated(d, o),
         \/ a = 5 /\ o = Set("printers", "sortIndex", 0)
         \/ a = 6 /\ o = Set("printers", "name", "default")
         \/ a = 7 /\ o = Nest("printers", "name", "settingsAppearance")
         \/ a = 8 /\ o = Set("printers", "settingsAppearance", {})
         \/ a = 9 /\ o = Set("printers", "fileList", "object")
  PROVE  PrinterKept(e, a - 1, FALSE, s)
<1>1. CASE a # 7
  <2>1. PICK f \in {"sortIndex", "name", "settingsAppearance", "fileList"} :
          /\ ButFor(d, e, {f})
          /\ f = "name" => a = 6
          /\ f = "settingsAppearance" => a = 8
    <3>1. CASE a = 5 BY <3>1, UpdatedBySet
    <3>2. CASE a = 6 BY <3>2, UpdatedBySet
    <3>3. CASE a = 8 BY <3>3, UpdatedBySet
    <3>4. CASE a = 9 BY <3>4, UpdatedBySet
    <3>5. QED BY <1>1, <3>1, <3>2, <3>3, <3>4
  <2>2. /\ a >= 7 => Alike(d, e, "name")
        /\ a < 7 => Alike(d, e, "settingsAppearance")
        /\ Alike(d, e, "apiKey") /\ Alike(d, e, "enabled")
    BY <2>1 DEF ButFor, Alike, Has
  <2>3. /\ a >= 7 => Has(d, "name", s["name"])
        /\ a < 7 => Has(d, "settingsAppearance", {s["name"]})
        /\ Has(d, "apiKey", s["apiKey"]) /\ Has(d, "enabled", s["enabled"])
    BY DEF PrinterKept, NameKept, ApiKeyKept, EnabledKept
  <2>4. /\ a >= 7 => Has(e, "name", s["name"])
        /\ a < 7 => Has(e, "settingsAppearance", {s["name"]})
        /\ Has(e, "apiKey", s["apiKey"]) /\ Has(e, "enabled", s["enabled"])
    BY <2>2, <2>3, Zenon DEF Alike
  <2>5. NameKept(e, a - 1, FALSE, s["name"]) BY <1>1, <2>4 DEF NameKept
  <2>6. ApiKeyKept(e, a - 1, FALSE, s["apiKey"]) /\ EnabledKept(e, a - 1, s["enabled"])
    BY <2>4 DEF ApiKeyKept, EnabledKept
  <2>7. QED BY <2>5, <2>6 DEF PrinterKept
<1>2. CASE a = 7
  <2>1. Nested(d, e, "name", "settingsAppearance") BY <1>2, UpdatedByNest
  <2>2. Has(d, "name", s["name"]) /\ Has(d, "apiKey", s["apiKey"]) /\ Has(d, "enabled", s["enabled"])
    BY <1>2 DEF PrinterKept, NameKept, ApiKeyKept, EnabledKept
  <2>3. Has(e, "settingsAppearance", {s["name"]}) /\ Has(e, "apiKey", s["apiKey"]) /\ Has(e, "enabled", s["enabled"])
    BY <2>1, <2>2 DEF Nested, Has, ButFor
  <2>4. NameKept(e, a - 1, FALSE, s["name"]) BY <1>2, <2>3 DEF NameKept
  <2>5. ApiKeyKept(e, a - 1, FALSE, s["apiKey"]) /\ EnabledKept(e, a - 1, s["enabled"])
    BY <1>2, <2>3 DEF ApiKeyKept, EnabledKept
  <2>6. QED BY <2>4, <2>5 DEF PrinterKept
<1>3. QED BY <1>1, <1>2

LEMMA UserTakenBack ==
  ASSUME NEW d, NEW v, UserKept(d, 3, FALSE, v),
         NEW e, e = Updated(d, Rename("users", "passwordHash", "password"))
  PROVE  UserKept(e, 2, FALSE, v)
<1>1. Renamed(d, e, "passwordHash", "password") BY UpdatedByRename
<1>2. Has(e, "password", v) BY <1>1 DEF UserKept, Has, Renamed
<1>3. QED BY <1>2 DEF UserKept

SingleDown(a, ops) ==
  \E o : /\ ops = <<o>>
         /\ \A colls : Succeeds(colls, o)
         /\ \A colls, s : Kept(colls, a, FALSE, s) => Kept(Executed(colls, o), a - 1, FALSE, s)

LEMMA PrintersTakenBack ==
  ASSUME NEW a \in {5, 6, 7, 8, 9}, NEW o,
         \/ a = 5 /\ o = Set("printers", "sortIndex", 0)
         \/ a = 6 /\ o = Set("printers", "name", "default")
         \/ a = 7 /\ o = Nest("printers", "name", "settingsAppearance")
         \/ a = 8 /\ o = Set("printers", "settingsAppearance", {})
         \/ a = 9 /\ o = Set("printers", "fileList", "object")
  PROVE  SingleDown(a, <<o>>)
<1>1. Commanded(o, "printers") BY Updates
<1>2. \A colls : Succeeds(colls, o) BY <1>1, Succeed, Zenon
<1>3. o.op # "move" /\ o.coll = "printers" BY <1>1 DEF Commanded
<1>4. ASSUME NEW colls, NEW s, Kept(colls, a, FALSE, s) PROVE Kept(Executed(colls, o), a - 1, FALSE, s)
  <2> DEFINE e == Executed(colls, o)
             b == a - 1
  <2>1. \A d \in colls["printers"] : PrinterKept(Updated(d, o), b, FALSE, s)
    BY <1>4, PrinterTakenBack DEF Kept, PrintersKept
  <2>2. a \in 1..9 /\ a # 3 OBVIOUS
  <2>3. UsersKept(colls["users"], b, FALSE, s) BY <1>4, <2>2, UsersEarlier DEF Kept
  <2> HIDE DEF e, b
  <2>4. Kept(Executed(colls, o), b, FALSE, s)
    BY <1>3, <1>4, <2>1, <2>3, PrintersUpdated, Zenon
  <2>5. QED BY <2>4 DEF b
<1>5. QED BY <1>2, <1>4, Zenon DEF SingleDown

LEMMA UsersTakenBack == SingleDown(3, <<Rename("users", "passwordHash", "password")>>)
<1> DEFINE o == Rename("users", "passwordHash", "password")
<1>1. Commanded(o, "users") BY Updates
<1>2. \A colls : Succeeds(colls, o) BY <1>1, Succeed, Zenon
<1>3. o.op # "move" /\ o.coll = "users" BY <1>1 DEF Commanded
<1>4. ASSUME NEW colls, NEW s, Kept(colls, 3, FALSE, s) PROVE Kept(Executed(colls, o), 3 - 1, FALSE, s)
  <2>1. 3 - 1 = 2 /\ 3 \in {3, 4, 5, 6, 8, 9} OBVIOUS
  <2>2. \A d \in colls["users"] : UserKept(Updated(d, o), 2, FALSE, s["passwordHash"])
    BY <1>4, UserTakenBack DEF Kept, UsersKept
  <2>3. PrintersKept(colls["printers"], 3 - 1, FALSE, s)
    BY <1>4, <2>1, PrintersEarlier DEF Kept
  <2> HIDE DEF o
  <2>4. Kept(Executed(colls, o), 2, FALSE, s) BY <1>3, <1>4, <2>1, <2>2, <2>3, UsersUpdated
  <2>5. QED BY <2>1, <2>4
<1> HIDE DEF o
<1>5. SingleDown(3, <<o>>) BY <1>2, <1>4, Zenon DEF SingleDown
<1>6. QED BY <1>5 DEF o

OldAppearance == Rename("printers", "settingsAppearance", "settingsApperance")
OldApiKey == Rename("printers", "apiKey", "apikey")

\* The first migration taken back.
LEMMA PrinterOfOld ==
  ASSUME NEW d, NEW s, PrinterKept(d, 1, FALSE, s), NEW e, e = Updated(d, OldAppearance),
         NEW f, f = Updated(e, OldApiKey)
  PROVE  PrinterKept(f, 0, FALSE, s)
<1>1. Has(d, "settingsAppearance", {s["name"]}) /\ Has(d, "apiKey", s["apiKey"]) /\ EnabledKept(d, 1, s["enabled"])
  BY DEF PrinterKept, NameKept, ApiKeyKept
<1>2. Renamed(d, e, "settingsAppearance", "settingsApperance")
  BY UpdatedByRename DEF OldAppearance
<1>3. Has(e, "settingsApperance", {s["name"]}) /\ Has(e, "apiKey", s["apiKey"])
  BY <1>1, <1>2 DEF Renamed, ButFor, Has
<1>4. Renamed(e, f, "apiKey", "apikey") BY UpdatedByRename DEF OldApiKey
<1>5. Has(f, "settingsApperance", {s["name"]}) /\ Has(f, "apikey", s["apiKey"])
  BY <1>3, <1>4 DEF Renamed, ButFor, Has
<1>6. NameKept(f, 0, FALSE, s["name"]) BY <1>5 DEF NameKept
<1>7. ApiKeyKept(f, 0, FALSE, s["apiKey"]) BY <1>5 DEF ApiKeyKept
<1>8. EnabledKept(f, 0, s["enabled"]) BY <1>1 DEF EnabledKept
<1>9. QED BY <1>6, <1>7, <1>8 DEF PrinterKept

LEMMA ApiKeyTakenBack ==
  ASSUME NEW colls, NEW s, Kept(colls, 1, FALSE, s), NEW e, e = Executed(colls, OldAppearance),
         NEW f, f = Executed(e, OldApiKey)
  PROVE  Kept(f, 0, FALSE, s)
<1>1. /\ OldAppearance.op # "move" /\ OldAppearance.coll = "printers"
      /\ OldApiKey.op # "move" /\ OldApiKey.coll = "printers"
  BY DEF OldAppearance, OldApiKey, Rename
<1>2. Changed(colls, e, OldAppearance) BY <1>1, ExecutedOn DEF Kept
<1>3. Changed(e, f, OldApiKey) BY <1>1, <1>2, ExecutedOn DEF Kept, Changed
<1>4. /\ DOMAIN f = DOMAIN colls
      /\ \A k \in DOMAIN colls : k # "printers" => f[k] = colls[k]
  BY <1>1, <1>2, <1>3 DEF Changed
<1>5. PrintersKept(f["printers"], 0, FALSE, s)
  <2>1. f["printers"] = {Updated(x, OldApiKey) : x \in {Updated(d, OldAppearance) : d \in colls["printers"]}}
    BY <1>1, <1>2, <1>3 DEF Changed
  <2>2. colls["printers"] # {} /\ \A d \in colls["printers"] : PrinterKept(d, 1, FALSE, s)
    BY DEF Kept, PrintersKept
  <2>3. \A d \in colls["printers"] : PrinterKept(Updated(Updated(d, OldAppearance), OldApiKey), 0, FALSE, s)
    BY <2>2, PrinterOfOld
  <2>4. QED BY <2>1, <2>2, <2>3 DEF PrintersKept
<1>6. UsersKept(f["users"], 0, FALSE, s)
  <2>1. 1 \in 1..9 /\ 1 # 3 /\ 1 - 1 = 0 OBVIOUS
  <2>2. UsersKept(colls["users"], 1 - 1, FALSE, s) BY <2>1, UsersEarlier DEF Kept
  <2>3. QED BY <1>4, <2>1, <2>2 DEF Kept
<1>7. FloorsKept(f, s["floor"]) BY <1>4 DEF Kept, FloorsKept
<1>8. QED BY <1>4, <1>5, <1>6, <1>7 DEF Kept

\* The floors taken back, as far as that goes.
LEMMA FloorsGoOn ==
  ASSUME NEW st, NEW s, Kept(st.colls, 4, FALSE, s),
         NEW o, o \in {Set("printerfloors", "printerGroups", {}), Unset("printerfloors", "printers"),
                       Move("floors", "printerfloors"), Refused},
         NEW next, next = Then(st, o)
  PROVE  Kept(next.colls, 4, FALSE, s)
<1>1. CASE st.ok /\ Succeeds(st.colls, o)
  <2>1. next.colls = Executed(st.colls, o) BY <1>1 DEF Then
  <2>2. o # Refused
    <3>1. o.op # "refused" BY <1>1 DEF Succeeds
    <3>2. Refused.op = "refused" BY DEF Refused
    <3>3. QED BY <3>1, <3>2
  <2>3. CASE o = Move("floors", "printerfloors") BY <1>1, <2>1, <2>3, FloorsMoved
  <2>4. CASE o \in {Set("printerfloors", "printerGroups", {}), Unset("printerfloors", "printers")}
    BY <2>1, <2>4, FloorsAdvance
  <2>5. QED BY <2>2, <2>3, <2>4
<1>2. CASE ~(st.ok /\ Succeeds(st.colls, o)) BY <1>2 DEF Then
<1>3. QED BY <1>1, <1>2

LEMMA FloorsTakenBack ==
  ASSUME NEW colls, NEW s, Kept(colls, 4, FALSE, s), NEW done, done = Migrated(colls, FloorsDown(colls))
  PROVE  Kept(done.colls, 4, FALSE, s)
<1> DEFINE p == Set("printerfloors", "printerGroups", {})
           q == Unset("printerfloors", "printers")
           r == Move("floors", "printerfloors")
           z == Refused
           st == Start(colls)
           st1 == Then(st, p)
           st2 == Then(st1, q)
           st3 == Then(st2, r)
           st4 == Then(st3, z)
           refused == Then(st, z)
           ops == FloorsDown(colls)
<1>1. ops \in {<<>>, <<z>>, <<p, q, r>>, <<p, q, r, z>>}
  <2>1. ops = (IF "floors" \notin DOMAIN colls THEN <<>> ELSE <<p, q, r>>) \o
              (IF "printerfloors" \notin DOMAIN colls THEN <<z>> ELSE <<>>)
    BY DEF FloorsDown
  <2> HIDE DEF p, q, r, z, ops
  <2>2. <<>> \o <<>> = <<>> /\ <<>> \o <<z>> = <<z>> /\ <<p, q, r>> \o <<>> = <<p, q, r>>
    OBVIOUS
  <2>3. <<p, q, r>> \o <<z>> = <<p, q, r, z>>
    <3> DEFINE u == <<p, q, r>> \o <<z>>
               v == <<p, q, r, z>>
    <3>1. u \in Seq({p, q, r, z}) /\ Len(u) = 4 /\ u[1] = p /\ u[2] = q /\ u[3] = r /\ u[4] = z
      OBVIOUS
    <3>2. v \in Seq({p, q, r, z}) /\ Len(v) = 4 /\ v[1] = p /\ v[2] = q /\ v[3] = r /\ v[4] = z
      OBVIOUS
    <3> HIDE DEF u, v
    <3>3. \A i \in 1..Len(u) : u[i] = v[i] BY <3>1, <3>2
    <3>4. u = v BY <3>1, <3>2, <3>3, SeqEqual
    <3>5. QED BY <3>4 DEF u, v
  <2>4. QED BY <2>1, <2>2, <2>3
<1>2. done \in {st, refused, st3, st4}
  <2>1. done = Migrated(colls, ops) OBVIOUS
  <2> HIDE DEF p, q, r, z, ops
  <2>2. ops = <<>> => done = st BY <2>1, Migrates, Zenon
  <2>3. ops = <<z>> => done = refused BY <2>1, Migrates, Zenon
  <2>4. ops = <<p, q, r>> => done = st3 BY <2>1, Migrates
  <2>5. ops = <<p, q, r, z>> => done = st4 BY <2>1, Migrates
  <2> HIDE DEF st, refused, st3, st4
  <2>6. QED BY <1>1, <2>2, <2>3, <2>4, <2>5
<1>3. /\ p \in {p, q, r, z} /\ q \in {p, q, r, z} /\ r \in {p, q, r, z} /\ z \in {p, q, r, z}
      /\ {p, q, r, z} = {Set("printerfloors", "printerGroups", {}), Unset("printerfloors", "printers"),
                         Move("floors", "printerfloors"), Refused}
  BY Zenon
<1>4. Kept(st.colls, 4, FALSE, s) BY DEF Start
<1> HIDE DEF p, q, r, z, st
<1>5. Kept(st1.colls, 4, FALSE, s) /\ Kept(refused.colls, 4, FALSE, s)
  BY <1>3, <1>4, FloorsGoOn
<1> HIDE DEF st1
<1>6. Kept(st2.colls, 4, FALSE, s) BY <1>3, <1>5, FloorsGoOn
<1> HIDE DEF st2
<1>7. Kept(st3.colls, 4, FALSE, s) BY <1>3, <1>6, FloorsGoOn
<1> HIDE DEF st3
<1>8. Kept(st4.colls, 4, FALSE, s) BY <1>3, <1>7, FloorsGoOn
<1>9. QED BY <1>2, <1>4, <1>5, <1>7, <1>8

\* A migration down that no other was cut short before keeps what was saved.
LEMMA DownKeeps ==
  ASSUME NEW a \in 1..9, NEW colls, NEW s, Kept(colls, a, FALSE, s),
         NEW done, done = Migrated(colls, MigrateDown(a, colls))
  PROVE  IF done.ok THEN Kept(done.colls, a - 1, FALSE, s) ELSE Kept(done.colls, a, FALSE, s)
<1> DEFINE ops == MigrateDown(a, colls)
           st == Start(colls)
<1>0. st.ok = TRUE /\ st.colls = colls BY DEF Start
<1>1. CASE a = 1
  <2>1. ops = <<OldAppearance, OldApiKey>>
    BY <1>1, DownsAre DEF ApiKeyDown, OldAppearance, OldApiKey
  <2> DEFINE e == Executed(colls, OldAppearance)
             one == Then(st, OldAppearance)
  <2>2. \A k : Succeeds(k, OldAppearance) /\ Succeeds(k, OldApiKey)
    BY Updates, Succeed, Zenon DEF OldAppearance, OldApiKey
  <2>3. done = Then(one, OldApiKey) BY <2>1, Migrates
  <2> HIDE DEF st, ops
  <2>4. one.ok = TRUE /\ one.colls = e BY <1>0, <2>2 DEF Then
  <2> HIDE DEF one
  <2>5. done.ok = TRUE /\ done.colls = Executed(e, OldApiKey) BY <2>2, <2>3, <2>4 DEF Then
  <2>6. Kept(done.colls, 0, FALSE, s) BY <1>1, <2>5, ApiKeyTakenBack
  <2>7. a - 1 = 0 BY <1>1
  <2>8. QED BY <2>5, <2>6, <2>7
<1>2. CASE a = 2
  <2>1. ops = <<Refused>> BY <1>2, DownsAre DEF EnabledDown
  <2>2. done = Then(st, Refused) BY <2>1, Migrates
  <2>3. ~Succeeds(colls, Refused) BY DEF Succeeds, Refused
  <2> HIDE DEF st, ops
  <2>4. done.ok = FALSE /\ done.colls = colls BY <1>0, <2>2, <2>3 DEF Then
  <2>5. QED BY <2>4
<1>3. CASE a = 4
  <2>1. ops = FloorsDown(colls) BY <1>3, DownsAre
  <2>2. Kept(done.colls, 4, FALSE, s) BY <1>3, <2>1, FloorsTakenBack
  <2>3. Kept(done.colls, 4 - 1, FALSE, s)
    <3>1. 4 \in {3, 4, 5, 6, 8, 9} /\ 4 \in 1..9 /\ 4 # 3 OBVIOUS
    <3>2. /\ PrintersKept(done.colls["printers"], 4 - 1, FALSE, s)
          /\ UsersKept(done.colls["users"], 4 - 1, FALSE, s)
      BY <2>2, <3>1, PrintersEarlier, UsersEarlier DEF Kept
    <3>3. QED BY <2>2, <3>2 DEF Kept
  <2>4. QED BY <1>3, <2>2, <2>3
<1>4. CASE a \in {3, 5, 6, 7, 8, 9}
  <2>1. SingleDown(a, ops)
    <3>1. CASE a = 3 BY <3>1, UsersTakenBack, DownsAre DEF PasswordHashDown
    <3>2. CASE a = 5 BY <3>2, DownsAre, PrintersTakenBack DEF SortIndexDown
    <3>3. CASE a = 6 BY <3>3, DownsAre, PrintersTakenBack DEF UserNameDown
    <3>4. CASE a = 7 BY <3>4, DownsAre, PrintersTakenBack DEF FlattenNameDown
    <3>5. CASE a = 8 BY <3>5, DownsAre, PrintersTakenBack DEF SettingsAppearanceDown
    <3>6. CASE a = 9 BY <3>6, DownsAre, PrintersTakenBack DEF FileListDown
    <3>7. QED BY <1>4, <3>1, <3>2, <3>3, <3>4, <3>5, <3>6
  <2>2. PICK o : /\ ops = <<o>> /\ Succeeds(colls, o)
                 /\ Kept(colls, a, FALSE, s) => Kept(Executed(colls, o), a - 1, FALSE, s)
    BY <2>1, Zenon DEF SingleDown
  <2>3. done = Then(st, o) BY <2>2, Migrates
  <2> HIDE DEF st, ops
  <2>4. done.ok = TRUE /\ done.colls = Executed(colls, o) BY <1>0, <2>2, <2>3 DEF Then
  <2>5. QED BY <2>2, <2>4
<1>5. a = 1 \/ a = 2 \/ a = 4 \/ a \in {3, 5, 6, 7, 8, 9} OBVIOUS
<1>6. QED BY <1>1, <1>2, <1>3, <1>4, <1>5, Zenon

---------------------------------------------------------------------------
(* The steps that are not about MongoDB                                    *)
\* What the invariant looks at, other than MongoDB: how the runs go on, and what was saved.
RunsOn ==
  /\ \A c \in Callers : InMongo(c) /\ c \in DOMAIN mig => run'[c] = 1
  /\ Over' /\ ~env.isTypeormMode => Over

NotesStay ==
  /\ past'.saved = past.saved /\ past'.excused = past.excused
  /\ past'.cut = past.cut /\ past'.dropped = past.dropped

MongoSpared == mongo' = mongo /\ mig' = mig /\ env' = env /\ RunsOn /\ NotesStay

LEMMA MongoKept ==
  ASSUME MongoInv, MongoSpared
  PROVE  MongoInv'
<1>1. mongo' = mongo /\ mig' = mig /\ env' = env /\ RunsOn /\ NotesStay BY DEF MongoSpared
<1>2. \A c \in DOMAIN mig : InMongo(c)' BY <1>1 DEF MongoInv, RunsOn, InMongo
<1>3. Half' <=> Half BY <1>1 DEF NotesStay, Half
<1>4. FloorsBlocked' <=> FloorsBlocked BY <1>1 DEF FloorsBlocked, OldFloors
<1>5. (Over /\ ~env.isTypeormMode)' =>
        (mongo.applied = Len(MigrationNames) \/ past.dropped \/ FloorsBlocked)'
  BY <1>1, <1>4 DEF MongoInv, RunsOn, NotesStay
<1>6. (past.excused \/ Kept(mongo.colls, mongo.applied, Half, past.saved))'
  BY <1>1 DEF NotesStay, Half, MongoInv
<1>7. \A c \in DOMAIN mig :
        (past.excused \/ RestKept(mig[c], mongo.applied, mongo.colls, past.saved))'
  BY <1>1 DEF MongoInv, NotesStay
<1>8. (past.saved = [m \in DOMAIN Models |-> past.saved[m]])'
  BY <1>1 DEF MongoInv, NotesStay
<1>9. QED BY <1>1, <1>2, <1>5, <1>6, <1>7, <1>8 DEF MongoInv

\* Runs that rest, that go on with another step than the first, or end there.
LEMMA RunsRest ==
  ASSUME run' = run, booted' = booted
  PROVE  RunsOn
BY DEF RunsOn, Over, InMongo

LEMMA RunsDone ==
  ASSUME run \in [Callers -> 0..LastStep], NEW c \in Callers, StepDone(c), ~(InMongo(c) /\ c \in DOMAIN mig)
  PROVE  /\ \A d \in Callers : InMongo(d) /\ d \in DOMAIN mig => run'[d] = 1
         /\ ~InMongo(c) => RunsOn
<1>1. run[c] > 0 /\ run[c] \in 0..LastStep BY DEF StepDone
<1>2. \A d \in Callers : d # c => run'[d] = run[d] BY DEF StepDone, Finished, Returned
<1>3. \A d \in Callers : InMongo(d) /\ d \in DOMAIN mig => run'[d] = 1 BY <1>2 DEF InMongo
<1>4. ASSUME ~InMongo(c), Over', ~env.isTypeormMode PROVE Over
  BY <1>1, <1>4 DEF InMongo, LastStep, Over
<1>5. QED BY <1>3, <1>4, Zenon DEF RunsOn

LEMMA RunsEnd ==
  ASSUME run \in [Callers -> 0..LastStep], NEW c \in Callers, run' = [run EXCEPT ![c] = 0], booted' = booted,
         ~(InMongo(c) /\ c \in DOMAIN mig)
  PROVE  RunsOn
<1>1. \A d \in Callers : run'[d] = IF d = c THEN 0 ELSE run[d] OBVIOUS
<1>2. \A d \in Callers : InMongo(d) /\ d \in DOMAIN mig => run'[d] = 1 BY <1>1 DEF InMongo
<1>3. Over' => Over BY <1>1 DEF Over
<1>4. QED BY <1>2, <1>3 DEF RunsOn

LEMMA RunsBegin ==
  ASSUME run \in [Callers -> 0..LastStep], NEW c \in Callers, run' = [run EXCEPT ![c] = 1], booted' => booted
  PROVE  RunsOn
<1>1. \A d \in Callers : run'[d] = IF d = c THEN 1 ELSE run[d] OBVIOUS
<1>2. \A d \in Callers : InMongo(d) /\ d \in DOMAIN mig => run'[d] = 1 BY <1>1 DEF InMongo
<1>3. Over' => Over BY <1>1 DEF Over
<1>4. QED BY <1>2, <1>3 DEF RunsOn

\* The steps that are not about MongoDB.
LEMMA BootSparesMongo ==
  ASSUME StartInv,
         \/ Begun \/ BootJobRuns \/ UNCHANGED allVars
         \/ \E c \in Callers : ConnectionFailed(c) \/ OtherStep(c) \/ Failed(c)
         \/ \E t \in BOOT_TASKS : OtherTask(t)
  PROVE  MongoSpared
<1>0. run \in [Callers -> 0..LastStep] /\ "host" \in Callers /\ "job" \in Callers
  BY Alone DEF Callers
<1>1. CASE Begun \/ BootJobRuns
  BY <1>0, <1>1, RunsBegin DEF Begun, BootJobRuns, RunOnce, BootJobTick, startVars, MongoSpared, NotesStay
<1>2. CASE UNCHANGED allVars
  BY <1>2, RunsRest DEF allVars, vars, startVars, MongoSpared, NotesStay
<1>3. ASSUME NEW c \in Callers, ConnectionFailed(c) PROVE MongoSpared
  <2>1. run' = [run EXCEPT ![c] = 0] /\ booted' = booted /\ c \notin DOMAIN mig
    BY <1>3 DEF ConnectionFailed, MongooseFailed, Returned
  <2>2. RunsOn BY <1>0, <2>1, RunsEnd
  <2>3. QED
    BY <1>3, <2>2 DEF ConnectionFailed, MongooseFailed, startVars, MongoSpared, NotesStay
<1>4. ASSUME NEW c \in Callers, OtherStep(c) PROVE MongoSpared
  BY <1>0, <1>4, RunsDone DEF OtherStep, StepDone, startVars, MongoSpared, NotesStay
<1>5. ASSUME NEW c \in Callers, Failed(c) PROVE MongoSpared
  <2>1. run' = [run EXCEPT ![c] = 0] /\ booted' = booted /\ ~InMongo(c)
    BY <1>5 DEF Failed, StepFailed, Thrown, InMongo
  <2>2. RunsOn BY <1>0, <2>1, RunsEnd
  <2>3. QED BY <1>5, <2>2 DEF Failed, StepFailed, MongoSpared, NotesStay
<1>6. CASE \E t \in BOOT_TASKS : OtherTask(t)
  <2>1. run' = run /\ booted' = booted /\ env' = env /\ UNCHANGED startVars
    BY <1>6 DEF OtherTask, JobTick, DelayElapsed, TaskEnded
  <2>2. RunsOn BY <2>1, RunsRest
  <2>3. QED BY <2>1, <2>2 DEF startVars, MongoSpared, NotesStay
<1>7. QED BY <1>1, <1>2, <1>3, <1>4, <1>5, <1>6

LEMMA NoteStays ==
  ASSUME Past(past), NEW f, f \notin {"saved", "excused", "cut", "dropped"}, NEW x, past' = [past EXCEPT ![f] = x]
  PROVE  NotesStay
BY DEF NotesStay, Past, Flags

\* Those that leave the boot where it is.
LEMMA BootRestsSpared ==
  ASSUME UNCHANGED vars, mongo' = mongo, mig' = mig, NotesStay
  PROVE  MongoSpared
BY RunsRest DEF MongoSpared, vars

LEMMA RolesSpareMongo ==
  ASSUME StartInv, RolesInv, Past(past),
         \/ \E c \in Callers :
              \/ SyncPermissions(c) \/ FindPermission(c) \/ StorePermission(c)
              \/ CreateOrUpdateDemoAccount(c) \/ GetDemoUserId(c) \/ ChangeDemoAccount(c)
         \/ \E loginRequired \in BOOLEAN : AskRole(AppDefaultRole(loginRequired))
         \/ \E s \in Syncers : FindRole(s) \/ StoreRole(s)
         \/ \E user \in {"owner", "demo"} : Administer(user)
  PROVE  MongoSpared
<1>0. run \in [Callers -> 0..LastStep] BY Alone
<1>1. past' = past => NotesStay BY DEF NotesStay
<1>2. ASSUME NEW s, NEW role, NEW stored, SyncRoles(s, role, stored) PROVE NotesStay
  <2> DEFINE x == past.overlapped \/ \E r \in Syncers : SyncsRoles(r)
  <2>1. past' = [past EXCEPT !["overlapped"] = x] BY <1>2 DEF SyncRoles
  <2> HIDE DEF x
  <2>2. QED BY <2>1, NoteStays
<1>3. ASSUME NEW c \in Callers, SyncPermissions(c) \/ FindPermission(c) \/ GetDemoUserId(c) PROVE MongoSpared
  <2>1. UNCHANGED <<vars, mongo, mig, past>>
    BY <1>3, Zenon DEF SyncPermissions, FindPermission, FindOne, GetDemoUserId
  <2>2. QED BY <1>1, <2>1, BootRestsSpared
<1>4. ASSUME NEW c \in Callers, StorePermission(c) PROVE MongoSpared
  <2>1. UNCHANGED <<vars, mongo, mig>> /\ (past' = past \/ SyncRoles(c, None, Pushed(c)))
    BY <1>4, Zenon DEF StorePermission
  <2>2. QED BY <1>1, <1>2, <2>1, BootRestsSpared
<1>5. ASSUME NEW name, AskRole(name) PROVE MongoSpared
  <2>1. UNCHANGED <<vars, mongo, mig>> /\ (past' = past \/ SyncRoles("request", name, roles))
    BY <1>5, Zenon DEF AskRole
  <2>2. QED BY <1>1, <1>2, <2>1, BootRestsSpared
<1>6. ASSUME NEW user, Administer(user) PROVE MongoSpared
  <2>1. UNCHANGED <<vars, mongo, mig>> /\ past' = [past EXCEPT !.administered = TRUE, !.edited = TRUE]
    BY <1>6, Zenon DEF Administer
  <2>2. NotesStay BY <2>1 DEF NotesStay, Past, Flags
  <2>3. QED BY <2>1, <2>2, BootRestsSpared
<1>7. ASSUME NEW c \in Callers, run[c] # 1, StepDone(c), mongo' = mongo, mig' = mig, NotesStay
      PROVE  MongoSpared
  BY <1>0, <1>7, RunsDone DEF InMongo, StepDone, MongoSpared
<1>8. ASSUME NEW c \in Callers, run[c] # 1, Thrown(c), mongo' = mongo, mig' = mig, env' = env, booted' = booted,
             NotesStay
      PROVE  MongoSpared
  <2>1. run' = [run EXCEPT ![c] = 0] BY <1>8 DEF Thrown
  <2>2. RunsOn BY <1>0, <1>8, <2>1, RunsEnd DEF InMongo
  <2>3. QED BY <1>8, <2>2 DEF MongoSpared
<1>9. ASSUME NEW s \in Syncers, FindRole(s) \/ StoreRole(s) PROVE MongoSpared
  <2>1. /\ mongo' = mongo /\ mig' = mig /\ past' = past
        /\ UNCHANGED vars \/ (s # "request" /\ sync[s] # None /\ StepDone(s))
    <3>1. CASE FindRole(s) BY <3>1, Zenon DEF FindRole, FindOne
    <3>2. CASE StoreRole(s) BY <3>2, Zenon DEF StoreRole, SyncsRoles
    <3>3. QED BY <1>9, <3>1, <3>2
  <2>2. CASE UNCHANGED vars BY <1>1, <2>1, <2>2, BootRestsSpared
  <2>3. CASE s # "request" /\ sync[s] # None /\ StepDone(s)
    <3>1. s \in Callers BY <2>3 DEF Syncers
    <3>2. run[s] # 1 BY <2>3, <3>1 DEF RolesInv, SyncTypes, Syncers
    <3>3. QED BY <1>1, <1>7, <2>1, <2>3, <3>1, <3>2
  <2>4. QED BY <2>1, <2>2, <2>3
<1>10. ASSUME NEW c \in Callers, CreateOrUpdateDemoAccount(c) PROVE MongoSpared
  <2>1. InDemoMode(c) /\ mongo' = mongo /\ mig' = mig
    BY <1>10, Zenon DEF CreateOrUpdateDemoAccount
  <2>2. \/ Thrown(c) /\ UNCHANGED <<env, booted, past>>
        \/ past' = [past EXCEPT !.administered = FALSE] /\ UNCHANGED vars
    BY <1>10, Zenon DEF CreateOrUpdateDemoAccount
  <2>3. CASE Thrown(c) /\ UNCHANGED <<env, booted, past>>
    BY <1>1, <1>8, <2>1, <2>3 DEF InDemoMode
  <2>4. CASE past' = [past EXCEPT !.administered = FALSE] /\ UNCHANGED vars
    <3>1. past' = [past EXCEPT !["administered"] = FALSE] BY <2>4
    <3>2. NotesStay BY <3>1, NoteStays
    <3>3. QED BY <2>1, <2>4, <3>2, BootRestsSpared
  <2>5. QED BY <2>2, <2>3, <2>4
<1>11. ASSUME NEW c \in Callers, ChangeDemoAccount(c) PROVE MongoSpared
  <2>1. InDemoMode(c) /\ mongo' = mongo /\ mig' = mig /\ past' = past
    BY <1>11, Zenon DEF ChangeDemoAccount
  <2>2. \/ Thrown(c) /\ UNCHANGED <<env, booted>>
        \/ StepDone(c)
        \/ UNCHANGED vars
    BY <1>11, Zenon DEF ChangeDemoAccount
  <2>3. QED BY <1>1, <1>7, <1>8, <2>1, <2>2, BootRestsSpared DEF InDemoMode
<1>12. QED BY <1>3, <1>4, <1>5, <1>6, <1>9, <1>10, <1>11, Zenon

LEMMA ClientSparesMongo ==
  ASSUME Past(past),
         \/ RunTask \/ UpdateClientBundleGithub
         \/ \E u \in Requested : Downloaded(u) \/ EntryRemoved(u) \/ UpdateFailed(u)
  PROVE  MongoSpared
<1>1. ASSUME NEW u, NEW failed, UpdateDone(u, failed), mongo' = mongo, mig' = mig PROVE MongoSpared
  <2> DEFINE n == IF failed THEN past.ensured /\ updates[u].at # "clear" ELSE past.ensured \/ u = "task"
             x == (past.torn /\ bundle' = bundle) \/ (failed /\ updates[u].at = "clear")
  <2>1. past' = [past EXCEPT !.ensured = n, !.torn = x] /\ UNCHANGED <<env, run, booted>>
    BY <1>1 DEF UpdateDone
  <2> HIDE DEF n, x
  <2>2. NotesStay BY <2>1 DEF NotesStay, Past, Flags
  <2>3. QED BY <1>1, <2>1, <2>2, RunsRest DEF MongoSpared
<1>2. past' = past => NotesStay BY DEF NotesStay
<1>3. CASE RunTask
  <2>1. mongo' = mongo /\ mig' = mig /\ (UNCHANGED <<vars, past>> \/ UpdateDone("task", FALSE))
    BY <1>3, Zenon DEF RunTask
  <2>2. QED BY <1>1, <1>2, <2>1, BootRestsSpared
<1>4. CASE UpdateClientBundleGithub
  <2>1. UNCHANGED <<vars, mongo, mig>> /\ past' = [past EXCEPT !["asked"] = TRUE]
    BY <1>4, Zenon DEF UpdateClientBundleGithub
  <2>2. NotesStay BY <2>1, NoteStays
  <2>3. QED BY <2>1, <2>2, BootRestsSpared
<1>5. ASSUME NEW u \in Requested, Downloaded(u) \/ EntryRemoved(u) \/ UpdateFailed(u) PROVE MongoSpared
  <2>1. mongo' = mongo /\ mig' = mig
    BY <1>5, Zenon DEF Downloaded, EntryRemoved, UpdateFailed
  <2> DEFINE x == past.mixed \/ \E w \in Requested : updates[w].at = "clear"
  <2>2. \/ UpdateDone(u, FALSE) \/ UpdateDone(u, TRUE)
        \/ UNCHANGED vars /\ past' = past
        \/ UNCHANGED vars /\ past' = [past EXCEPT !["mixed"] = x]
    BY <1>5, Zenon DEF Downloaded, EntryRemoved, UpdateFailed
  <2> HIDE DEF x
  <2>3. CASE UpdateDone(u, FALSE) \/ UpdateDone(u, TRUE) BY <1>1, <2>1, <2>3
  <2>4. CASE UNCHANGED vars /\ past' = past BY <1>2, <2>1, <2>4, BootRestsSpared
  <2>5. CASE UNCHANGED vars /\ past' = [past EXCEPT !["mixed"] = x]
    BY <2>1, <2>5, NoteStays, BootRestsSpared
  <2>6. QED BY <2>2, <2>3, <2>4, <2>5
<1>6. QED BY <1>3, <1>4, <1>5

---------------------------------------------------------------------------
(* The steps of the migrations                                             *)
\* Who migrates does so alone.
LEMMA MigratesAlone ==
  ASSUME StartInv, MongoInv
  PROVE  /\ \A c \in DOMAIN mig : c \in Callers /\ run[c] = 1
         /\ \A c \in Callers : run[c] > 0 => DOMAIN mig \subseteq {c}
         /\ \A c \in Callers : run[c] = 1 => ~Over
         /\ host \in {"started", "crashed"} => DOMAIN mig = {}
         /\ host = "started" => ~Over
<1>1. \A c \in DOMAIN mig : c \in Callers /\ run[c] = 1 BY DEF MongoInv, InMongo
<1>2. /\ run \in [Callers -> 0..LastStep]
      /\ \A c, d \in Callers : run[c] > 0 /\ run[d] > 0 => c = d
      /\ booted => \A c \in Callers : run[c] = 0
      /\ host \in {"started", "crashed"} => \A c \in Callers : run[c] = 0
  BY Alone
<1>3. \A c \in Callers : run[c] > 0 => DOMAIN mig \subseteq {c} BY <1>1, <1>2
<1>4. ASSUME NEW c \in Callers, run[c] = 1 PROVE ~Over BY <1>2, <1>4 DEF Over
<1>5. host \in {"started", "crashed"} => DOMAIN mig = {} BY <1>1, <1>2
<1>6. ASSUME host = "started" PROVE ~Over
  BY <1>6, <1>2 DEF StartInv, IInv, StartedFresh, Dead, Over
<1>7. QED BY <1>1, <1>3, <1>4, <1>5, <1>6

\* The next migration begins, or the last is over.
LEMMA BeginsKeeps ==
  ASSUME StartInv, MongoInv, NEW c \in Callers, InMongo(c), NEW m,
         m = [colls |-> m.colls, applied |-> m.applied], m.applied \in 0..9,
         past.excused \/ Kept(m.colls, m.applied, past.cut, past.saved),
         Begins(c, m), past' = past, past.cut \in BOOLEAN
  PROVE  MongoInv'
<1>0. Len(MigrationNames) = 9 BY NamesInOrder
<1>1. mongo' = m /\ DOMAIN mig \subseteq {c} /\ ~env.isTypeormMode /\ ~Over /\ run[c] = 1
  BY MigratesAlone DEF Begins, InMongo
<1>2. (past.saved = [x \in DOMAIN Models |-> past.saved[x]])' BY DEF MongoInv
<1>3. CASE m.applied = 9
  <2>1. mig' = Without(mig, {c}) BY <1>0, <1>3 DEF Begins
  <2>2. DOMAIN mig' = {} BY <1>1, <2>1 DEF Without
  <2>3. Half' = past.cut BY <2>2 DEF Half
  <2>4. (past.excused \/ Kept(mongo.colls, mongo.applied, Half, past.saved))' BY <1>1, <2>3
  <2>5. QED BY <1>0, <1>1, <1>2, <1>3, <2>2, <2>4 DEF MongoInv
<1>4. CASE m.applied # 9
  <2> DEFINE ops == MigrateUp(m.applied + 1, m.colls)
  <2>0. m.applied \in 0..8 BY <1>4
  <2>1. mig' = Put(mig, c, ops) /\ UNCHANGED vars BY <1>0, <1>4 DEF Begins
  <2>2. Rest(ops, m.applied, m.colls) /\ (past.excused \/ RestKept(ops, m.applied, m.colls, past.saved))
    BY <2>0, MigrationBegins
  <2> HIDE DEF ops
  <2>3. DOMAIN mig' = {c} /\ mig'[c] = ops BY <1>1, <2>1 DEF Put
  <2>4. Half' = TRUE BY <2>3 DEF Half
  <2>5. past.excused \/ Kept(m.colls, m.applied, TRUE, past.saved) BY KeptHalf
  <2>6. (past.excused \/ Kept(mongo.colls, mongo.applied, Half, past.saved))'
    BY <1>1, <2>4, <2>5
  <2>7. ~Over' /\ InMongo(c)' BY <1>1, <2>1 DEF vars, Over, InMongo
  <2>8. \A d \in DOMAIN mig' :
          /\ InMongo(d)' /\ mongo'.applied < 9
          /\ Rest(mig'[d], mongo'.applied, mongo'.colls)
          /\ past'.excused \/ RestKept(mig'[d], mongo'.applied, mongo'.colls, past'.saved)
    BY <1>1, <2>0, <2>2, <2>3, <2>7
  <2>9. QED BY <1>0, <1>1, <1>2, <2>3, <2>6, <2>7, <2>8 DEF MongoInv
<1>5. QED BY <1>3, <1>4

\* The collections of this release are there once the connection is made.
LEMMA SyncedKept ==
  ASSUME NEW colls, NEW a, NEW half, NEW s, Kept(colls, a, half, s)
  PROVE  Kept(SyncIndexes(colls), a, half, s)
<1> DEFINE e == SyncIndexes(colls)
<1>1. /\ DOMAIN e = DOMAIN colls \cup {"printers", "users", "floors"}
      /\ \A k \in DOMAIN e : e[k] = IF k \in DOMAIN colls THEN colls[k] ELSE {}
  BY DEF SyncIndexes, Collections
<1> HIDE DEF e
<1>2. FloorsKept(e, s["floor"]) BY <1>1 DEF Kept, FloorsKept
<1>3. Kept(e, a, half, s) BY <1>1, <1>2 DEF Kept
<1>4. QED BY <1>3 DEF e

LEMMA ConnectedStep ==
  ASSUME StartInv, MongoInv, Past(past), NEW c \in Callers, Connected(c)
  PROVE  MongoInv'
<1> DEFINE m == [mongo EXCEPT !.colls = SyncIndexes(@)]
<1>1. InMongo(c) /\ c \notin DOMAIN mig /\ Begins(c, m) /\ past' = past
  BY Zenon DEF Connected
<1>2. mongo = [colls |-> mongo.colls, applied |-> mongo.applied] /\ mongo.applied \in 0..9
  BY NamesInOrder DEF MongoInv
<1>3. m.colls = SyncIndexes(mongo.colls) /\ m.applied = mongo.applied /\ m = [colls |-> m.colls, applied |-> m.applied]
  BY <1>2
<1>4. DOMAIN mig = {} BY <1>1, MigratesAlone DEF InMongo
<1>5. past.cut \in BOOLEAN BY DEF Past, Flags
<1>6. Half = past.cut BY <1>4, <1>5 DEF Half
<1>7. past.excused \/ Kept(m.colls, m.applied, past.cut, past.saved)
  BY <1>3, <1>6, SyncedKept DEF MongoInv
<1> HIDE DEF m
<1>8. QED BY <1>1, <1>2, <1>3, <1>5, <1>7, BeginsKeeps

LEMMA RecordedStep ==
  ASSUME StartInv, MongoInv, Past(past), NEW c \in Callers, Recorded(c)
  PROVE  MongoInv'
<1> DEFINE m == [mongo EXCEPT !.applied = @ + 1]
<1>1. InMongo(c) /\ c \in DOMAIN mig /\ mig[c] = <<>> /\ Begins(c, m) /\ past' = past
  BY Zenon DEF Recorded
<1>2. mongo = [colls |-> mongo.colls, applied |-> mongo.applied] /\ mongo.applied \in 0..9 /\ mongo.applied < 9
  BY <1>1, NamesInOrder DEF MongoInv
<1>3. /\ m.colls = mongo.colls /\ m.applied = mongo.applied + 1 /\ m = [colls |-> m.colls, applied |-> m.applied]
      /\ m.applied \in 0..9
  BY <1>2
<1>5. past.cut \in BOOLEAN BY DEF Past, Flags
<1>6. past.excused \/ RestKept(<<>>, mongo.applied, mongo.colls, past.saved)
  BY <1>1 DEF MongoInv
<1>7. past.excused \/ Kept(m.colls, m.applied, FALSE, past.saved) BY <1>3, <1>6 DEF RestKept
<1>8. past.excused \/ Kept(m.colls, m.applied, past.cut, past.saved) BY <1>7, KeptMore
<1> HIDE DEF m
<1>9. QED BY <1>1, <1>3, <1>5, <1>8, BeginsKeeps

LEMMA CommandStep ==
  ASSUME StartInv, MongoInv, Past(past), NEW c \in Callers, Command(c)
  PROVE  MongoInv'
<1> DEFINE ops == mig[c]
           a == mongo.applied
           colls == mongo.colls
<1>1. InMongo(c) /\ c \in DOMAIN mig /\ ops # <<>> /\ past' = past BY Zenon DEF Command
<1>2. /\ DOMAIN mig = {c} /\ ~Over /\ run[c] = 1 /\ ~env.isTypeormMode
      /\ run \in [Callers -> 0..LastStep]
  <2>1. run[c] = 1 /\ ~env.isTypeormMode /\ run[c] > 0 BY <1>1 DEF InMongo
  <2>2. DOMAIN mig \subseteq {c} /\ ~Over BY <2>1, MigratesAlone
  <2>3. QED BY <1>1, <2>1, <2>2, Alone
<1>3. mongo = [colls |-> colls, applied |-> a] /\ a \in 0..8 /\ Len(MigrationNames) = 9 /\ a < 9
  <2>1. mongo = [colls |-> colls, applied |-> a] BY DEF MongoInv
  <2>2. a \in 0..9 /\ a < 9 /\ Len(MigrationNames) = 9 BY <1>1, NamesInOrder DEF MongoInv
  <2>3. QED BY <2>1, <2>2
<1>4. Rest(ops, a, colls) /\ (past.excused \/ RestKept(ops, a, colls, past.saved))
  BY <1>1 DEF MongoInv
<1>5. Half = TRUE BY <1>2 DEF Half
<1>6. past.excused \/ Kept(colls, a, TRUE, past.saved) BY <1>5 DEF MongoInv
<1>7. (past.saved = [x \in DOMAIN Models |-> past.saved[x]])' BY <1>1 DEF MongoInv
<1>8. CASE Succeeds(colls, Head(ops))
  <2> DEFINE e == Executed(colls, Head(ops))
  <2>1. /\ mongo' = [mongo EXCEPT !.colls = Executed(@, Head(mig[c]))]
        /\ mig' = [mig EXCEPT ![c] = Tail(@)]
        /\ UNCHANGED vars
    BY <1>8, Zenon DEF Command
  <2>2. mongo' = [colls |-> e, applied |-> a] /\ DOMAIN mig' = {c} /\ mig'[c] = Tail(ops)
    BY <1>2, <1>3, <2>1
  <2>3. Rest(Tail(ops), a, e) BY <1>1, <1>3, <1>4, <1>8, RestKeeps
  <2>4. past.excused \/ (Kept(e, a, TRUE, past.saved) /\ RestKept(Tail(ops), a, e, past.saved))
    BY <1>1, <1>3, <1>4, <1>6, <1>8, CommandKeeps
  <2> HIDE DEF e, ops, a, colls
  <2>5. Half' = TRUE BY <2>2 DEF Half
  <2>6. ~Over' /\ InMongo(c)' BY <1>1, <1>2, <2>1 DEF vars, Over, InMongo
  <2>7. mongo'.colls = e /\ mongo'.applied = a BY <2>2
  <2>8. (past.excused \/ Kept(mongo.colls, mongo.applied, Half, past.saved))'
    BY <1>1, <2>4, <2>5, <2>7
  <2>9. \A d \in DOMAIN mig' :
          /\ InMongo(d)' /\ mongo'.applied < 9
          /\ Rest(mig'[d], mongo'.applied, mongo'.colls)
          /\ past'.excused \/ RestKept(mig'[d], mongo'.applied, mongo'.colls, past'.saved)
    <3>1. SUFFICES ASSUME NEW d \in {c}
                   PROVE  /\ InMongo(d)' /\ mongo'.applied < 9
                          /\ Rest(mig'[d], mongo'.applied, mongo'.colls)
                          /\ past'.excused \/ RestKept(mig'[d], mongo'.applied, mongo'.colls, past'.saved)
      BY <2>2
    <3>2. d = c /\ InMongo(d)' /\ mig'[d] = Tail(ops) /\ past' = past BY <1>1, <2>2, <2>6
    <3>3. QED BY <1>3, <2>3, <2>4, <2>7, <3>2
  <2>10. mongo' = [colls |-> mongo'.colls, applied |-> mongo'.applied] /\ mongo'.applied \in 0..9
    BY <1>3, <2>2, <2>7
  <2>11. QED BY <1>3, <1>7, <2>2, <2>6, <2>8, <2>9, <2>10 DEF MongoInv
<1>9. CASE ~Succeeds(colls, Head(ops))
  <2>1. /\ run' = [run EXCEPT ![c] = 2]
        /\ mig' = Without(mig, {c})
        /\ UNCHANGED <<mongo, env, host, tasks, loaded, booted, left>>
    BY <1>9, Zenon DEF Command
  <2>2. a = 3 /\ "printerfloors" \in DOMAIN colls /\ "floors" \in DOMAIN colls
    BY <1>1, <1>3, <1>4, <1>9, OnlyFloorsFail
  <2>3. FloorsBlocked' BY <2>1, <2>2 DEF FloorsBlocked, OldFloors
  <2>4. DOMAIN mig' = {} BY <1>2, <2>1 DEF Without
  <2>5. past.excused \/ Kept(colls, a, Half', past.saved)
    <3>1. a \notin {0, 2, 6} BY <2>2
    <3> HIDE DEF a, colls
    <3>2. QED BY <1>6, <3>1, KeptMore
  <2>6. (past.excused \/ Kept(mongo.colls, mongo.applied, Half, past.saved))'
    BY <1>1, <2>1, <2>5
  <2>7. QED BY <1>3, <1>7, <2>1, <2>3, <2>4, <2>6 DEF MongoInv
<1>10. QED BY <1>8, <1>9

\* The parts of the invariant when nobody migrates.
LEMMA IdleInv ==
  ASSUME NEW x, NEW k \in 0..9, mongo' = [colls |-> x, applied |-> k], DOMAIN mig' = {},
         (past.saved = [m \in DOMAIN Models |-> past.saved[m]])',
         (Over /\ ~env.isTypeormMode)' => k = 9 \/ past'.dropped \/ FloorsBlocked',
         past'.cut \in BOOLEAN,
         past'.excused \/ Kept(x, k, past'.cut, past'.saved)
  PROVE  MongoInv'
<1>1. mongo'.colls = x /\ mongo'.applied = k /\ Len(MigrationNames) = 9 BY NamesInOrder
<1>2. Half' = past'.cut BY DEF Half
<1>3. (past.excused \/ Kept(mongo.colls, mongo.applied, Half, past.saved))' BY <1>1, <1>2
<1>4. QED BY <1>1, <1>3 DEF MongoInv

LEMMA MigrationDroppedStep ==
  ASSUME StartInv, MongoInv, Past(past), NEW c \in Callers, MigrationDropped(c)
  PROVE  MongoInv'
<1> DEFINE x == past.cut \/ c \in DOMAIN mig
<1>1. /\ run[c] = 1 /\ mongo' = mongo /\ mig' = Without(mig, {c})
      /\ past' = [past EXCEPT !.dropped = TRUE, !.cut = x]
  BY DEF MigrationDropped, MigrationFailed
<1>2. DOMAIN mig \subseteq {c} BY <1>1, MigratesAlone
<1>3. x = Half /\ x \in BOOLEAN BY <1>2 DEF Half
<1> HIDE DEF x
<1>4. past'.dropped = TRUE /\ past'.cut = x /\ past'.saved = past.saved /\ past'.excused = past.excused
  BY <1>1 DEF Past, Flags
<1>5. DOMAIN mig' = {} BY <1>1, <1>2 DEF Without
<1>6. mongo = [colls |-> mongo.colls, applied |-> mongo.applied] /\ mongo.applied \in 0..9
  BY NamesInOrder DEF MongoInv
<1>7. past.excused \/ Kept(mongo.colls, mongo.applied, x, past.saved) BY <1>3 DEF MongoInv
<1>8. (past.saved = [m \in DOMAIN Models |-> past.saved[m]])' BY <1>4 DEF MongoInv
<1>9. QED BY <1>1, <1>3, <1>4, <1>5, <1>6, <1>7, <1>8, IdleInv

LEMMA MigrateMongoStep ==
  ASSUME StartInv, MongoInv, Past(past), MigrateMongo
  PROVE  MongoInv'
<1> DEFINE a == mongo.applied
           colls == mongo.colls
<1>1. host = "started" /\ UNCHANGED vars /\ mig' = mig BY Zenon DEF MigrateMongo
<1>2. DOMAIN mig = {} /\ ~Over /\ ~Over' BY <1>1, MigratesAlone DEF Over, vars
<1>3. Len(MigrationNames) = 9 /\ a \in 0..9 /\ past.cut \in BOOLEAN /\ Half = past.cut
  BY <1>2, NamesInOrder DEF MongoInv, Half, Past, Flags
<1>4. past.excused \/ Kept(colls, a, past.cut, past.saved) BY <1>3 DEF MongoInv
<1>5. PICK up \in BOOLEAN :
        /\ IF up THEN a < 9 ELSE a > 0
        /\ LET ops == IF up THEN MigrateUp(a + 1, colls) ELSE MigrateDown(a, colls)
               done == Migrated(colls, ops)
           IN  mongo' = [colls |-> done.colls,
                         applied |-> IF ~done.ok THEN a ELSE IF up THEN a + 1 ELSE a - 1]
        /\ past' = [past EXCEPT !.excused = @ \/ (past.cut /\ ~up)]
  BY <1>3, Zenon DEF MigrateMongo
<1> DEFINE x == past.excused \/ (past.cut /\ ~up)
           ops == IF up THEN MigrateUp(a + 1, colls) ELSE MigrateDown(a, colls)
           done == Migrated(colls, ops)
           k == IF ~done.ok THEN a ELSE IF up THEN a + 1 ELSE a - 1
<1>6. mongo' = [colls |-> done.colls, applied |-> k] /\ past' = [past EXCEPT !.excused = x]
  BY <1>5, Zenon
<1>7. k \in 0..9 BY <1>3, <1>5
<1>8. /\ past'.excused = x /\ past'.cut = past.cut /\ past'.saved = past.saved
  BY <1>6 DEF Past, Flags
<1>9. ASSUME ~x PROVE Kept(done.colls, k, past.cut, past.saved)
  <2>1. CASE up
    <3>1. a \in 0..8 /\ done = Migrated(colls, MigrateUp(a + 1, colls)) /\ Kept(colls, a, past.cut, past.saved)
      BY <1>3, <1>4, <1>5, <1>9, <2>1
    <3> HIDE DEF a, colls, done
    <3>2. IF done.ok THEN Kept(done.colls, a + 1, FALSE, past.saved) ELSE Kept(done.colls, a, past.cut, past.saved)
      BY <1>3, <3>1, UpKeeps
    <3>3. CASE done.ok BY <3>2, <3>3, KeptMore, <2>1
    <3>4. CASE ~done.ok BY <3>2, <3>4
    <3>5. QED BY <3>3, <3>4
  <2>2. CASE ~up
    <3>1. past.cut = FALSE BY <1>3, <1>9, <2>2
    <3>2. a \in 1..9 BY <1>3, <1>5, <2>2
    <3>3. done = Migrated(colls, MigrateDown(a, colls)) BY <2>2
    <3>4. Kept(colls, a, past.cut, past.saved) BY <1>4, <1>9
    <3> HIDE DEF a, colls, done
    <3>5. Kept(colls, a, FALSE, past.saved) BY <3>1, <3>4
    <3>6. IF done.ok THEN Kept(done.colls, a - 1, FALSE, past.saved) ELSE Kept(done.colls, a, FALSE, past.saved)
      BY <3>2, <3>3, <3>5, DownKeeps
    <3>7. QED BY <2>2, <3>1, <3>6
  <2>3. QED BY <2>1, <2>2
<1> HIDE DEF x, done, k
<1>10. past'.excused \/ Kept(done.colls, k, past'.cut, past'.saved) BY <1>8, <1>9
<1>11. (past.saved = [m \in DOMAIN Models |-> past.saved[m]])' BY <1>8 DEF MongoInv
<1>12. DOMAIN mig' = {} /\ past'.cut \in BOOLEAN BY <1>1, <1>2, <1>3, <1>8
<1>13. QED BY <1>2, <1>6, <1>7, <1>10, <1>11, <1>12, IdleInv

LEMMA StartedAgainMongo ==
  ASSUME StartInv, MongoInv, Past(past), StartedAgain
  PROVE  MongoInv'
<1>1. host = "crashed" /\ run' = NoRun /\ booted' = FALSE /\ mig' = NoMigration /\ mongo' = mongo
  BY DEF StartedAgain, Restarted
<1>2. past' = [past EXCEPT !.dropped = FALSE, !.ensured = FALSE] BY DEF StartedAgain
<1>3. /\ past'.cut = past.cut /\ past'.saved = past.saved /\ past'.excused = past.excused
      /\ past.cut \in BOOLEAN
  BY <1>2 DEF Past, Flags
<1>4. ~Over' BY <1>1 DEF Over, NoRun
<1>5. DOMAIN mig = {} /\ DOMAIN mig' = {} BY <1>1, MigratesAlone DEF NoMigration
<1>6. Half = past.cut BY <1>3, <1>5 DEF Half
<1>7. mongo = [colls |-> mongo.colls, applied |-> mongo.applied] /\ mongo.applied \in 0..9
  BY NamesInOrder DEF MongoInv
<1>8. past'.excused \/ Kept(mongo.colls, mongo.applied, past'.cut, past'.saved)
  BY <1>3, <1>6 DEF MongoInv
<1>9. (past.saved = [m \in DOMAIN Models |-> past.saved[m]])' BY <1>3 DEF MongoInv
<1>10. QED BY <1>1, <1>3, <1>4, <1>5, <1>7, <1>8, <1>9, IdleInv

LEMMA KilledMongo ==
  ASSUME StartInv, MongoInv, Past(past), Killed
  PROVE  MongoInv'
<1> DEFINE x == past.cut \/ DOMAIN mig # {}
           y == past.torn \/ \E u \in Requested : updates[u].at = "clear"
<1>1. /\ run' = NoRun /\ booted' = booted /\ mig' = NoMigration /\ mongo' = mongo /\ env' = env
      /\ past' = [past EXCEPT !.torn = y, !.cut = x, !.ensured = FALSE]
  BY DEF Killed
<1>2. x \in BOOLEAN /\ x = Half BY DEF Half
<1> HIDE DEF x, y
<1>3. /\ past'.cut = x /\ past'.saved = past.saved /\ past'.excused = past.excused
      /\ past'.dropped = past.dropped
  BY <1>1 DEF Past, Flags
<1>4. Over' => Over BY <1>1 DEF Over, NoRun
<1>5. FloorsBlocked' <=> FloorsBlocked BY <1>1 DEF FloorsBlocked, OldFloors
<1>6. DOMAIN mig' = {} BY <1>1 DEF NoMigration
<1>7. mongo = [colls |-> mongo.colls, applied |-> mongo.applied] /\ mongo.applied \in 0..9 /\ Len(MigrationNames) = 9
  BY NamesInOrder DEF MongoInv
<1>8. past'.excused \/ Kept(mongo.colls, mongo.applied, past'.cut, past'.saved)
  BY <1>2, <1>3 DEF MongoInv
<1>9. (past.saved = [m \in DOMAIN Models |-> past.saved[m]])' BY <1>3 DEF MongoInv
<1>10. (Over /\ ~env.isTypeormMode)' => mongo.applied = 9 \/ past'.dropped \/ FloorsBlocked'
  BY <1>1, <1>3, <1>4, <1>5, <1>7 DEF MongoInv
<1>11. QED BY <1>1, <1>2, <1>3, <1>6, <1>7, <1>8, <1>9, <1>10, IdleInv

---------------------------------------------------------------------------
(* What users save                                                         *)
\* A database that all migrations have been applied to.
LEMMA KeptAtLast ==
  ASSUME NEW colls, NEW half, NEW s
  PROVE  Kept(colls, 9, half, s) <=>
           /\ {"printers", "users"} \subseteq DOMAIN colls
           /\ colls["printers"] # {} /\ colls["users"] # {}
           /\ \A d \in colls["printers"] :
                Has(d, "name", s["name"]) /\ Has(d, "apiKey", s["apiKey"]) /\ Has(d, "enabled", s["enabled"])
           /\ \A d \in colls["users"] : Has(d, "passwordHash", s["passwordHash"])
           /\ FloorsKept(colls, s["floor"])
<1>1. \A d : PrinterKept(d, 9, half, s) <=>
               Has(d, "name", s["name"]) /\ Has(d, "apiKey", s["apiKey"]) /\ Has(d, "enabled", s["enabled"])
  BY DEF PrinterKept, NameKept, ApiKeyKept, EnabledKept
<1>2. \A d : UserKept(d, 9, half, s["passwordHash"]) <=> Has(d, "passwordHash", s["passwordHash"])
  BY DEF UserKept
<1>3. QED BY <1>1, <1>2, Zenon DEF Kept, PrintersKept, UsersKept

\* A field that users save is shown, and the others still are.
LEMMA PutShows ==
  ASSUME NEW d, NEW f, NEW v
  PROVE  /\ Has(Put(d, f, v), f, v)
         /\ \A g, w : g # f /\ Has(d, g, w) => Has(Put(d, f, v), g, w)
BY DEF Has, Put

Edited(colls, e, c, f, v) ==
  /\ DOMAIN e = DOMAIN colls
  /\ \A k \in DOMAIN colls : k # c => e[k] = colls[k]
  /\ e[c] = {Put(doc, f, v) : doc \in colls[c]}

LEMMA EditedKept ==
  ASSUME NEW colls, NEW half, NEW s, Kept(colls, 9, half, s), NEW m \in DOMAIN Models, NEW v,
         Models[m] \in DOMAIN colls, colls[Models[m]] # {},
         NEW e, Edited(colls, e, Models[m], FieldOf(m), v),
         NEW t, t[m] = v, \A n \in DOMAIN Models : n # m => t[n] = s[n]
  PROVE  Kept(e, 9, half, t)
<1>1. /\ DOMAIN Models = {"name", "apiKey", "enabled", "passwordHash", "floor"}
      /\ Models["name"] = "printers" /\ Models["apiKey"] = "printers" /\ Models["enabled"] = "printers"
      /\ Models["passwordHash"] = "users" /\ Models["floor"] = "floors"
  BY DEF Models
<1>2. /\ {"printers", "users"} \subseteq DOMAIN colls
      /\ colls["printers"] # {} /\ colls["users"] # {}
      /\ \A d \in colls["printers"] :
           Has(d, "name", s["name"]) /\ Has(d, "apiKey", s["apiKey"]) /\ Has(d, "enabled", s["enabled"])
      /\ \A d \in colls["users"] : Has(d, "passwordHash", s["passwordHash"])
      /\ FloorsKept(colls, s["floor"])
  BY KeptAtLast
<1>3. CASE m \in {"name", "apiKey", "enabled"}
  <2>1. /\ DOMAIN e = DOMAIN colls /\ e["users"] = colls["users"]
        /\ "floors" \in DOMAIN colls => e["floors"] = colls["floors"]
        /\ "printerfloors" \in DOMAIN colls => e["printerfloors"] = colls["printerfloors"]
        /\ e["printers"] = {Put(doc, m, v) : doc \in colls["printers"]}
    BY <1>1, <1>2, <1>3 DEF Edited, FieldOf
  <2>2. t["passwordHash"] = s["passwordHash"] /\ t["floor"] = s["floor"] BY <1>1, <1>3
  <2>3. FloorsKept(e, t["floor"]) BY <1>2, <2>1, <2>2 DEF FloorsKept
  <2>4. ASSUME NEW d \in e["printers"]
        PROVE  Has(d, "name", t["name"]) /\ Has(d, "apiKey", t["apiKey"]) /\ Has(d, "enabled", t["enabled"])
    <3>1. PICK doc \in colls["printers"] : d = Put(doc, m, v) BY <2>1, <2>4
    <3>2. /\ Has(doc, "name", s["name"]) /\ Has(doc, "apiKey", s["apiKey"]) /\ Has(doc, "enabled", s["enabled"])
      BY <1>2
    <3>3. Has(d, m, t[m]) /\ \A g, w : g # m /\ Has(doc, g, w) => Has(d, g, w)
      BY <3>1, PutShows
    <3>4. \A n \in {"name", "apiKey", "enabled"} : n # m => t[n] = s[n] /\ Has(d, n, s[n])
      BY <1>1, <3>2, <3>3
    <3>5. \A n \in {"name", "apiKey", "enabled"} : Has(d, n, t[n]) BY <3>3, <3>4
    <3>6. QED BY <3>5
  <2>5. e["printers"] # {} BY <1>2, <2>1
  <2>6. QED BY <1>2, <2>1, <2>2, <2>3, <2>4, <2>5, KeptAtLast
<1>4. CASE m = "passwordHash"
  <2>1. /\ DOMAIN e = DOMAIN colls /\ e["printers"] = colls["printers"]
        /\ "floors" \in DOMAIN colls => e["floors"] = colls["floors"]
        /\ "printerfloors" \in DOMAIN colls => e["printerfloors"] = colls["printerfloors"]
        /\ e["users"] = {Put(doc, m, v) : doc \in colls["users"]}
    BY <1>1, <1>2, <1>4 DEF Edited, FieldOf
  <2>2. /\ t["name"] = s["name"] /\ t["apiKey"] = s["apiKey"] /\ t["enabled"] = s["enabled"]
        /\ t["floor"] = s["floor"] /\ t["passwordHash"] = v
    BY <1>1, <1>4
  <2>3. FloorsKept(e, t["floor"]) BY <1>2, <2>1, <2>2 DEF FloorsKept
  <2>4. \A d \in e["users"] : Has(d, "passwordHash", t["passwordHash"])
    BY <1>4, <2>1, <2>2, PutShows
  <2>5. e["users"] # {} BY <1>2, <2>1
  <2>6. QED BY <1>2, <2>1, <2>2, <2>3, <2>4, <2>5, KeptAtLast
<1>5. CASE m = "floor"
  <2>1. /\ DOMAIN e = DOMAIN colls /\ e["printers"] = colls["printers"] /\ e["users"] = colls["users"]
        /\ e["floors"] = {Put(doc, "name", v) : doc \in colls["floors"]}
        /\ "floors" \in DOMAIN colls /\ colls["floors"] # {}
    BY <1>1, <1>2, <1>5 DEF Edited, FieldOf
  <2>2. /\ t["name"] = s["name"] /\ t["apiKey"] = s["apiKey"] /\ t["enabled"] = s["enabled"]
        /\ t["passwordHash"] = s["passwordHash"] /\ t["floor"] = v
    BY <1>1, <1>5
  <2>3. "printerfloors" \notin DOMAIN colls BY <1>2, <2>1 DEF FloorsKept
  <2>4. \A d \in e["floors"] : Has(d, "name", v) BY <2>1, PutShows
  <2>5. FloorsKept(e, t["floor"]) BY <2>1, <2>2, <2>3, <2>4 DEF FloorsKept, Named
  <2>6. QED BY <1>2, <2>1, <2>2, <2>5, KeptAtLast
<1>6. QED BY <1>1, <1>3, <1>4, <1>5

\* What is left of a migration depends on which collections there are.
LEMMA RestStays ==
  ASSUME NEW a \in 0..8, NEW ops, NEW colls, NEW e, DOMAIN e = DOMAIN colls, Rest(ops, a, colls)
  PROVE  Rest(ops, a, e)
<1>1. CASE a = 0 BY <1>1 DEF Rest
<1>2. CASE a = 3 BY <1>2 DEF FloorsUp, Rest
<1>3. CASE a \notin {0, 3}
  <2>1. a \in {1, 2, 4, 5, 6, 7, 8} BY <1>3
  <2>2. MigrateUp(a + 1, e) = MigrateUp(a + 1, colls) BY <2>1, UpsAre
  <2>3. QED BY <1>3, <2>2 DEF Rest
<1>4. QED BY <1>1, <1>2, <1>3

LEMMA EditStep ==
  ASSUME MongoInv, Past(past), NEW m \in DOMAIN Models, Edit(m)
  PROVE  MongoInv'
<1> DEFINE colls == mongo.colls
           a == mongo.applied
           v == IF m = "enabled" THEN FALSE ELSE "new"
           e == [colls EXCEPT ![Models[m]] = {Put(doc, FieldOf(m), v) : doc \in @}]
           t == [past.saved EXCEPT ![m] = v]
           x == past.excused \/ a < 9
<1>0. Len(MigrationNames) = 9 BY NamesInOrder
<1>1. mongo = [colls |-> colls, applied |-> a] /\ a \in 0..9 /\ past.saved = [n \in DOMAIN Models |-> past.saved[n]]
  BY <1>0 DEF MongoInv
<1>2. /\ Models[m] \in DOMAIN colls /\ colls[Models[m]] # {}
      /\ UNCHANGED vars /\ mig' = mig
      /\ mongo' = [mongo EXCEPT !.colls[Models[m]] = {Put(doc, FieldOf(m), v) : doc \in @}]
      /\ past' = [past EXCEPT !.saved[m] = v, !.edited = TRUE,
                              !.excused = @ \/ mongo.applied < Len(MigrationNames)]
  BY Zenon DEF Edit
<1>3. mongo' = [colls |-> e, applied |-> a] /\ Edited(colls, e, Models[m], FieldOf(m), v)
  <2> HIDE DEF v
  <2>1. mongo' = [colls |-> e, applied |-> a] BY <1>1, <1>2
  <2>2. Edited(colls, e, Models[m], FieldOf(m), v) BY <1>2 DEF Edited
  <2>3. QED BY <2>1, <2>2
<1> HIDE DEF v
<1>4. t[m] = v /\ (\A n \in DOMAIN Models : n # m => t[n] = past.saved[n]) /\ t = [n \in DOMAIN Models |-> t[n]]
  BY <1>1
<1> HIDE DEF t, e
<1>5. past' = [past EXCEPT !.saved = t, !.edited = TRUE, !.excused = x] BY <1>0, <1>2 DEF t
<1> HIDE DEF x
<1>6. /\ past'.saved = t /\ past'.excused = x /\ past'.cut = past.cut /\ past'.dropped = past.dropped
  BY <1>5 DEF Past, Flags
<1>7. /\ mongo'.colls = e /\ mongo'.applied = a /\ DOMAIN e = DOMAIN colls
      /\ env' = env /\ run' = run /\ booted' = booted
  <2>1. env' = env /\ run' = run /\ booted' = booted BY <1>2 DEF vars
  <2>2. mongo'.colls = e /\ mongo'.applied = a BY <1>3
  <2>3. DOMAIN e = DOMAIN colls BY <1>3 DEF Edited
  <2>4. QED BY <2>1, <2>2, <2>3
<1>8. Half' = Half BY <1>2, <1>6 DEF Half
<1>9. Over' <=> Over BY <1>7 DEF Over
<1>10. FloorsBlocked' <=> FloorsBlocked BY <1>7 DEF FloorsBlocked, OldFloors
<1>11. x \/ Kept(e, a, Half, t)
  <2>1. SUFFICES ASSUME ~x PROVE Kept(e, a, Half, t) OBVIOUS
  <2>2. a = 9 /\ ~past.excused BY <1>1, <2>1 DEF x
  <2>3. Kept(colls, 9, Half, past.saved) BY <2>2 DEF MongoInv
  <2> HIDE DEF colls, a
  <2>4. Kept(e, 9, Half, t) BY <1>2, <1>3, <1>4, <2>3, EditedKept
  <2>5. QED BY <2>2, <2>4
<1>12. ASSUME NEW c \in DOMAIN mig
       PROVE  /\ InMongo(c)' /\ a < 9 /\ Rest(mig[c], a, e) /\ x
  <2>1. InMongo(c) /\ a < 9 /\ Rest(mig[c], a, colls) BY <1>0 DEF MongoInv
  <2>2. InMongo(c)' BY <1>7, <2>1 DEF InMongo
  <2>3. x /\ a \in 0..8 BY <1>1, <2>1 DEF x
  <2> HIDE DEF colls, a
  <2>4. Rest(mig[c], a, e) BY <1>7, <2>1, <2>3, RestStays
  <2>5. QED BY <2>1, <2>2, <2>3, <2>4
<1>13. Over' /\ ~env'.isTypeormMode => a = 9 \/ past'.dropped \/ FloorsBlocked'
  BY <1>0, <1>6, <1>7, <1>9, <1>10 DEF MongoInv
<1>14. DOMAIN mig' \subseteq Callers /\ mig' = mig BY <1>2 DEF MongoInv
<1> HIDE DEF colls, a
<1>15. \A c \in DOMAIN mig' :
         /\ InMongo(c)' /\ mongo'.applied < 9
         /\ Rest(mig'[c], mongo'.applied, mongo'.colls)
         /\ past'.excused \/ RestKept(mig'[c], mongo'.applied, mongo'.colls, past'.saved)
  BY <1>6, <1>7, <1>12, <1>14
<1>16. (past.excused \/ Kept(mongo.colls, mongo.applied, Half, past.saved))'
  BY <1>6, <1>7, <1>8, <1>11
<1>17. (past.saved = [n \in DOMAIN Models |-> past.saved[n]])' BY <1>4, <1>6
<1>18. mongo' = [colls |-> mongo'.colls, applied |-> mongo'.applied] /\ mongo'.applied \in 0..9
  BY <1>1, <1>3, <1>7 DEF a
<1>19. QED BY <1>0, <1>7, <1>13, <1>14, <1>15, <1>16, <1>17, <1>18 DEF MongoInv

---------------------------------------------------------------------------
(* The theorems of MongoDB                                                 *)
\* A database as a release with k migrations has left it.
LEMMA WrittenPrinter ==
  ASSUME NEW k \in 0..9, NEW s, s["name"] = "old", s["apiKey"] = "old", s["enabled"] = WrittenValue(k, "enabled"),
         NEW d, d = [f \in WrittenFields(k, "printers") |-> WrittenValue(k, f)]
  PROVE  PrinterKept(d, k, FALSE, s)
<1>1. \A f \in WrittenFields(k, "printers") : Has(d, f, WrittenValue(k, f)) BY DEF Has
<1>2. NameKept(d, k, FALSE, "old")
  <2>1. CASE k >= 7
    <3>1. "name" \in WrittenFields(k, "printers") /\ WrittenValue(k, "name") = "old"
      BY <2>1 DEF WrittenFields, WrittenValue, Since
    <3>2. QED BY <1>1, <2>1, <3>1 DEF NameKept
  <2>2. CASE k \in 1..6
    <3>1. "settingsAppearance" \in WrittenFields(k, "printers") BY <2>2 DEF WrittenFields
    <3>2. WrittenValue(k, "settingsAppearance") = {"old"} BY <2>2 DEF WrittenValue
    <3>3. QED BY <1>1, <2>2, <3>1, <3>2 DEF NameKept
  <2>3. CASE k = 0
    <3>1. "settingsApperance" \in WrittenFields(k, "printers")
      BY <2>3 DEF WrittenFields, Until
    <3>2. WrittenValue(k, "settingsApperance") = {"old"} BY <2>3 DEF WrittenValue
    <3>3. QED BY <1>1, <2>3, <3>1, <3>2 DEF NameKept
  <2>4. k >= 7 \/ k \in 1..6 \/ k = 0 OBVIOUS
  <2>5. QED BY <2>1, <2>2, <2>3, <2>4, Zenon
<1>3. ApiKeyKept(d, k, FALSE, "old")
  <2>1. CASE k > 0
    <3>1. "apiKey" \in WrittenFields(k, "printers") /\ WrittenValue(k, "apiKey") = "old"
      BY <2>1 DEF WrittenFields, WrittenValue, Since
    <3>2. QED BY <1>1, <2>1, <3>1 DEF ApiKeyKept
  <2>2. CASE k = 0
    <3>1. "apikey" \in WrittenFields(k, "printers") /\ WrittenValue(k, "apikey") = "old"
      BY <2>2 DEF WrittenFields, WrittenValue, Until
    <3>2. QED BY <1>1, <2>2, <3>1 DEF ApiKeyKept
  <2>3. k > 0 \/ k = 0 OBVIOUS
  <2>4. QED BY <2>1, <2>2, <2>3, Zenon
<1>4. EnabledKept(d, k, s["enabled"])
  <2>1. k > 1 => "enabled" \in WrittenFields(k, "printers") BY DEF WrittenFields, Since
  <2>2. WrittenValue(k, "enabled") = TRUE BY Zenon DEF WrittenValue
  <2>3. QED BY <1>1, <2>1, <2>2, Zenon DEF EnabledKept
<1>5. QED BY <1>2, <1>3, <1>4 DEF PrinterKept

LEMMA WrittenKept ==
  ASSUME NEW k \in 0..9, NEW s, s["name"] = "old", s["apiKey"] = "old", s["enabled"] = WrittenValue(k, "enabled"),
         s["passwordHash"] = "old", s["floor"] = "old"
  PROVE  Kept(Written(k), k, FALSE, s)
<1> DEFINE colls == Written(k)
           Doc(c) == [f \in WrittenFields(k, c) |-> WrittenValue(k, f)]
<1>1. /\ DOMAIN colls = Collections \ {IF k < 4 THEN "floors" ELSE "printerfloors"}
      /\ \A c \in DOMAIN colls : colls[c] = {Doc(c)}
  BY DEF Written
<1>2. /\ "printers" \in DOMAIN colls /\ "users" \in DOMAIN colls
      /\ k < 4 => "printerfloors" \in DOMAIN colls /\ "floors" \notin DOMAIN colls
      /\ k >= 4 => "floors" \in DOMAIN colls /\ "printerfloors" \notin DOMAIN colls
  BY <1>1 DEF Collections
<1>3. PrinterKept(Doc("printers"), k, FALSE, s) BY WrittenPrinter
<1>4. UserKept(Doc("users"), k, FALSE, "old")
  <2>1. \A f \in WrittenFields(k, "users") : Has(Doc("users"), f, WrittenValue(k, f))
    BY DEF Has
  <2>2. IF k > 2 THEN "passwordHash" \in WrittenFields(k, "users") ELSE "password" \in WrittenFields(k, "users")
    BY DEF WrittenFields, Since, Until
  <2>3. WrittenValue(k, "password") = "old" /\ WrittenValue(k, "passwordHash") = "old"
    BY DEF WrittenValue
  <2> HIDE DEF Doc
  <2>4. QED BY <2>1, <2>2, <2>3 DEF UserKept
<1>5. \A c \in {"floors", "printerfloors"} : Has(Doc(c), "name", "old")
  <2>1. \A c \in {"floors", "printerfloors"} : "name" \in WrittenFields(k, c)
    BY DEF WrittenFields
  <2>2. WrittenValue(k, "name") = "old" BY DEF WrittenValue
  <2>3. QED BY <2>1, <2>2 DEF Has
<1> HIDE DEF colls, Doc
<1>6. PrintersKept(colls["printers"], k, FALSE, s) BY <1>1, <1>2, <1>3 DEF PrintersKept
<1>7. UsersKept(colls["users"], k, FALSE, s) BY <1>1, <1>2, <1>4 DEF UsersKept
<1>8. FloorsKept(colls, "old")
  <2>1. CASE k < 4 BY <1>1, <1>2, <1>5, <2>1 DEF FloorsKept, Named
  <2>2. CASE k >= 4 BY <1>1, <1>2, <1>5, <2>2 DEF FloorsKept, Named
  <2>3. QED BY <2>1, <2>2
<1>9. Kept(colls, k, FALSE, s) BY <1>2, <1>6, <1>7, <1>8 DEF Kept
<1>10. QED BY <1>9 DEF colls

LEMMA MongoInitial ==
  ASSUME StartInit
  PROVE  MongoInv
<1> DEFINE s == [m \in DOMAIN Models |-> IF m = "enabled" THEN TRUE ELSE "old"]
<1>0. Len(MigrationNames) = 9 /\ DOMAIN Models = {"name", "apiKey", "enabled", "passwordHash", "floor"}
  BY NamesInOrder DEF Models
<1>1. \E scope : past = [scope |-> scope, saved |-> s,
             excused |-> FALSE, cut |-> FALSE, dropped |-> FALSE, overlapped |-> FALSE,
             administered |-> FALSE, mixed |-> FALSE, torn |-> FALSE, ensured |-> FALSE,
             edited |-> FALSE, asked |-> FALSE]
  BY DEF StartInit
<1>2. \E k \in 0..9 : mongo = [colls |-> Written(k), applied |-> k]
  <2>1. PICK scope \in Scopes :
          \E k \in IF scope = "data" THEN Stages ELSE {Len(MigrationNames)} :
            mongo = [colls |-> Written(k), applied |-> k]
    BY DEF StartInit
  <2>2. (IF scope = "data" THEN Stages ELSE {Len(MigrationNames)}) \subseteq 0..9
    BY <1>0, StagesExist
  <2>3. QED BY <2>1, <2>2
<1>3. PICK k \in 0..9 : mongo = [colls |-> Written(k), applied |-> k] BY <1>2
<1>4. DOMAIN mig = {} /\ run = NoRun /\ booted = FALSE BY DEF StartInit, NoMigration, Init
<1>5. /\ s["name"] = "old" /\ s["apiKey"] = "old" /\ s["passwordHash"] = "old" /\ s["floor"] = "old"
      /\ s = [m \in DOMAIN Models |-> s[m]]
  BY <1>0
<1>6. s["enabled"] = WrittenValue(k, "enabled") BY <1>0, Zenon DEF WrittenValue
<1> HIDE DEF s
<1>7. past.saved = s /\ past.cut = FALSE BY <1>1
<1>8. Kept(Written(k), k, FALSE, s) BY <1>5, <1>6, WrittenKept
<1>9. Half = FALSE BY <1>4, <1>7 DEF Half
<1>10. ~Over BY <1>4 DEF Over, NoRun
<1>11. mongo.colls = Written(k) /\ mongo.applied = k BY <1>3
<1>12. past.excused \/ Kept(mongo.colls, mongo.applied, Half, past.saved)
  BY <1>7, <1>8, <1>9, <1>11
<1>13. mongo = [colls |-> mongo.colls, applied |-> mongo.applied] BY <1>3, <1>11
<1>14. QED BY <1>0, <1>4, <1>5, <1>7, <1>10, <1>11, <1>12, <1>13 DEF MongoInv

LEMMA MongoNext ==
  ASSUME StartInv, BundleInv, RolesInv, MongoInv, [ThisNext]_allVars
  PROVE  MongoInv'
<1>1. Past(past) BY DEF BundleInv, BundleTypes
<1>2. CASE \/ Begun \/ BootJobRuns \/ UNCHANGED allVars
           \/ \E c \in Callers : ConnectionFailed(c) \/ OtherStep(c) \/ Failed(c)
           \/ \E t \in BOOT_TASKS : OtherTask(t)
  BY <1>2, BootSparesMongo, MongoKept
<1>3. CASE \/ \E c \in Callers :
                \/ SyncPermissions(c) \/ FindPermission(c) \/ StorePermission(c)
                \/ CreateOrUpdateDemoAccount(c) \/ GetDemoUserId(c) \/ ChangeDemoAccount(c)
           \/ \E loginRequired \in BOOLEAN : AskRole(AppDefaultRole(loginRequired))
           \/ \E s \in Syncers : FindRole(s) \/ StoreRole(s)
           \/ \E user \in {"owner", "demo"} : Administer(user)
  BY <1>1, <1>3, RolesSpareMongo, MongoKept
<1>4. CASE \/ RunTask \/ UpdateClientBundleGithub
           \/ \E u \in Requested : Downloaded(u) \/ EntryRemoved(u) \/ UpdateFailed(u)
  BY <1>1, <1>4, ClientSparesMongo, MongoKept
<1>5. CASE \E c \in Callers : Connected(c) \/ Command(c) \/ Recorded(c) \/ MigrationDropped(c)
  BY <1>1, <1>5, ConnectedStep, CommandStep, RecordedStep, MigrationDroppedStep
<1>6. CASE MigrateMongo \/ StartedAgain \/ Killed
  BY <1>1, <1>6, MigrateMongoStep, StartedAgainMongo, KilledMongo
<1>7. CASE \E m \in DOMAIN Models : Edit(m) BY <1>1, <1>7, EditStep
<1>8. QED BY <1>2, <1>3, <1>4, <1>5, <1>6, <1>7, Zenon DEF ThisNext

\* Whatever stage the database came from, and however often migrations were cut short, begun
\* again or taken back, the documents hold what was saved where the models of their stage
\* read it, or where the half of a migration has put it; what is left of the one under way makes
\* the next stage of it. Excepted is what MongoMigrated excepts. And once the step is
\* over, all migrations are recorded, unless the floors block them or an error was dropped.
THEOREM MongoInvariant == StartSpec => []MongoInv
<1>1. StartInit => MongoInv BY MongoInitial
<1>2. StartInv /\ BundleInv /\ RolesInv /\ DemoInv /\ MongoInv /\ [ThisNext]_allVars => MongoInv'
  BY MongoNext
<1>3. QED BY <1>1, <1>2, RolesInvariant, PTL DEF StartSpec

\* A server that has booted has migrated MongoDB, unless the floors block it or an error was
\* dropped; and then its models find what users saved last.
THEOREM MongoIsMigrated == StartSpec => []MongoMigrated
<1>1. ASSUME MongoInv PROVE MongoMigrated
  <2> DEFINE a == mongo.applied
             colls == mongo.colls
  <2>0. Len(MigrationNames) = 9 BY NamesInOrder
  <2>1. SUFFICES ASSUME booted, ~env.isTypeormMode
                 PROVE  IF a < 9 THEN past.dropped \/ FloorsBlocked
                        ELSE past.excused \/ \A m \in DOMAIN Models : ShowsSaved(m) \/ (m = "floor" /\ OldFloors)
    BY <2>0, Zenon DEF MongoMigrated
  <2>2. a \in 0..9 /\ (a = 9 \/ past.dropped \/ FloorsBlocked)
    BY <1>1, <2>0, <2>1 DEF MongoInv, Over
  <2>3. ASSUME a = 9, ~past.excused, NEW m \in DOMAIN Models
        PROVE  ShowsSaved(m) \/ (m = "floor" /\ OldFloors)
    <3>1. /\ DOMAIN Models = {"name", "apiKey", "enabled", "passwordHash", "floor"}
          /\ Models["name"] = "printers" /\ Models["apiKey"] = "printers" /\ Models["enabled"] = "printers"
          /\ Models["passwordHash"] = "users" /\ Models["floor"] = "floors"
      BY DEF Models
    <3> DEFINE s == past.saved
    <3>2. Kept(colls, 9, Half, s) BY <1>1, <2>3 DEF MongoInv
    <3> HIDE DEF colls, s
    <3>3. /\ {"printers", "users"} \subseteq DOMAIN colls
          /\ colls["printers"] # {} /\ colls["users"] # {}
          /\ \A d \in colls["printers"] :
               Has(d, "name", s["name"]) /\ Has(d, "apiKey", s["apiKey"]) /\ Has(d, "enabled", s["enabled"])
          /\ \A d \in colls["users"] : Has(d, "passwordHash", s["passwordHash"])
          /\ FloorsKept(colls, s["floor"])
      BY <3>2, KeptAtLast
    <3>4. CASE m = "floor" /\ "printerfloors" \in DOMAIN colls BY <3>4 DEF OldFloors, colls
    <3>5. CASE ~(m = "floor" /\ "printerfloors" \in DOMAIN colls)
      <4>1. Models[m] \in DOMAIN colls /\ \E d \in colls[Models[m]] : Has(d, FieldOf(m), s[m])
        <5>1. CASE m \in {"name", "apiKey", "enabled"} BY <3>1, <3>3, <5>1 DEF FieldOf
        <5>2. CASE m = "passwordHash" BY <3>1, <3>3, <5>2 DEF FieldOf
        <5>3. CASE m = "floor" BY <3>1, <3>3, <3>5, <5>3 DEF FieldOf, FloorsKept, Named
        <5>4. QED BY <3>1, <5>1, <5>2, <5>3
      <4>2. QED BY <4>1 DEF ShowsSaved, Has, colls, s
    <3>6. QED BY <3>4, <3>5
  <2>4. QED BY <2>2, <2>3
<1>2. QED BY <1>1, MongoInvariant, PTL
=============================================================================
