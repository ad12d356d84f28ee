-------------------------------- MODULE Boot --------------------------------
(***************************************************************************)
(* Booting the server (server.host.ts, tasks/boot.task.ts, tasks.ts): the  *)
(* first run of the boot task, awaited by the host before it listens, its  *)
(* retries by the task manager when MongoDB is not there, the tasks it     *)
(* registers at its end, and a process that exits and is started again.    *)
(***************************************************************************)
EXTENDS TaskManager

CONSTANTS BootTask,  \* the id of the boot task
          Budget     \* how many failures happen altogether, a bound

\* SERVER_BOOT_TASK is periodic, disabled until the boot has failed.
ASSUME BootRegistered ==
  /\ BootTask \in Tasks
  /\ Preset[BootTask] = RegisterTask(TASK_PRESETS.PERIODIC_DISABLED, FALSE)
ASSUME BudgetIsCount == Budget \in Nat

BOOT_TASKS == Tasks \ {BootTask}

\* The awaits of run(): 1 connect to the database and migrate it, 2 load the
\* settings, 3 synchronise permissions and roles, 4 apply the overrides of the
\* environment, 5 load printer sockets, 6 files, 7 floors, 8 thumbnails.
LastStep == 8
Callers == {"host", "job"}

VARIABLES
  env,      \* the environment: TypeORM or MongoDB, safe mode, and whether stop() of a job
            \* of toad-scheduler ends its interval
  host,     \* the host process
  tasks,    \* taskStates
  run,      \* for each caller of run(), the step it awaits, 0 when none
  loaded,   \* the last step that any run of this process completed
  booted,   \* the last run of this process has reached its end
  left      \* how many failures may still happen

vars == <<env, host, tasks, run, loaded, booted, left>>

Environment == [isTypeormMode: BOOLEAN, safeMode: BOOLEAN, stops: BOOLEAN]

TypeOK ==
  /\ env \in Environment
  /\ host \in {"started", "booting", "listening", "crashed"}
  /\ tasks \in [Tasks -> TaskState]
  /\ run \in [Callers -> 0..LastStep]
  /\ loaded \in 0..LastStep
  /\ booted \in BOOLEAN
  /\ left \in Nat

NoTask == [t \in Tasks |-> Unregistered]
NoRun == [c \in Callers |-> 0]

Init ==
  /\ env \in Environment
  /\ host = "started"
  /\ tasks = NoTask
  /\ run = NoRun
  /\ loaded = 0
  /\ booted = FALSE
  /\ left = Budget

Fail == left > 0 /\ left' = left - 1

---------------------------------------------------------------------------
(* The boot task                                                           *)

RunOnce ==
  /\ host = "started"
  /\ host' = "booting"
  /\ tasks' = [tasks EXCEPT ![BootTask] = RegisterJobOrTask(BootTask, @)]
  /\ run' = [run EXCEPT !["host"] = 1]
  /\ UNCHANGED <<env, loaded, booted, left>>

\* run() returns to its caller with ts the task states: the host goes on to
\* listen, the job is done.
Returned(c, ts) ==
  /\ run' = [run EXCEPT ![c] = 0]
  /\ IF c = "host"
       THEN host' = "listening" /\ tasks' = ts
       ELSE host' = host /\ tasks' = [ts EXCEPT ![BootTask] = RunEnded(@)]

\* run() throws: the host exits the process, the job logs the error.
Thrown(c) ==
  /\ run' = [run EXCEPT ![c] = 0]
  /\ IF c = "host"
       THEN host' = "crashed" /\ tasks' = tasks
       ELSE host' = host /\ tasks' = [tasks EXCEPT ![BootTask] = RunEnded(@)]

\* Mutant: the tasks are registered once the sockets are loaded, step 5.
FinishedEarly(c) ==
  /\ booted' = TRUE
  /\ Returned(c, [t \in Tasks |->
       IF t = BootTask THEN tasks[t] ELSE RegisterJobOrTask(t, tasks[t])])

\* After the last step: the tasks are registered, then the boot task disabled.
Finished(c) ==
  /\ booted' = TRUE
  /\ Returned(c, [t \in Tasks |->
       CASE t = BootTask                  -> DisableJob(tasks[t], env.stops)
         [] t # BootTask /\ env.safeMode  -> tasks[t]
         [] t # BootTask /\ ~env.safeMode -> RegisterJobOrTask(t, tasks[t])])

\* Mutant: the tasks are registered when the printer sockets have been loaded.
StepDoneEarly(c) ==
  /\ run[c] > 0
  /\ loaded' = IF run[c] > loaded THEN run[c] ELSE loaded
  /\ IF run[c] = 5
       THEN FinishedEarly(c)
       ELSE /\ run' = [run EXCEPT ![c] = @ + 1]
            /\ UNCHANGED <<host, tasks, booted>>
  /\ UNCHANGED <<env, left>>

StepDone(c) ==
  /\ run[c] > 0
  /\ loaded' = IF run[c] > loaded THEN run[c] ELSE loaded
  /\ IF run[c] = LastStep
       THEN Finished(c)
       ELSE /\ run' = [run EXCEPT ![c] = @ + 1]
            /\ UNCHANGED <<host, tasks, booted>>
  /\ UNCHANGED <<env, left>>

\* The connection fails with an error of mongoose: the job is to try again.
MongooseFailed(c) ==
  /\ run[c] = 1
  /\ ~env.isTypeormMode
  /\ Fail
  /\ Returned(c, [tasks EXCEPT ![BootTask] = ScheduleDisabledJob(BootTask, @)])
  /\ UNCHANGED <<env, loaded, booted>>

\* Another error of the connection or of a migration of MongoDB is dropped.
MigrationFailed(c) ==
  /\ run[c] = 1
  /\ ~env.isTypeormMode
  /\ Fail
  /\ run' = [run EXCEPT ![c] = 2]
  /\ UNCHANGED <<env, host, tasks, loaded, booted>>

\* The connection of TypeORM or a later step fails.
StepFailed(c) ==
  /\ run[c] > 0
  /\ run[c] > 1 \/ env.isTypeormMode
  /\ Fail
  /\ Thrown(c)
  /\ UNCHANGED <<env, loaded, booted>>

RunStep(c) == StepDone(c) \/ MongooseFailed(c) \/ MigrationFailed(c) \/ StepFailed(c)

\* The supervisor of the process starts it again (external).
Restarted ==
  /\ host = "crashed"
  /\ host' = "started"
  /\ tasks' = NoTask
  /\ run' = NoRun
  /\ loaded' = 0
  /\ booted' = FALSE
  /\ UNCHANGED <<env, left>>

---------------------------------------------------------------------------
(* Jobs.  A process that has crashed runs nothing.                         *)

Alive == host # "crashed"

BootJobTick ==
  /\ Alive
  /\ CanTick(tasks[BootTask])
  /\ tasks' = [tasks EXCEPT ![BootTask] = Execute(@)]
  /\ run' = [run EXCEPT !["job"] = 1]
  /\ booted' = FALSE
  /\ UNCHANGED <<env, host, loaded, left>>

JobTick(t) ==
  /\ Alive
  /\ CanTick(tasks[t])
  /\ tasks' = [tasks EXCEPT ![t] = Execute(@)]
  /\ UNCHANGED <<env, host, run, loaded, booted, left>>

DelayElapsed(t) ==
  /\ Alive
  /\ tasks[t].delayed
  /\ tasks' = [tasks EXCEPT ![t] = TimeoutFires(@)]
  /\ UNCHANGED <<env, host, run, loaded, booted, left>>

\* The handler of a task returns or throws: the error handler only logs.
TaskEnded(t) ==
  /\ Alive
  /\ tasks[t].isExecuting
  /\ tasks' = [tasks EXCEPT ![t] = RunEnded(@)]
  /\ UNCHANGED <<env, host, run, loaded, booted, left>>

Next ==
  \/ RunOnce
  \/ \E c \in Callers : RunStep(c)
  \/ Restarted
  \/ BootJobTick
  \/ \E t \in BOOT_TASKS : JobTick(t) \/ DelayElapsed(t) \/ TaskEnded(t)

Spec == Init /\ [][Next]_vars

\* What is awaited ends, intervals and timeouts elapse, and the supervisor
\* restarts a process that has exited.  Failures need not happen.
Fairness ==
  /\ WF_vars(RunOnce)
  /\ \A c \in Callers : WF_vars(RunStep(c))
  /\ WF_vars(Restarted)
  /\ WF_vars(BootJobTick)
  /\ \A t \in BOOT_TASKS :
       WF_vars(JobTick(t)) /\ WF_vars(DelayElapsed(t)) /\ WF_vars(TaskEnded(t))

FairSpec == Spec /\ Fairness

---------------------------------------------------------------------------
(* Properties                                                              *)

\* The boot is never run by the host and by its job at once, which would load
\* every store twice side by side: the job is scheduled by a run that returns.
OneBootRun == run["host"] = 0 \/ run["job"] = 0

\* No task has two intervals, however often the boot fails and is retried; the boot job
\* may, if a boot that is run again although its job was to stop fails to connect.
OneTimer == \A t \in Tasks :
  tasks[t].timers \in {0, 1} \/ (t = BootTask /\ ~env.stops)

\* No task runs on stores that were not loaded in this process.
StoresFirst ==
  \A t \in BOOT_TASKS : tasks[t].isExecuting => loaded = LastStep

\* A boot that has reached its end, as its last step tells, is not run again if stop()
\* works: its job has no interval, and no run is pending. If not, only the job runs it.
BootStops ==
  loaded = LastStep =>
    /\ run["host"] = 0
    /\ env.stops => tasks[BootTask].timers = 0 /\ run["job"] = 0

\* The boot and its job keep their order: one interval, stores before tasks, and an end.
BootInOrder == OneTimer /\ StoresFirst /\ BootStops

\* What these rest on.  The boot job has an interval when it was enabled, and if stop()
\* works, while it is; it runs the boot only then, and not while the host does; the other
\* tasks are registered by a boot that ends, in a process that had loaded everything.
BootJob ==
  LET r == tasks[BootTask] IN
  /\ env.stops => r.timers = IF r.options = "enabled" THEN 1 ELSE 0
  /\ run["job"] > 0 <=> r.isExecuting
  /\ run["job"] > 0 /\ env.stops => r.options = "enabled"
  /\ r.timers > 0 \/ r.isExecuting => r.options # "none"
  /\ run["job"] > 0 => host = "listening"
  /\ run["host"] > 0 <=> host = "booting"
  /\ host = "booting" => r.options = "disabled" /\ r.timers = 0
  /\ r.options = "enabled" \/ r.timers > 0 => host = "listening"
BootedLoaded == booted => loaded = LastStep /\ host = "listening" /\ \A c \in Callers : run[c] = 0
TasksOfBoot == \A t \in BOOT_TASKS : tasks[t] = Unregistered \/ loaded = LastStep
StartedFresh ==
  host = "started" => tasks = NoTask /\ run = NoRun /\ loaded = 0 /\ ~booted

IInv == /\ TypeOK
        /\ BootJob
        /\ OneTimer
        /\ BootedLoaded
        /\ BootStops
        /\ TasksOfBoot
        /\ StartedFresh

\* Every periodic task runs again and again, whatever fails while booting: the
\* boot is retried by its job or by the supervisor until it succeeds.
TasksRun == ~env.safeMode =>
  \A t \in BOOT_TASKS : Preset[t].kind = "periodic" =>
    []<>tasks[t].isExecuting /\ []<>~tasks[t].isExecuting
=============================================================================
