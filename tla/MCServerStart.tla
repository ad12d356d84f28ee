--------------------------- MODULE MCServerStart ---------------------------
(***************************************************************************)
(* ServerStart for TLC, with a task for each preset of tasks.ts.           *)
(***************************************************************************)
EXTENDS ServerStart

CONSTANTS boot, websocket, restore, client, update

MCTasks == {boot, websocket, restore, client, update}

MCPreset == [t \in MCTasks |->
  CASE t = boot      -> RegisterTask(TASK_PRESETS.PERIODIC_DISABLED, FALSE)
    [] t = websocket -> RegisterTask(TASK_PRESETS.PERIODIC, TRUE)
    [] t = restore   -> RegisterTask(TASK_PRESETS.PERIODIC, FALSE)
    [] t = client    -> RegisterTask(TASK_PRESETS.RUNONCE, FALSE)
    [] t = update    -> RegisterTask(TASK_PRESETS.RUNDELAYED, FALSE)]
=============================================================================
