----------------------------- MODULE MCDatabase -----------------------------
EXTENDS Database

Id(n) == "id" :> n

\* A farm of two printers, one of them placed, in a group and with a history, and its users.
Populous ==
  [printer |-> {Id(1), Id(2) @@ ("disabledReason" :> Null)}, floor |-> {Id(1)},
   floor_position |-> {Id(1) @@ [floorId |-> 1, printerId |-> 1]},
   group |-> {Id(1)}, printer_group |-> {Id(1) @@ [groupId |-> 1, printerId |-> 1]},
   print_completion |-> {Id(1) @@ [printerId |-> 1], Id(2) @@ [printerId |-> 2]},
   printer_file |-> {Id(1) @@ [printerId |-> 1]},
   user |-> {Id(1)}, refresh_token |-> {Id(1) @@ [userId |-> 1]},
   role |-> {},
   user_role |-> {Id(1) @@ [userId |-> 1, roleId |-> 1]},
   settings |-> {Id(1)}, custom_gcode |-> {Id(1)}]

DoubleRoles(roleId) ==
  [Populous EXCEPT !.role = @ \cup {Id(4) @@ [name |-> "ADMIN"]},
                   !.user_role = {Id(1) @@ [userId |-> 1, roleId |-> roleId]}]

MCSamples ==
  {<<>>, Populous, DoubleRoles(1), DoubleRoles(4),
   [camera_stream |-> {Id(1) @@ [printerId |-> 1], Id(2) @@ [printerId |-> Null]}] @@ Populous}

MCBudget == [crash |-> 1, revert |-> 3, edit |-> 1]
=============================================================================
