--------------------------- MODULE MCPrinterFiles ---------------------------
EXTENDS PrinterFiles

CONSTANTS p1, p2, f1, f2, c1, c2

MCPrinters == {p1, p2}
MCFiles == {f1, f2}
MCSlots == {c1, c2}
MCOrder == p1 :> 1 @@ p2 :> 2

One == {c1}
Two == {c1, c2}

Client(type, ops, ps, fs, settings, slots, disturbances, budget) ==
  [type |-> type, ops |-> ops, printers |-> ps, files |-> fs, settings |-> settings, slots |-> slots,
   disturbances |-> disturbances, budget |-> budget]

\* Requests that meet, clean-ups before uploads and by the task, and thumbnails.
MCClients ==
  {Client("octoprint", {"list", "delete", "clear"}, {p1}, {f1, f2}, {}, Two, {"fault", "foreign"}, 1),
   Client("octoprint", {"list", "delete", "upload"}, {p1}, {f1, f2}, {"beforeUpload"}, One, {"fault", "foreign"}, 2),
   Client("octoprint", {"upload", "delete"}, {p1}, {f1}, {"beforeUpload"}, Two, {"fault", "support"}, 1),
   Client("octoprint", {"upload"}, {p1, p2}, {f1}, {"atBoot", "beforeUpload"}, One,
          {"fault", "disable", "delete", "restart"}, 2),
   Client("moonraker", {"upload"}, {p1}, {f1}, {}, Two, {"fault", "support", "restart"}, 1),
   Client("octoprint", {"upload"}, {p1}, {f1}, {"atBoot", "beforeUpload", "zeroDays"}, One, {"fault"}, 1),
   Client("octoprint", {"reload", "print"}, {p1}, {f1}, {}, Two, {"fault", "support", "delete"}, 1),
   Client("octoprint", {"reload", "print"}, {p1}, {f1, f2}, {}, One,
          {"fault", "support", "disable", "delete", "restart"}, 3)}

Symmetry == Permutations(MCFiles) \cup Permutations(MCSlots)
=============================================================================
