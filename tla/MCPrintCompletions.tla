------------------------- MODULE MCPrintCompletions -------------------------
EXTENDS PrintCompletions

CONSTANTS p1, p2

Instance(db, printers, jobs, notes, budget) ==
  [db |-> db, printers |-> printers, jobs |-> jobs, notes |-> notes, budget |-> budget]

\* Two jobs of one printer with notes, three without, or one of each of two printers.
MCInstances ==
  UNION {{Instance(db, {p1}, 2, {"Error"}, 2), Instance(db, {p1}, 1, {"Error", "Disconnected"}, 1),
          Instance(db, {p1}, 3, {}, 1), Instance(db, {p1, p2}, 1, {"Error"}, 1)} : db \in {"mongo", "sqlite"}}
=============================================================================
