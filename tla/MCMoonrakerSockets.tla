------------------------- MODULE MCMoonrakerSockets -------------------------
EXTENDS MoonrakerSockets

CONSTANTS p1, t1, t2, a1, a2, w1, w2

MCPrinters == {p1}
MCTests == {t1, t2}
MCAdapters == {a1, a2}
MCSockets == {w1, w2}

Client(disturbances, budget, ps, ts) ==
  [disturbances |-> disturbances, budget |-> budget, printers |-> ps, tests |-> ts]

\* What disturbs a printer, and tests that overlap.
MCClients ==
  {Client({"httpFault", "wsFault", "klippy"}, 3, {p1}, {}),
   Client({"klippy", "reset"}, 2, {p1}, {}),
   Client({"klippy", "delete"}, 2, {p1}, {}),
   Client({"disable", "delete"}, 2, {p1}, {}),
   Client({"httpFault", "wsFault", "klippy"}, 2, {}, {t1}),
   Client({"httpFault"}, 1, {}, {t1, t2})}

=============================================================================
