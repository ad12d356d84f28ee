------------------------------- MODULE MCFarm -------------------------------
(***************************************************************************)
(* Farm for TLC.                                                           *)
(***************************************************************************)
EXTENDS Farm, TLC

CONSTANTS p1, p2, f1, f2, c1, c2, offline, r1, r2

MCPrinterIds == {p1, p2}
MCFloorIds == {f1, f2}
MCConns == {c1, c2}
MCSlots == {r1, r2}
MCReasons == {offline}
MCCells == {<<0, 0>>, <<0, 1>>}
MCNameOf == [conn \in MCConns |-> conn]

\* A new floor without printers, with one, with two.
Alone == {{[printer |-> p, cell |-> <<0, 0>>]} : p \in MCPrinterIds}
Together == {{[printer |-> p, cell |-> <<0, 0>>], [printer |-> q, cell |-> <<0, 1>>]} :
               p \in MCPrinterIds, q \in MCPrinterIds}
Layouts == {{}} \cup Alone \cup {places \in Together : IsLayout(places)}

\* SQLite with the requests on printers and floors, on groups, and with imports
\* and what they may meet.
\* MongoDB with the requests that change printers; with those that change a floor
\* while printers come and go; that add floors and take them away; and that give
\* floors another level or name.
SqlOps == {"create", "update", "patch", "batch", "delete", "deleteAll", "createFloor",
           "deleteFloor", "updateFloor", "place", "remove", "list"}
GroupOps == {"create", "delete", "group"}
YamlOps == {"delete", "place", "import"}
PrinterOps == {"create", "update", "patch", "batch", "delete", "deleteAll"}
FloorOps == {"create", "delete", "deleteAll", "deleteFloor", "updateFloor", "place", "remove", "list"}
FloorsOps == {"create", "deleteAll", "createFloor", "deleteFloor", "place", "remove", "list"}
LevelOps == {"create", "delete", "createFloor", "updateFloor"}
MCClients == {[db |-> "sqlite", ops |-> SqlOps, names |-> {"A"}, conns |-> MCConns,
               layouts |-> Layouts],
              [db |-> "sqlite", ops |-> GroupOps, names |-> {"A"}, conns |-> {c1},
               layouts |-> {{}}],
              [db |-> "sqlite", ops |-> YamlOps, names |-> {"A", "B"}, conns |-> MCConns,
               layouts |-> {{}}],
              [db |-> "mongo", ops |-> PrinterOps, names |-> {"A"}, conns |-> MCConns,
               layouts |-> {{}}],
              [db |-> "mongo", ops |-> FloorOps, names |-> {"A"}, conns |-> {c1},
               layouts |-> {{}}],
              [db |-> "mongo", ops |-> FloorsOps, names |-> {"A"}, conns |-> {c1},
               layouts |-> {{}} \cup Alone],
              [db |-> "mongo", ops |-> LevelOps, names |-> {"A", "B"}, conns |-> {c1},
               layouts |-> {{}}]}

\* Files with two printers: on one floor, on two whose levels are free or taken,
\* without a grid, with groups, and compared by id.
Printers ==
  1 :> [conn |-> c1, enabled |-> TRUE, reason |-> None] @@
  2 :> [conn |-> c2, enabled |-> FALSE, reason |-> offline]

At(i, cell) == [printer |-> i, cell |-> cell]

OneFloor(places) == 1 :> [name |-> "A", level |-> 0, printers |-> places]

TwoFloors(level, other) ==
  1 :> [name |-> "A", level |-> level, printers |-> {At(2, <<0, 1>>)}] @@
  2 :> [name |-> "B", level |-> other, printers |-> {At(1, <<0, 0>>)}]

File(floors, groups, grid, printerBy, floorBy) ==
  [printers |-> Printers, floors |-> floors, groups |-> groups,
   grid |-> grid, printerBy |-> printerBy, floorBy |-> floorBy]

Both == {At(1, <<0, 0>>), At(2, <<0, 1>>)}
Linked == <<[name |-> "A", printers |-> {1}], [name |-> "B", printers |-> {1, 2}]>>

MCFiles ==
  {File(OneFloor(Both), Linked, TRUE, <<"name">>, "floor"),
   File(OneFloor({At(1, <<0, 1>>)}), <<>>, TRUE, <<"url">>, "name"),
   File(TwoFloors(0, 1), <<>>, TRUE, <<"name", "id">>, "name"),
   File(TwoFloors(1, 0), <<>>, TRUE, <<"name">>, "name"),
   File(OneFloor({}), <<>>, FALSE, <<"name">>, "floor"),
   File(OneFloor(Both), <<>>, TRUE, <<"name">>, "id")}

Symmetry ==
  Permutations(MCPrinterIds) \cup Permutations(MCFloorIds) \cup Permutations(MCSlots)
=============================================================================
