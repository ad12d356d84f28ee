---------------------------- MODULE PrinterGroups ----------------------------
(***************************************************************************)
(* Groups of printers (services/orm/printer-group.service.ts, SQLite only) *)
(* in the field "groups" of the record s of PrinterRegistry: a name and    *)
(* the printers linked to the group. Names are not unique.                 *)
(***************************************************************************)
EXTENDS PrinterRegistry, Naturals

CONSTANTS GroupIds,    \* numbers: groups are listed in this order
          GroupNames

Group == [name: GroupNames, printers: SUBSET PrinterIds]

CreateGroup(s, g, name) ==
  [s EXCEPT !.groups = Put(@, g, [name |-> name, printers |-> {}])]

UpdateGroupName(s, g, name) == [s EXCEPT !.groups[g].name = name]

DeleteGroup(s, g) == [s EXCEPT !.groups = Restrict(@, DOMAIN @ \ {g})]

\* The foreign key refuses a printer that does not exist.
AddPrinterToGroup(s, g, p) ==
  IF p \in DOMAIN s.printers THEN [s EXCEPT !.groups[g].printers = @ \cup {p}] ELSE s

RemovePrinterFromGroup(s, g, p) == [s EXCEPT !.groups[g].printers = @ \ {p}]
=============================================================================
