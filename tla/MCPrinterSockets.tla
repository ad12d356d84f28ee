-------------------------- MODULE MCPrinterSockets --------------------------
(***************************************************************************)
(* PrinterSockets for TLC.  The configurations differ in the disturbances  *)
(* they allow; each has a websocket for every session that can open one.   *)
(***************************************************************************)
EXTENDS PrinterSockets

\* Requests of the user and printer events.
UserDisturbances == {"create", "update", "delete", "refresh"}
\* Failures of the printer's server, and its reauthRequired messages.
ServerDisturbances == {"httpFault", "wsFault", "wsError", "reauth"}
AllDisturbances == UserDisturbances \cup ServerDisturbances

\* A printer that is created once and whose server may refuse or drop anything.
FaultyServer == {"create", "httpFault", "wsFault"}
OneRefresh == {"create", "refresh"}
OneUpdate == {"create", "update"}
=============================================================================
