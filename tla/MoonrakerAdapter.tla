-------------------------- MODULE MoonrakerAdapter --------------------------
(***************************************************************************)
(* The Moonraker websocket adapter (moonraker-websocket.adapter.ts), the   *)
(* JSON-RPC requests below it (websocket-rpc-extended.adapter.ts) and the  *)
(* client websocket of the ws library. Left out: apiState, which nothing   *)
(* reads for this kind of printer, and all of the printer objects but      *)
(* whether Klipper was running.                                            *)
(***************************************************************************)
EXTENDS Naturals

CONSTANTS Printers,   \* printer ids
          Tests,      \* correlation tokens of connection tests
          Adapters,   \* adapter objects
          Sockets,    \* websocket objects, used again once closed
          None        \* undefined / null

\* A correlation token is no id of a row (generateCorrelationToken).
ASSUME IdsAreDistinct ==
  Printers \cap Tests = {} /\ None \notin Printers \cup Tests \cup Adapters \cup Sockets

Ids == Printers \cup Tests

Klippy == {"ready", "down"}

SocketState == {"unopened", "opened", "authenticated", "closed", "error"}

\* status: printerObjects.status, null, {} (down) or with objects (ready); request:
\* the socket the pending identify went over, "unsent" when there was none;
\* overwritten: identifies another took the place of, whose timeouts still run.
Adapter == [printerId : Ids \cup {None},
            socketState : SocketState,
            socket : Sockets \cup {None},
            eventEmittingAllowed : BOOLEAN,
            refreshPrinterObjectsInterval : BOOLEAN,
            status : Klippy \cup {None},
            request : Sockets \cup {None, "unsent"},
            overwritten : Nat]

NewAdapter ==
  [printerId |-> None, socketState |-> "unopened", socket |-> None,
   eventEmittingAllowed |-> TRUE, refreshPrinterObjectsInterval |-> FALSE,
   status |-> None, request |-> None, overwritten |-> 0]

RegisterCredentials(r, id) == [r EXCEPT !.printerId = id]

SetSocketState(r, state) == [r EXCEPT !.socketState = state]

NeedsSetup(r) == r.socketState = "unopened"

ResetSocketState(r) == SetSocketState(r, "unopened")

\* close(), then ws reports an aborted handshake as an error and a close event
\* before anything else happens.
Close(r, connecting) ==
  [r EXCEPT !.socket = None, !.refreshPrinterObjectsInterval = FALSE,
            !.socketState = IF connecting THEN "closed" ELSE @]

\* MUTANT of Purge: closed, not silenced.
PurgeLoudly(r, connecting) == Close(r, connecting)

Purge(r, connecting) == Close([r EXCEPT !.eventEmittingAllowed = FALSE], connecting)

\* The answer to a query of the printer objects: 503 when Klipper is down.
Shown(r, klippy) == [r EXCEPT !.status = klippy]

\* MUTANT of ArmInterval: the objects are queried once.
ArmNothing(r) == r

ArmInterval(r) == [r EXCEPT !.refreshPrinterObjectsInterval = TRUE]

\* afterOpened up to the answer: the entry of id 1 is replaced, then the request goes
\* out on the present socket, or send throws.
Identify(r, sendable) ==
  [r EXCEPT !.socketState = "opened",
            !.overwritten = IF r.request = None THEN @ ELSE @ + 1,
            !.request = IF sendable THEN r.socket ELSE "unsent"]

Resolved(r) == [r EXCEPT !.request = None]

\* clearRequest removes the entry of id 1, whoever made it.
TimedOut(r) ==
  [r EXCEPT !.request = None, !.overwritten = IF @ > 0 THEN @ - 1 ELSE @]

OnEventMessage(r) == SetSocketState(r, "authenticated")

OnError(r) == SetSocketState(r, "error")

\* MUTANT of AfterClosed: the state follows the socket of the adapter only.
AfterClosedIfOpen(r) ==
  [r EXCEPT !.socketState = IF r.socket = None THEN @ ELSE "closed", !.socket = None]

AfterClosed(r) == SetSocketState([r EXCEPT !.socket = None], "closed")

---------------------------------------------------------------------------
(* The ws library and Moonraker's end of the connection: whether it was    *)
(* asked to identify and how many news of Klipper it has not yet sent.     *)

Websocket == [readyState : {"connecting", "open", "closing", "closed"},
              owner : Adapters \cup {None},
              identify : {"no", "asked", "answered"},
              news : Nat]

ClosedSocket == [readyState |-> "closed", owner |-> None, identify |-> "no", news |-> 0]

Connecting(a) == [ClosedSocket EXCEPT !.readyState = "connecting", !.owner = a]

Shut(w) == CASE w.readyState = "connecting" -> ClosedSocket
             [] w.readyState = "open" -> [w EXCEPT !.readyState = "closing"]
             [] OTHER -> w

Delivers(w) == w.readyState \in {"open", "closing"}
=============================================================================
