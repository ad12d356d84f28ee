-------------------------- MODULE OctoPrintAdapter --------------------------
(***************************************************************************)
(* The OctoPrint websocket adapter (octoprint-websocket.adapter.ts and its *)
(* base class shared/websocket.adapter.ts) as records and the operators    *)
(* that turn one record into the next: what one synchronous stretch of an  *)
(* adapter method does to its fields.  PrinterSockets interleaves them.    *)
(*                                                                         *)
(* A second kind of record stands for a client websocket of the ws         *)
(* library, which is external: its ready state, the adapter that opened    *)
(* it, the login whose URL it was opened with and the login whose session  *)
(* key was last sent over it.                                              *)
(***************************************************************************)
EXTENDS Naturals

CONSTANTS Printers,   \* printer ids
          Adapters,   \* adapter objects that may ever be constructed
          Sockets,    \* websocket objects, reused once closed
          None        \* undefined / null

\* The ids of different kinds of object differ from undefined.
ASSUME NoneIsNoObject == None \notin Printers \cup Adapters \cup Sockets \cup Nat

SocketState == {"unopened", "opening", "opened", "authenticating",
                "authenticated", "closed", "aborted", "error"}
ApiState == {"unset", "responding", "noResponse", "globalKey", "authFail"}

\* login is the version of the printer's URL and API key registered last;
\* sessionDto is the version of the login that obtained the session held.
Adapter == [printerId: Printers \cup {None},
            socketState: SocketState,
            apiState: ApiState,
            socket: Sockets \cup {None},
            eventEmittingAllowed: BOOLEAN,
            reauthRequired: BOOLEAN,
            login: Nat,
            sessionDto: Nat \cup {None},
            refreshInterval: BOOLEAN,   \* the 10 s state refresh is armed
            refreshing: BOOLEAN]        \* one refresh awaits its answer

\* An adapter object nobody has constructed yet.
Unconstructed == [printerId |-> None, socketState |-> "unopened",
                  apiState |-> "unset", socket |-> None,
                  eventEmittingAllowed |-> FALSE, reauthRequired |-> FALSE,
                  login |-> 0, sessionDto |-> None,
                  refreshInterval |-> FALSE, refreshing |-> FALSE]

NewAdapter(p) == [Unconstructed EXCEPT !.printerId = p,
                                       !.eventEmittingAllowed = TRUE]

\* Mutant: set-up waits for an API answer, which only a set-up asks for.
NeedsSetupOnline(r) == r.socketState = "unopened" /\ r.apiState = "responding"
NeedsSetup(r) == r.socketState = "unopened"
NeedsReopen(r) == r.apiState = "responding" /\ r.socketState \in {"closed", "error"}
\* Mutant: an aborted session is left alone.
IsClosedOnly(r) == r.socketState = "closed"
IsClosedOrAborted(r) == r.socketState \in {"closed", "aborted"}

RegisterCredentials(r, l) == [r EXCEPT !.login = l]
ResetSocketState(r) == [r EXCEPT !.socketState = "unopened", !.apiState = "unset"]

---------------------------------------------------------------------------
(* setupSocketSession: the outcome of each of its awaited requests.        *)

\* login() answered with a session: the request was made with login l.
LoginAccepted(r, l) == [r EXCEPT !.apiState = "responding",
                                 !.socketState = "opening",
                                 !.sessionDto = l]

\* A global API key, the guests group or a 403, or no usable answer at all:
\* apiState says which, the socket is aborted and the promise rejects.
LoginFailures == {"globalKey", "authFail", "noResponse"}
LoginRejected(r, why) == [r EXCEPT !.apiState = why, !.socketState = "aborted"]

UserRejected(r) == [r EXCEPT !.apiState = "authFail", !.socketState = "aborted"]

\* updateCurrentStateSafely, both its requests taken as one: answered, refused
\* with 409 (USB disconnected, apiState kept) or failed.
RefreshOutcomes == {"answered", "conflict", "failed"}
UpdateCurrentState(r, outcome) ==
  [r EXCEPT !.apiState = CASE outcome = "answered" -> "responding"
                           [] outcome = "conflict" -> @
                           [] outcome = "failed"   -> "noResponse"]

ArmRefresh(r) == [r EXCEPT !.refreshInterval = TRUE]

---------------------------------------------------------------------------
(* Websocket events, delivered to the adapter whichever of its sockets     *)
(* they come from: no handler looks at the sender.                         *)

AfterOpened(r) == [r EXCEPT !.socketState = "authenticating"]
OnMessage(r, reauth) == [r EXCEPT !.socketState = "authenticated",
                                  !.reauthRequired = @ \/ reauth]
OnError(r) == [r EXCEPT !.socketState = "error"]
\* Mutant: the closed socket is not deleted.
AfterClosedKept(r) == [r EXCEPT !.socketState = "closed"]
AfterClosed(r) == [r EXCEPT !.socketState = "closed", !.socket = None]

---------------------------------------------------------------------------
(* The websocket of the ws library (external).                             *)

ReadyState == {"connecting", "open", "closing", "closed"}
Websocket == [readyState: ReadyState,
              owner: Adapters \cup {None},
              url: Nat,
              auth: Nat \cup {None}]

ClosedSocket == [readyState |-> "closed", owner |-> None, url |-> 0, auth |-> None]

\* new WebSocket(url)
Connecting(a, l) == [readyState |-> "connecting", owner |-> a, url |-> l, auth |-> None]

\* ws.close(): a handshake in progress is aborted, an open connection starts
\* its closing handshake, anything else is left alone.
Shut(w) == CASE w.readyState = "connecting" -> ClosedSocket
             [] w.readyState = "open"       -> [w EXCEPT !.readyState = "closing"]
             [] OTHER                       -> w

\* close() of an adapter, then the rest of the handler: ws reports an aborted
\* handshake as an error and a close event on the next tick, before any other
\* event, so the adapter ends "closed" whatever the handler set.  `wasConnecting`
\* tells whether the socket closed was still connecting.
Closed(r, wasConnecting) ==
  [r EXCEPT !.socket = None, !.refreshInterval = FALSE,
            !.socketState = IF wasConnecting THEN "closed" ELSE @]
=============================================================================
