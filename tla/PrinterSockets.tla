--------------------------- MODULE PrinterSockets ---------------------------
(***************************************************************************)
(* The store of OctoPrint socket adapters (printer-socket.store.ts), the   *)
(* two tasks that keep them connected (printer-websocket.task.ts every 2 s,*)
(* printer-websocket-restore.task.ts every 15 s), the printer events that  *)
(* create, replace and purge adapters, and what reaches the printer events *)
(* cache.  The server is one event loop: an action is everything that runs *)
(* between two waits for the network or a timer, the chains of resolved    *)
(* promises included.  HTTP answers, websocket events and timers interleave*)
(* in any order.                                                           *)
(***************************************************************************)
EXTENDS OctoPrintAdapter

CONSTANTS Disturbances, \* the kinds of disturbance that happen at all: any of
                        \* "httpFault", "wsFault", "wsError", "reauth",
                        \* "refresh", "update", "create", "delete"
          Budget        \* how many happen altogether, a bound

ASSUME BudgetIsCount == Budget \in Nat

VARIABLES
  printers,     \* the printers of the printer cache: status and login
  store,        \* printerSocketAdaptersById
  ad,           \* every adapter object
  ws,           \* every websocket object
  sessions,     \* setupSocketSession promises pending, see Session
  task,         \* where the run of the reconnect task is
  restore,      \* the run of the restore task waiting for getConnection
  eventsCached, \* printers with an entry in the printer events cache
  left          \* how many disturbances may still happen

vars == <<printers, store, ad, ws, sessions, task, restore, eventsCached, left>>

\* A run of setupSocketSession: for which adapter, in which phase of the task,
\* the request awaited ("auth": the session is set up and the auth message of a
\* reauth is being sent) and the login its first request was made with.
Kinds == {"reauth", "setup"}
Session == [adapter: Adapters, kind: Kinds,
            pc: {"login", "user", "current", "auth"}, login: Nat]
Status == {"new", "disabled", "enabled", "deleted"}

TypeOK ==
  /\ printers \in [Printers -> [status: Status, login: Nat]]
  /\ store \in [Printers -> Adapters \cup {None}]
  /\ ad \in [Adapters -> Adapter]
  /\ ws \in [Sockets -> Websocket]
  /\ sessions \in SUBSET Session
  /\ task \in {"idle", "reauth", "open"}
  /\ restore \in [awaiting: BOOLEAN, todo: SUBSET Adapters]
  /\ eventsCached \in SUBSET Printers
  /\ left \in Nat

Init ==
  /\ printers = [p \in Printers |-> [status |-> "new", login |-> 0]]
  /\ store = [p \in Printers |-> None]
  /\ ad = [a \in Adapters |-> Unconstructed]
  /\ ws = [w \in Sockets |-> ClosedSocket]
  /\ sessions = {}
  /\ task = "idle"
  /\ restore = [awaiting |-> FALSE, todo |-> {}]
  /\ eventsCached = {}
  /\ left = Budget

Stored == {a \in Adapters : \E p \in Printers : store[p] = a}
Spend(d) == d \in Disturbances /\ left > 0 /\ left' = left - 1

\* The events cache has an entry for each printer whose message it was sent.
OnOctoPrintSocketMessage(ids) == eventsCached \cup ids

\* emitEvent and emitEventSync of the adapters in A, unless emitting is disallowed.
Emitted(A) ==
  OnOctoPrintSocketMessage({ad[a].printerId : a \in {b \in A : ad[b].eventEmittingAllowed}})

WasConnecting(a) == ad[a].socket # None /\ ws[ad[a].socket].readyState = "connecting"

\* The websockets after close() of the adapters in A.
SocketsShut(A) ==
  [w \in Sockets |-> IF \E a \in A : ad[a].socket = w THEN Shut(ws[w]) ELSE ws[w]]

---------------------------------------------------------------------------
(* Printer events and requests of the user                                 *)

\* createOrUpdateSocket for an enabled printer without an adapter: it is created
\* or enabled again; loadPrinterSockets does the same for each cached printer.
PrinterCreated(p, a) ==
  /\ printers[p].status \in {"new", "disabled"}
  /\ store[p] = None
  /\ ad[a].printerId = None
  /\ Spend("create")
  /\ printers' = [printers EXCEPT ![p].status = "enabled"]
  /\ store' = [store EXCEPT ![p] = a]
  /\ ad' = [ad EXCEPT ![a] = ResetSocketState(RegisterCredentials(NewAdapter(p), printers[p].login))]
  /\ eventsCached' = eventsCached \cup {p}
  /\ UNCHANGED <<ws, sessions, task, restore>>

\* createOrUpdateSocket for an enabled printer with an adapter: the printer was
\* renamed (l is its login still) or given another URL or API key.
PrinterUpdated(p, l) ==
  LET a == store[p] IN
  /\ a # None
  /\ l \in {printers[p].login, printers[p].login + 1}
  /\ Spend("update")
  /\ printers' = [printers EXCEPT ![p].login = l]
  /\ ad' = [ad EXCEPT ![a] = Closed(ResetSocketState(RegisterCredentials(@, l)), WasConnecting(a))]
  /\ ws' = SocketsShut({a})
  /\ eventsCached' = Emitted({a})
  /\ UNCHANGED <<store, sessions, task, restore>>

\* Mutant: the adapter is closed but not silenced.
PurgedLoudly(r, wasConnecting) == Closed(r, wasConnecting)

\* deleteSocket
Purged(r, wasConnecting) ==
  Closed([r EXCEPT !.eventEmittingAllowed = FALSE], wasConnecting)

DeleteSocket(p) ==
  /\ store' = [store EXCEPT ![p] = None]
  /\ IF store[p] = None
       THEN UNCHANGED <<ad, ws>>
       ELSE /\ ad' = [ad EXCEPT ![store[p]] = Purged(@, WasConnecting(store[p]))]
            /\ ws' = SocketsShut({store[p]})

\* createOrUpdateSocket for a printer created disabled or disabled now.
PrinterDisabled(p) ==
  /\ printers[p].status \in {"new", "enabled"}
  /\ Spend("delete")
  /\ printers' = [printers EXCEPT ![p].status = "disabled"]
  /\ DeleteSocket(p)
  /\ UNCHANGED <<sessions, task, restore, eventsCached>>

\* handlePrintersDeleted, of the store and of the events cache.
PrintersDeleted(p) ==
  /\ printers[p].status \in {"enabled", "disabled"}
  /\ Spend("delete")
  /\ printers' = [printers EXCEPT ![p].status = "deleted"]
  /\ DeleteSocket(p)
  /\ eventsCached' = eventsCached \ {p}
  /\ UNCHANGED <<sessions, task, restore>>

\* reconnectOctoPrint of the printer whose adapter is a.
ReconnectOctoPrint(a) ==
  /\ ad' = [ad EXCEPT ![a] = Closed(ResetSocketState(@), WasConnecting(a))]
  /\ ws' = SocketsShut({a})
  /\ eventsCached' = Emitted({a})

\* A request to refresh one printer, or one printer of a batch.  The former then
\* deletes the entry of the events cache, but the events of resetSocketState have
\* read it and write it back when the promises resolve.
RefreshPrinterSocket(p) ==
  /\ store[p] # None
  /\ Spend("refresh")
  /\ ReconnectOctoPrint(store[p])
  /\ UNCHANGED <<printers, store, sessions, task, restore>>

---------------------------------------------------------------------------
(* The reconnect task: reconnectPrinterSockets                             *)

\* setupSocketSession of the adapters in A up to the login request.
Started(adapters, A) ==
  [a \in Adapters |-> IF a \in A THEN ResetSocketState(adapters[a]) ELSE adapters[a]]
NewSessions(A, kind) ==
  {[adapter |-> a, kind |-> kind, pc |-> "login", login |-> ad[a].login] : a \in A}

\* The second loop, run once every reauth has settled, with `adapters` the
\* adapters at that moment and `emitters` those that have emitted already.
OpenPhase(adapters, emitters) ==
  LET down == {a \in Stored : NeedsSetup(adapters[a]) \/ NeedsReopen(adapters[a])} IN
  /\ ad' = Started(adapters, down)
  /\ sessions' = NewSessions(down, "setup")
  /\ task' = IF down = {} THEN "idle" ELSE "open"
  /\ eventsCached' = Emitted(emitters \cup down)

\* Mutant: the job starts a run whatever the last one is doing.
ReconnectTickOverrun ==
  /\ sessions' = sessions \cup NewSessions({a \in Stored : NeedsSetup(ad[a])}, "setup")
  /\ task' = "open"
  /\ UNCHANGED <<printers, store, ad, ws, restore, eventsCached, left>>

\* A tick of the job while no run is going on (preventOverrun).
ReconnectTick ==
  LET expired == {a \in Stored : ad[a].reauthRequired} IN
  /\ task = "idle"
  /\ IF expired = {}
       THEN OpenPhase(ad, {})
       ELSE /\ ad' = Started(ad, expired)
            /\ sessions' = NewSessions(expired, "reauth")
            /\ task' = "reauth"
            /\ eventsCached' = Emitted(expired)
  /\ UNCHANGED <<printers, store, ws, restore, left>>

\* A session of adapter a settled: the run goes on when it was the last.
Settle(s, r) ==
  LET adapters == [ad EXCEPT ![s.adapter] = r]
      rest == sessions \ {s}
  IN IF rest = {} /\ task = "reauth"
       THEN OpenPhase(adapters, {s.adapter})
       ELSE /\ ad' = adapters
            /\ sessions' = rest
            /\ task' = IF rest = {} THEN "idle" ELSE task
            /\ eventsCached' = Emitted({s.adapter})

\* A session goes on to its next request.
Advance(s, pc, r) ==
  /\ ad' = [ad EXCEPT ![s.adapter] = r]
  /\ sessions' = (sessions \ {s}) \cup {[s EXCEPT !.pc = pc]}
  /\ task' = task
  /\ eventsCached' = Emitted({s.adapter})

SessionLogin(s) ==
  /\ s.pc = "login"
  /\ \/ /\ Advance(s, "user", LoginAccepted(ad[s.adapter], s.login))
        /\ left' = left
     \/ \E why \in LoginFailures :
          /\ Spend("httpFault")
          /\ Settle(s, LoginRejected(ad[s.adapter], why))
  /\ UNCHANGED <<printers, store, ws, restore>>

SessionUser(s) ==
  /\ s.pc = "user"
  /\ \/ /\ Advance(s, "current", ad[s.adapter])
        /\ left' = left
     \/ /\ Spend("httpFault")
        /\ Settle(s, UserRejected(ad[s.adapter]))
  /\ UNCHANGED <<printers, store, ws, restore>>

\* open() after the set-up: throws when there is a socket, which leaves the
\* state as it is.
FreeSocket == CHOOSE w \in Sockets : ws[w].readyState = "closed"
OpenSocket(s, r) ==
  IF r.socket # None
    THEN ws' = ws /\ Settle(s, r)
    ELSE /\ \E w \in Sockets : ws[w].readyState = "closed"
         /\ ws' = [ws EXCEPT ![FreeSocket] = Connecting(s.adapter, r.login)]
         /\ Settle(s, [r EXCEPT !.socket = FreeSocket])

\* Mutant: reauthRequired is reset only after a message has gone out.
SendAuthThenReset(s, r) ==
  IF r.socket # None /\ ws[r.socket].readyState = "open"
    THEN ws' = ws /\ Advance(s, "auth", [r EXCEPT !.socketState = "authenticating"])
    ELSE ws' = ws /\ Settle(s, [r EXCEPT !.socketState = "authenticating"])

\* sendAuth: the state is set whatever happens to the message, which goes out
\* only on an open socket.
SendAuth(s, r) ==
  LET authenticating == [r EXCEPT !.socketState = "authenticating"] IN
  IF r.socket # None /\ ws[r.socket].readyState = "open"
    THEN /\ ws' = [ws EXCEPT ![r.socket].auth = r.sessionDto]
         /\ Advance(s, "auth", authenticating)
    ELSE ws' = ws /\ Settle(s, [authenticating EXCEPT !.reauthRequired = FALSE])

SessionCurrent(s) ==
  /\ s.pc = "current"
  /\ \E outcome \in RefreshOutcomes :
       LET r == ArmRefresh(UpdateCurrentState(ad[s.adapter], outcome)) IN
       /\ IF outcome = "failed" THEN Spend("httpFault") ELSE left' = left
       /\ IF s.kind = "setup" THEN OpenSocket(s, r) ELSE SendAuth(s, r)
  /\ UNCHANGED <<printers, store, restore>>

\* The auth message of a reauth is written to the socket, or fails to be.
SessionAuthSent(s) ==
  /\ s.pc = "auth"
  /\ \/ left' = left /\ Settle(s, [ad[s.adapter] EXCEPT !.reauthRequired = FALSE])
     \/ Spend("wsFault") /\ Settle(s, ad[s.adapter])
  /\ UNCHANGED <<printers, store, ws, restore>>

SessionStep == \E s \in sessions :
  SessionLogin(s) \/ SessionUser(s) \/ SessionCurrent(s) \/ SessionAuthSent(s)

---------------------------------------------------------------------------
(* The restore task                                                        *)

\* The adapters in A are visited: those closed or aborted are closed and reset.
Visit(A) ==
  LET reset == {a \in A : IsClosedOrAborted(ad[a])} IN
  /\ ad' = [a \in Adapters |->
              IF a \in reset THEN Closed(ResetSocketState(ad[a]), WasConnecting(a)) ELSE ad[a]]
  /\ ws' = SocketsShut(reset)
  /\ eventsCached' = Emitted(reset)

\* The run over the adapters of `todo`, to its end or up to an adapter that is
\* not down and silent, whose getConnection it awaits.  How long an adapter has
\* been silent is left out.
RunRestore(todo) ==
  \E seen \in SUBSET todo :
    /\ Visit(seen)
    /\ \/ /\ seen = todo
          /\ restore' = [awaiting |-> FALSE, todo |-> {}]
       \/ \E silent \in todo \ seen :
            /\ ~IsClosedOrAborted(ad[silent])
            /\ restore' = [awaiting |-> TRUE, todo |-> todo \ (seen \cup {silent})]

RestoreTick ==
  /\ ~restore.awaiting
  /\ RunRestore(Stored)
  /\ UNCHANGED <<printers, store, sessions, task, left>>

\* getConnection answers and the run goes on over the list taken at its start,
\* or it fails and the run ends there.
RestoreResume ==
  /\ restore.awaiting
  /\ \/ RunRestore(restore.todo) /\ left' = left
     \/ /\ Spend("httpFault")
        /\ restore' = [awaiting |-> FALSE, todo |-> {}]
        /\ UNCHANGED <<ad, ws, eventsCached>>
  /\ UNCHANGED <<printers, store, sessions, task>>

---------------------------------------------------------------------------
(* The 10 s refresh of an adapter's state                                  *)

RefreshTick(a) ==
  /\ ad[a].refreshInterval
  /\ ~ad[a].refreshing
  /\ ad' = [ad EXCEPT ![a].refreshing = TRUE]
  /\ UNCHANGED <<printers, store, ws, sessions, task, restore, eventsCached, left>>

RefreshAnswered(a) ==
  /\ ad[a].refreshing
  /\ \E outcome \in RefreshOutcomes :
       /\ IF outcome = "failed" THEN Spend("httpFault") ELSE left' = left
       /\ ad' = [ad EXCEPT ![a] = [UpdateCurrentState(@, outcome) EXCEPT !.refreshing = FALSE]]
  /\ eventsCached' = Emitted({a})
  /\ UNCHANGED <<printers, store, ws, sessions, task, restore>>

---------------------------------------------------------------------------
(* Events of the websockets                                                *)

\* Handler h of the adapter that opened w runs.
Deliver(w, r) ==
  /\ ad' = [ad EXCEPT ![ws[w].owner] = r]
  /\ eventsCached' = Emitted({ws[w].owner})
  /\ UNCHANGED <<printers, store, sessions, task, restore>>

\* onOpen: the auth message goes out on the adapter's present socket.
WsOpened(w) ==
  LET r == ad[ws[w].owner]
      opened == [ws EXCEPT ![w].readyState = "open"]
  IN
  /\ ws[w].readyState = "connecting"
  /\ Deliver(w, AfterOpened(r))
  /\ ws' = IF r.socket # None /\ opened[r.socket].readyState = "open"
             THEN [opened EXCEPT ![r.socket].auth = r.sessionDto]
             ELSE opened
  /\ left' = left

\* The handshake fails or times out: onError, then onClose.
WsConnectFailed(w) ==
  /\ ws[w].readyState = "connecting"
  /\ Spend("wsFault")
  /\ Deliver(w, AfterClosed(OnError(ad[ws[w].owner])))
  /\ ws' = [ws EXCEPT ![w] = ClosedSocket]

\* A message, which may still arrive while the socket is closing.
WsMessage(w) ==
  /\ ws[w].readyState \in {"open", "closing"}
  /\ Deliver(w, OnMessage(ad[ws[w].owner], FALSE))
  /\ UNCHANGED <<ws, left>>

WsReauthRequired(w) ==
  /\ ws[w].readyState \in {"open", "closing"}
  /\ Spend("reauth")
  /\ Deliver(w, OnMessage(ad[ws[w].owner], TRUE))
  /\ ws' = ws

\* An invalid frame: an error event now, the close event later.
WsFailed(w) ==
  /\ ws[w].readyState = "open"
  /\ Spend("wsError")
  /\ Deliver(w, OnError(ad[ws[w].owner]))
  /\ ws' = [ws EXCEPT ![w].readyState = "closing"]

\* The close event: the server closed the connection, or the closing handshake
\* ended.
WsClosed(w) ==
  /\ \/ ws[w].readyState = "open" /\ Spend("wsFault")
     \/ ws[w].readyState = "closing" /\ left' = left
  /\ Deliver(w, AfterClosed(ad[ws[w].owner]))
  /\ ws' = [ws EXCEPT ![w] = ClosedSocket]

---------------------------------------------------------------------------

UserStep == \E p \in Printers :
  \/ \E a \in Adapters : PrinterCreated(p, a)
  \/ \E l \in {printers[p].login, printers[p].login + 1} : PrinterUpdated(p, l)
  \/ PrinterDisabled(p)
  \/ PrintersDeleted(p)
  \/ RefreshPrinterSocket(p)

TaskStep == ReconnectTick \/ RestoreTick \/ RestoreResume

AdapterStep == \E a \in Adapters : RefreshTick(a) \/ RefreshAnswered(a)

WsStep == \E w \in Sockets :
  \/ WsOpened(w) \/ WsConnectFailed(w) \/ WsMessage(w)
  \/ WsReauthRequired(w) \/ WsFailed(w) \/ WsClosed(w)

Next == UserStep \/ TaskStep \/ SessionStep \/ AdapterStep \/ WsStep

Spec == Init /\ [][Next]_vars

\* Requests and handshakes have timeouts and jobs their timers, so each ends or
\* fires; ws reports the end of a closing handshake within 30 s; a connected
\* OctoPrint keeps sending to a socket it has authenticated.  Disturbances, user
\* requests, state refreshes and messages on other sockets need not happen.
Connected(w) == ws[w].readyState = "open" /\ ws[w].auth = ws[w].url
Fairness ==
  /\ WF_vars(ReconnectTick)
  /\ WF_vars(RestoreTick)
  /\ WF_vars(RestoreResume)
  /\ WF_vars(SessionStep)
  /\ \A w \in Sockets :
       /\ WF_vars(WsOpened(w) \/ WsConnectFailed(w))
       /\ WF_vars(ws[w].readyState = "closing" /\ WsClosed(w))
       /\ WF_vars(Connected(w) /\ WsMessage(w))

FairSpec == Spec /\ Fairness

---------------------------------------------------------------------------
(* Safety                                                                  *)

\* An adapter has at most one run of setupSocketSession at a time, purged
\* adapters included: the second loop of reconnectPrinterSockets starts after
\* the first has settled and runs of the task do not overlap, though a session
\* leaves its adapter "unopened" for as long as its login takes.
OneSession == \A s, t \in sessions : s.adapter = t.adapter => s = t

\* Only the adapter in the store may emit for a printer: one that was purged,
\* by deleting or disabling its printer, is silenced for good even though its
\* requests and its closing socket still call it.
OnlyStoredEmits ==
  \A a \in Adapters : ad[a].eventEmittingAllowed =>
    ad[a].printerId \in Printers /\ store[ad[a].printerId] = a

\* "Prevent a deleted socket from entering cache state again": nothing that
\* was pending when a printer was deleted puts it back into the events cache.
DeletedStaysForgotten ==
  \A p \in eventsCached : printers[p].status # "deleted"

\* A printer that was deleted or disabled is heard no more, and a deleted one is forgotten,
\* whatever its adapter had pending.
PurgedIsGone == OnlyStoredEmits /\ DeletedStaysForgotten

\* The socket an adapter refers to is a live one that it opened itself, with
\* the URL of the credentials registered last.
SocketFollowsLogin ==
  \A a \in Adapters : ad[a].socket # None =>
    LET w == ws[ad[a].socket] IN
    w.readyState # "closed" /\ w.owner = a /\ w.url = ad[a].login

\* What the four invariants above rest on: an adapter is in the store only for
\* an enabled printer, a websocket that is not closed belongs to an adapter, and
\* the sessions pending are those the run of the reconnect task waits for.
StoredIsEnabled ==
  \A p \in Printers : store[p] # None => printers[p].status = "enabled"
SocketsOwned ==
  \A w \in Sockets : ws[w].readyState # "closed" => ws[w].owner \in Adapters
SessionsOfRun ==
  \A s \in sessions :
    \/ task = "reauth" /\ s.kind = "reauth"
    \/ task = "open" /\ s.kind = "setup"

IInv == /\ TypeOK
        /\ StoredIsEnabled
        /\ OnlyStoredEmits
        /\ DeletedStaysForgotten
        /\ SocketsOwned
        /\ SocketFollowsLogin
        /\ SessionsOfRun
        /\ OneSession

---------------------------------------------------------------------------
(* Refinement                                                              *)

Rounds == INSTANCE TaskRounds
  WITH phase <- task, pending <- {s.adapter : s \in sessions}

\* The sessions come in the rounds of TaskRounds: Promise.all keeps the two
\* loops of a run apart and preventOverrun the runs, whatever else happens to the
\* adapters meanwhile.
ImplementsRounds == Rounds!Spec

---------------------------------------------------------------------------
(* Liveness                                                                *)

\* Socket states out of which only the tasks lead.
Down == {"unopened", "closed", "aborted", "error"}

\* The tasks pick up every adapter that is not connected: no adapter stays in
\* the store for ever without some time being authenticating or authenticated.
TasksPickUp == \A a \in Adapters :
  []<>(a \notin Stored \/ ad[a].socketState \notin Down)

\* A reauthRequired message is acted on.
ReauthServed == \A a \in Adapters :
  ad[a].reauthRequired ~> a \notin Stored \/ ~ad[a].reauthRequired

Online(p) == store[p] # None /\ ad[store[p]].socketState = "authenticated"
             /\ \E w \in Sockets : Connected(w) /\ ws[w].owner = store[p]

\* A printer that stays enabled is connected again after any failure.
Recovers == \A p \in Printers : []<>(store[p] = None \/ Online(p))

---------------------------------------------------------------------------
(* What comments and errors of the code say and the code does not do       *)

\* "Reset the socket credentials before (re-)connecting": a socket to the URL of
\* a login is authenticated with a session that login obtained.
AuthMatchesUrl == \A w \in Sockets : ws[w].auth \in {None, ws[w].url}

=============================================================================
