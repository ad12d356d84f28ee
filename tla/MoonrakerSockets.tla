-------------------------- MODULE MoonrakerSockets --------------------------
(***************************************************************************)
(* Moonraker printers in printer-socket.store.ts, the run of the reconnect *)
(* task over them, what reaches printer-events.cache.ts, and the tests of  *)
(* a connection in test-printer-socket.store.ts, with Klipper starting and *)
(* stopping behind Moonraker. An action is everything that runs between    *)
(* two waits for the network or a timer.                                   *)
(***************************************************************************)
EXTENDS MoonrakerAdapter, Bags, FiniteSets

CONSTANTS Clients  \* [disturbances: which happen, any of "httpFault", "wsFault",
                   \*  "klippy", "reset", "disable", "delete"; budget: how many of
                   \*  them, a bound; printers, tests: the ids in use]

ASSUME ClientsAreValid == \A m \in Clients :
  m.budget \in Nat /\ m.printers \subseteq Printers /\ m.tests \subseteq Tests

VARIABLES
  mode,      \* the client
  printers,  \* the printers of the printer cache
  store,     \* printerSocketAdaptersById
  ad,        \* the adapter objects
  ws,        \* the websocket objects
  klippy,    \* whether Klipper runs on the host
  calls,     \* the awaited HTTP requests of adapters, a bag of Call
  task,      \* whether a run of the reconnect task is going on
  cache,     \* the "current" event of printerEventsCache by id
  testSocket, \* testSocket of the test store
  tests,     \* the calls of setupTestPrinter
  left,      \* how many disturbances may still happen
  reset      \* printers refreshed or updated while connected

vars == <<mode, printers, store, ad, ws, klippy, calls, task, cache,
          testSocket, tests, left, reset>>

\* by: who called setupSocketSession, or "interval" for the 15 s refresh and
\* "subscribe" for afterOpened; seen: what Klipper was since the request was sent.
Callers == {"task", "event", "test", "interval", "subscribe"}
Call == [adapter : Adapters, by : Callers, pc : {"version", "objects"}, seen : SUBSET Klippy]

\* alone: no other test ran at the same time.
Test == [pc : {"new", "setup", "polling", "waiting", "ended"},
         listener : BOOLEAN, alone : BOOLEAN]

Init ==
  /\ mode \in Clients
  /\ printers = [p \in Printers |-> "new"]
  /\ store = [p \in Printers |-> None]
  /\ ad = [a \in Adapters |-> NewAdapter]
  /\ ws = [w \in Sockets |-> ClosedSocket]
  /\ klippy = "ready"
  /\ calls = EmptyBag
  /\ task = "idle"
  /\ cache = [id \in Ids |-> None]
  /\ testSocket = None
  /\ tests = [t \in Tests |-> [pc |-> "new", listener |-> FALSE, alone |-> TRUE]]
  /\ left = mode.budget
  /\ reset = {}

Spend(d) == d \in mode.disturbances /\ left > 0 /\ left' = left - 1

IsConnecting(a) == ad[a].socket # None /\ ws[ad[a].socket].readyState = "connecting"

\* The websockets once adapter a has called close().
SocketsShut(a) == [w \in Sockets |-> IF ad[a].socket = w THEN Shut(ws[w]) ELSE ws[w]]

SetEvent(id, payload) == [cache EXCEPT ![id] = payload]

\* By refreshPrinterSocket, or when printers and tests are deleted.
DeleteKeyValue(id) == [cache EXCEPT ![id] = None]

\* emitCurrentEvent of an adapter that is r now.
EmitCurrent(r) == IF r.eventEmittingAllowed THEN SetEvent(r.printerId, r.status) ELSE cache

NewCall(a, by, pc) ==
  SetToBag({[adapter |-> a, by |-> by, pc |-> pc,
             seen |-> IF pc = "objects" THEN {klippy} ELSE {}]})

FreshAdapter == {a \in Adapters : ad[a].printerId = None}

---------------------------------------------------------------------------
(* Printer events and requests of the user                                 *)

\* createOrUpdateSocket without an adapter.
PrinterCreated(p) ==
  /\ p \in mode.printers /\ printers[p] \in {"new", "disabled"}
  /\ FreshAdapter # {}
  /\ LET a == CHOOSE b \in FreshAdapter : TRUE
     IN  /\ store' = [store EXCEPT ![p] = a]
         /\ ad' = [ad EXCEPT ![a] = ResetSocketState(RegisterCredentials(NewAdapter, p))]
  /\ printers' = [printers EXCEPT ![p] = "enabled"]
  /\ UNCHANGED <<mode, ws, klippy, calls, task, cache, testSocket, tests, left, reset>>

\* createOrUpdateSocket with an adapter, or reconnectOctoPrint, after which the
\* controller deletes the entry of the events cache.
SocketReset(p) ==
  LET a == store[p] IN
  /\ a # None
  /\ Spend("reset")
  /\ ad' = [ad EXCEPT ![a] = Close(ResetSocketState(@), IsConnecting(a))]
  /\ ws' = SocketsShut(a)
  /\ cache' \in {cache, DeleteKeyValue(p)}
  /\ reset' = IF \E w \in Sockets : ws[w].owner = a THEN reset \cup {p} ELSE reset
  /\ UNCHANGED <<mode, printers, store, klippy, calls, task, testSocket, tests>>

\* deleteSocket
DeleteSocket(p) ==
  /\ store' = [store EXCEPT ![p] = None]
  /\ IF store[p] = None THEN UNCHANGED <<ad, ws>>
     ELSE /\ ad' = [ad EXCEPT ![store[p]] = Purge(@, IsConnecting(store[p]))]
          /\ ws' = SocketsShut(store[p])

PrinterDisabled(p) ==
  /\ printers[p] = "enabled"
  /\ Spend("disable")
  /\ printers' = [printers EXCEPT ![p] = "disabled"]
  /\ DeleteSocket(p)
  /\ UNCHANGED <<mode, klippy, calls, task, cache, testSocket, tests, reset>>

PrintersDeleted(p) ==
  /\ printers[p] \in {"enabled", "disabled"}
  /\ Spend("delete")
  /\ printers' = [printers EXCEPT ![p] = "deleted"]
  /\ DeleteSocket(p)
  /\ cache' = DeleteKeyValue(p)
  /\ UNCHANGED <<mode, klippy, calls, task, testSocket, tests, reset>>

---------------------------------------------------------------------------
(* setupSocketSession and the other requests of an adapter                 *)

\* A tick of reconnectPrinterSockets while no run is going on.
ReconnectTick ==
  LET down == {a \in Adapters : \E p \in Printers : store[p] = a /\ NeedsSetup(ad[a])} IN
  /\ task = "idle" /\ down # {}
  /\ calls' = calls (+) SetToBag({[adapter |-> a, by |-> "task", pc |-> "version",
                                   seen |-> {}] : a \in down})
  /\ task' = "open"
  /\ UNCHANGED <<mode, printers, store, ad, ws, klippy, cache, testSocket, tests, left, reset>>

Without(s) == calls (-) SetToBag({s})

\* A call of setupSocketSession has settled: a run of the task ends with its last.
Settled(s) ==
  /\ calls' = Without(s)
  /\ task' = IF \E c \in BagToSet(Without(s)) : c.by = "task" THEN task ELSE "idle"

\* open() of adapter a, which is r now: throws when there is a socket.
Open(a, r) ==
  IF r.socket # None THEN ad' = [ad EXCEPT ![a] = r] /\ ws' = ws
  ELSE \E w \in Sockets :
         /\ ws[w] = ClosedSocket
         /\ w = CHOOSE v \in Sockets : ws[v] = ClosedSocket
         /\ ad' = [ad EXCEPT ![a] = [r EXCEPT !.socket = w]]
         /\ ws' = [ws EXCEPT ![w] = Connecting(a)]

TestOf(a) == CHOOSE t \in Tests : ad[a].printerId = t

\* MUTANT of Finally: the listeners are left.
FinallyKeepingListeners(t) ==
  IF testSocket = None
  THEN tests' = [tests EXCEPT ![t].pc = "ended"] /\ UNCHANGED <<ad, ws, cache, testSocket>>
  ELSE /\ tests' = [tests EXCEPT ![t].pc = "ended"]
       /\ ad' = [ad EXCEPT ![testSocket] = Purge(@, IsConnecting(testSocket))]
       /\ ws' = SocketsShut(testSocket)
       /\ cache' = DeleteKeyValue(t)
       /\ testSocket' = None

\* The finally block of setupTestPrinter acts on the present testSocket, whoever
\* created it, and throws at its first line when there is none.
Finally(t) ==
  IF testSocket = None
  THEN tests' = [tests EXCEPT ![t].pc = "ended"] /\ UNCHANGED <<ad, ws, cache, testSocket>>
  ELSE /\ tests' = [tests EXCEPT ![t].pc = "ended", ![t].listener = FALSE]
       /\ ad' = [ad EXCEPT ![testSocket] = Purge(@, IsConnecting(testSocket))]
       /\ ws' = SocketsShut(testSocket)
       /\ cache' = DeleteKeyValue(t)
       /\ testSocket' = None

\* setupSocketSession or the refresh rejects or ends without an answer.
Rejected(s) ==
  /\ Spend("httpFault")
  /\ Settled(s)
  /\ IF s.by = "test" THEN Finally(TestOf(s.adapter))
     ELSE UNCHANGED <<ad, ws, cache, testSocket, tests>>
  /\ UNCHANGED <<mode, printers, store, klippy, reset>>

\* getApiVersion, whose failure rejects setupSocketSession.
VersionAnswered(s) ==
  /\ s.pc = "version"
  /\ \/ Rejected(s)
     \/ /\ calls' = Without(s) (+) NewCall(s.adapter, s.by, "objects")
        /\ UNCHANGED <<mode, printers, store, ad, ws, klippy, task, cache, testSocket,
                       tests, left, reset>>

\* The continuation of a set-up that has its objects: the adapter is r now. The
\* test opens the present testSocket; without one, or when that has a websocket,
\* its promise never settles.
Continue(s, r) ==
  CASE s.by = "task" -> Open(s.adapter, r) /\ UNCHANGED <<testSocket, tests>>
    [] s.by = "test" ->
         LET t == TestOf(s.adapter)
             b == testSocket
             now == [ad EXCEPT ![s.adapter] = r]
             opens == b # None /\ now[b].socket = None
         IN  /\ tests' = [tests EXCEPT ![t].pc = IF opens THEN "polling" ELSE "waiting"]
             /\ IF opens
                THEN \E w \in Sockets :
                       /\ ws[w] = ClosedSocket
                       /\ w = CHOOSE v \in Sockets : ws[v] = ClosedSocket
                       /\ ad' = [now EXCEPT ![b].socket = w]
                       /\ ws' = [ws EXCEPT ![w] = Connecting(b)]
                ELSE ad' = now /\ ws' = ws
             /\ testSocket' = testSocket
    [] OTHER -> ad' = [ad EXCEPT ![s.adapter] = r] /\ UNCHANGED <<ws, testSocket, tests>>

\* updateCurrentStateSafely, which never rejects, and the rest of its caller.
ObjectsAnswered(s) ==
  /\ s.pc = "objects" /\ s.by # "subscribe"
  /\ \E answer \in s.seen \cup {"failed"} :
       LET r == IF answer = "failed" THEN ad[s.adapter] ELSE Shown(ad[s.adapter], answer) IN
       /\ IF answer = "failed" THEN Spend("httpFault") /\ cache' = cache
          ELSE left' = left /\ cache' = EmitCurrent(r)
       /\ Continue(s, IF s.by = "interval" THEN r ELSE ArmInterval(r))
  /\ Settled(s)
  /\ UNCHANGED <<mode, printers, store, klippy, reset>>

\* postSubscribePrinterObjects of afterOpened: a 503 is not shown.
SubscribeAnswered(s) ==
  /\ s.by = "subscribe"
  /\ calls' = Without(s)
  /\ IF "ready" \in s.seen
     THEN /\ ad' = [ad EXCEPT ![s.adapter] = Shown(@, "ready")]
          /\ cache' = EmitCurrent(ad'[s.adapter])
     ELSE UNCHANGED <<ad, cache>>
  /\ UNCHANGED <<mode, printers, store, ws, klippy, task, testSocket, tests, left, reset>>

SubscribeFailed(s) ==
  /\ s.by = "subscribe"
  /\ "down" \in s.seen \/ "ready" \in s.seen
  /\ IF "down" \in s.seen THEN left' = left ELSE Spend("httpFault")
  /\ calls' = Without(s)
  /\ UNCHANGED <<mode, printers, store, ad, ws, klippy, task, cache, testSocket, tests, reset>>

\* The 15 s interval: a request takes less than that.
RefreshTick(a) ==
  /\ ad[a].refreshPrinterObjectsInterval
  /\ ~\E c \in BagToSet(calls) : c.adapter = a /\ c.by = "interval"
  /\ calls' = calls (+) NewCall(a, "interval", "objects")
  /\ UNCHANGED <<mode, printers, store, ad, ws, klippy, task, cache, testSocket, tests, left, reset>>

---------------------------------------------------------------------------
(* Klipper and the websockets                                              *)

\* A request for the objects on its way has seen Klipper both ways then.
Overtaken(c) == IF c.pc = "objects" THEN [c EXCEPT !.seen = Klippy] ELSE c

Copies(c) == IF c \in BagToSet(calls) THEN calls[c] ELSE 0

\* Klipper stops or starts; Moonraker has news for each of its connections.
KlippyChanges ==
  /\ Spend("klippy")
  /\ klippy' = IF klippy = "ready" THEN "down" ELSE "ready"
  /\ ws' = [w \in Sockets |-> IF Delivers(ws[w]) THEN [ws[w] EXCEPT !.news = @ + 1] ELSE ws[w]]
  /\ calls' = [c \in {Overtaken(d) : d \in BagToSet(calls)} |->
                 Copies(c) + IF c.pc = "objects" THEN Copies([c EXCEPT !.seen = {klippy}]) ELSE 0]
  /\ UNCHANGED <<mode, printers, store, ad, task, cache, testSocket, tests, reset>>

\* A handler of the adapter that opened w runs and leaves it as r.
Handled(w, r) ==
  /\ ad' = [ad EXCEPT ![ws[w].owner] = r]
  /\ UNCHANGED <<mode, printers, store, klippy, task, testSocket, tests, reset>>

WsOpened(w) ==
  LET r == ad[ws[w].owner]
      opened == [ws EXCEPT ![w].readyState = "open"]
      sendable == r.socket # None /\ opened[r.socket].readyState = "open"
  IN  /\ ws[w].readyState = "connecting"
      /\ Handled(w, Identify(r, sendable))
      /\ ws' = IF sendable THEN [opened EXCEPT ![r.socket].identify = "asked"] ELSE opened
      /\ UNCHANGED <<calls, cache, left>>

\* onMessage of the response with id 1: resolves the present entry, if there is one.
IdentifyAnswered(w) ==
  LET a == ws[w].owner IN
  /\ Delivers(ws[w]) /\ ws[w].identify = "asked"
  /\ ws' = [ws EXCEPT ![w].identify = "answered"]
  /\ calls' = IF ad[a].request = None THEN calls
              ELSE calls (+) NewCall(a, "subscribe", "objects")
  /\ Handled(w, Resolved(ad[a]))
  /\ UNCHANGED <<cache, left>>

\* The 3 s timeout of sendRequest; the oldest fires first.
RequestTimeout(a) ==
  /\ ad[a].request # None \/ ad[a].overwritten > 0
  /\ ad' = [ad EXCEPT ![a] = TimedOut(@)]
  /\ UNCHANGED <<mode, printers, store, ws, klippy, calls, task, cache, testSocket, tests,
                 left, reset>>

\* notify_klippy_ready, _disconnected, _shutdown or notify_service_state_changed: the
\* session is set up again, whether or not a set-up is under way.
WsKlippyNews(w) ==
  /\ Delivers(ws[w]) /\ ws[w].news > 0
  /\ ws' = [ws EXCEPT ![w].news = @ - 1]
  /\ calls' = calls (+) NewCall(ws[w].owner, "event", "version")
  /\ Handled(w, OnEventMessage(ad[ws[w].owner]))
  /\ UNCHANGED <<cache, left>>

\* notify_status_update, sent to a subscribed connection, merged into objects that
\* are known; it throws before there are any and is dropped when they are empty.
WsStatusUpdate(w) ==
  LET r == OnEventMessage(ad[ws[w].owner]) IN
  /\ Delivers(ws[w]) /\ ws[w].identify = "answered"
  /\ Handled(w, r)
  /\ cache' = IF r.status = "ready" THEN EmitCurrent(r) ELSE cache
  /\ UNCHANGED <<ws, calls, left>>

\* Any other event.
WsOtherEvent(w) ==
  /\ Delivers(ws[w])
  /\ Handled(w, OnEventMessage(ad[ws[w].owner]))
  /\ UNCHANGED <<ws, calls, cache, left>>

\* The handshake fails or times out: onError, then onClose.
WsConnectFailed(w) ==
  /\ ws[w].readyState = "connecting"
  /\ Spend("wsFault")
  /\ Handled(w, AfterClosed(OnError(ad[ws[w].owner])))
  /\ ws' = [ws EXCEPT ![w] = ClosedSocket]
  /\ UNCHANGED <<calls, cache>>

\* An invalid frame: an error event now, the close event later.
WsFailed(w) ==
  /\ ws[w].readyState = "open"
  /\ Spend("wsFault")
  /\ Handled(w, OnError(ad[ws[w].owner]))
  /\ ws' = [ws EXCEPT ![w].readyState = "closing"]
  /\ UNCHANGED <<calls, cache>>

\* The server closed the connection, or the closing handshake ended.
WsClosed(w) ==
  /\ \/ ws[w].readyState = "open" /\ Spend("wsFault")
     \/ ws[w].readyState = "closing" /\ left' = left
  /\ Handled(w, AfterClosed(ad[ws[w].owner]))
  /\ ws' = [ws EXCEPT ![w] = ClosedSocket]
  /\ UNCHANGED <<calls, cache>>

---------------------------------------------------------------------------
(* Tests of a connection                                                   *)

Running == {t \in Tests : tests[t].pc \notin {"new", "ended"}}

\* setupTestPrinter up to the first request: the test before is closed.
TestStarted(t) ==
  /\ t \in mode.tests /\ tests[t].pc = "new" /\ FreshAdapter # {}
  /\ LET a == CHOOSE b \in FreshAdapter : TRUE
         closed == IF testSocket = None THEN ad
                   ELSE [ad EXCEPT ![testSocket] = Close(@, IsConnecting(testSocket))]
     IN  /\ ad' = [closed EXCEPT ![a] = RegisterCredentials(NewAdapter, t)]
         /\ ws' = IF testSocket = None THEN ws ELSE SocketsShut(testSocket)
         /\ testSocket' = a
         /\ calls' = calls (+) NewCall(a, "test", "version")
  /\ tests' = [u \in Tests |->
       CASE u = t -> [pc |-> "setup", listener |-> TRUE, alone |-> Running = {}]
         [] u \in Running -> [tests[u] EXCEPT !.alone = FALSE]
         [] OTHER -> tests[u]]
  /\ UNCHANGED <<mode, printers, store, klippy, task, cache, left, reset>>

\* The poll every 100 ms: authenticated, or no test socket any more.
TestPolled(t) ==
  /\ tests[t].pc = "polling"
  /\ testSocket # None => ad[testSocket].socketState = "authenticated"
  /\ Finally(t)
  /\ UNCHANGED <<mode, printers, store, klippy, calls, task, left, reset>>

\* The handshake timeout.
TestTimeout(t) ==
  /\ tests[t].pc \in {"polling", "waiting"}
  /\ Finally(t)
  /\ UNCHANGED <<mode, printers, store, klippy, calls, task, left, reset>>

---------------------------------------------------------------------------

UserStep == \E p \in Printers :
  PrinterCreated(p) \/ SocketReset(p) \/ PrinterDisabled(p) \/ PrintersDeleted(p)

Answered(s) ==
  VersionAnswered(s) \/ ObjectsAnswered(s) \/ SubscribeAnswered(s) \/ SubscribeFailed(s)

AdapterStep == \E a \in Adapters : RefreshTick(a) \/ RequestTimeout(a)

WsStep == \E w \in Sockets :
  \/ WsOpened(w) \/ IdentifyAnswered(w) \/ WsKlippyNews(w) \/ WsStatusUpdate(w)
  \/ WsOtherEvent(w) \/ WsConnectFailed(w) \/ WsFailed(w) \/ WsClosed(w)

TestStep == \E t \in Tests : TestStarted(t) \/ TestPolled(t) \/ TestTimeout(t)

Next ==
  \/ UserStep \/ ReconnectTick
  \/ \E s \in BagToSet(calls) : Answered(s)
  \/ AdapterStep \/ KlippyChanges \/ WsStep \/ TestStep

Spec == Init /\ [][Next]_vars

\* HTTP requests time out, the jobs and the interval fire and handshakes end.
Fairness ==
  /\ WF_vars(ReconnectTick)
  /\ \A a \in Adapters :
       /\ WF_vars(RefreshTick(a))
       /\ \A by \in {"task", "event", "interval"} :
            WF_vars(\E s \in BagToSet(calls) : s.adapter = a /\ s.by = by /\ Answered(s))
  /\ \A w \in Sockets :
       /\ WF_vars(WsOpened(w) \/ WsConnectFailed(w))
       /\ WF_vars(ws[w].readyState = "closing" /\ WsClosed(w))

FairSpec == Spec /\ Fairness

---------------------------------------------------------------------------
(* Properties                                                              *)

\* The fields of moonraker-websocket.adapter.ts and of both stores have the
\* values the code gives them.
TypeOK ==
  /\ mode \in Clients
  /\ printers \in [Printers -> {"new", "disabled", "enabled", "deleted"}]
  /\ store \in [Printers -> Adapters \cup {None}]
  /\ ad \in [Adapters -> Adapter]
  /\ ws \in [Sockets -> Websocket]
  /\ klippy \in Klippy
  /\ BagToSet(calls) \subseteq Call
  /\ task \in {"idle", "open"}
  /\ cache \in [Ids -> Klippy \cup {None}]
  /\ testSocket \in Adapters \cup {None}
  /\ tests \in [Tests -> Test]
  /\ left \in Nat /\ reset \subseteq Printers

\* An adapter that says it is authenticated has a websocket that can still bring
\* it messages, whichever of its sockets spoke or closed last: the interface
\* never shows a live connection (socketState) where there is none.
AuthenticatedIsLive ==
  \A a \in Adapters : ad[a].socketState = "authenticated" =>
    \E w \in Sockets : ws[w].owner = a /\ Delivers(ws[w])

\* "Prevent a deleted socket from entering cache state again": no set-up, refresh,
\* subscription or message that was on its way when a printer was deleted or
\* replaced brings its state back into the events cache.
PurgedIsSilent == \A p \in Printers : printers[p] = "deleted" => cache[p] = None

\* A test that ran alone leaves no listener, no open websocket and no state in the
\* events cache, however it ended: by its first event, a failure or its timeout.
TestCleansUp == \A t \in Tests : tests[t].pc = "ended" /\ tests[t].alone =>
  /\ ~tests[t].listener
  /\ cache[t] = None
  /\ \A w \in Sockets :
       ws[w].readyState \in {"connecting", "open"} => ad[ws[w].owner].printerId # t

\* Once nothing disturbs it any more, the events cache shows whether Klipper runs on
\* each printer: set-ups answered out of order, lost events and a dead websocket
\* are made good by the interval, unless the user refreshed or updated the printer
\* while it was connected, after which nothing may ever set it up again.
ShowsPrinter == \A p \in Printers :
  []<>(store[p] = None \/ p \in reset \/ cache[p] = klippy)
=============================================================================
