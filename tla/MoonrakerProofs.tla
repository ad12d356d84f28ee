--------------------------- MODULE MoonrakerProofs ---------------------------
(***************************************************************************)
(* Proofs about MoonrakerSockets, for any printers, tests, adapters and    *)
(* websockets. What a step does to adapters and websockets is shown once   *)
(* per action; the invariants follow from these few kinds of changes.      *)
(***************************************************************************)
EXTENDS MoonrakerSockets, TLAPS

---------------------------------------------------------------------------
(* The values of the state                                                 *)

\* The requests that are awaited are a bag; one for the objects has seen what
\* Klipper is now.
CallsOK ==
  /\ IsABag(calls) /\ BagToSet(calls) \subseteq Call
  /\ \A c \in BagToSet(calls) : c.pc = "objects" => c.seen = {klippy} \/ c.seen = Klippy

\* A websocket that is not closed has the adapter that opened it.
SocketsOwned == \A w \in Sockets :
  IF ws[w].readyState = "closed" THEN ws[w] = ClosedSocket ELSE ws[w].owner \in Adapters

Shape == TypeOK /\ CallsOK /\ SocketsOwned

Up == {"connecting", "open"}

---------------------------------------------------------------------------
(* Where tests, adapters and websockets stand                              *)

\* An adapter of a printer that may still emit events is the printer's adapter, and
\* only an enabled printer has one.
Silenced ==
  /\ \A p \in Printers, a \in Adapters :
       ad[a].printerId = p /\ ad[a].eventEmittingAllowed => store[p] = a
  /\ \A p \in Printers : store[p] # None =>
       printers[p] = "enabled" /\ ad[store[p]].printerId = p

\* Websockets are of adapters in use; what the reconnect task asks is for printers,
\* what a test asks and the test socket are for tests.
Owned ==
  /\ \A w \in Sockets : ws[w].owner # None => ad[ws[w].owner].printerId # None
  /\ testSocket # None => ad[testSocket].printerId \in Tests
  /\ \A c \in BagToSet(calls) :
       /\ c.by = "task" => ad[c.adapter].printerId \in Printers
       /\ c.by = "test" => ad[c.adapter].printerId \in Tests

\* A test has one adapter, from its start on.
TestsOwn ==
  /\ \A a \in Adapters : ad[a].printerId \in Tests => tests[ad[a].printerId].pc # "new"
  /\ \A a, b \in Adapters :
       ad[a].printerId \in Tests /\ ad[a].printerId = ad[b].printerId => a = b

\* A test sends one request at a time, while it sets up.
Once == \A c \in BagToSet(calls) : c.by = "test" =>
  /\ calls[c] = 1
  /\ \A d \in BagToSet(calls) : d.by = "test" /\ d.adapter = c.adapter => d = c

Asking == \A c \in BagToSet(calls) : c.by = "test" =>
  tests[ad[c.adapter].printerId].pc = "setup"

\* A test that runs alone has the test socket, which opens one websocket.
Alone == \A t \in Running : tests[t].alone =>
  /\ Running = {t} /\ testSocket # None /\ ad[testSocket].printerId = t
  /\ \A w \in Sockets : ws[w].owner = testSocket =>
       /\ tests[t].pc # "setup"
       /\ ws[w].readyState \in Up => ad[testSocket].socket = w
       /\ \A v \in Sockets : ws[v].owner = testSocket => v = w
  /\ tests[t].pc = "setup" => ad[testSocket].socket = None

\* One that ended alone has left nothing that could speak.
Over(t) == tests[t].pc = "ended" /\ tests[t].alone

Gone == \A t \in Tests : Over(t) =>
  /\ ~tests[t].listener /\ cache[t] = None
  /\ testSocket # None => ad[testSocket].printerId # t
  /\ \A a \in Adapters : ad[a].printerId = t => ~ad[a].eventEmittingAllowed
  /\ \A w \in Sockets : ws[w].readyState \in Up => ad[ws[w].owner].printerId # t

---------------------------------------------------------------------------
(* Bags of requests                                                        *)

LEMMA WithoutFacts ==
  ASSUME CallsOK, NEW s
  PROVE  /\ IsABag(Without(s)) /\ BagToSet(Without(s)) \subseteq BagToSet(calls)
         /\ \A c \in BagToSet(Without(s)) : c # s => Without(s)[c] = calls[c]
         /\ s \in BagToSet(Without(s)) => Without(s)[s] = calls[s] - 1
         /\ calls[s] = 1 => s \notin BagToSet(Without(s))
  BY DEF CallsOK, Without, IsABag, BagToSet, SetToBag, (-)

\* What a request adds to those that are awaited.
LEMMA AddedFacts ==
  ASSUME NEW B, IsABag(B), NEW S
  PROVE  /\ IsABag(B (+) SetToBag(S))
         /\ BagToSet(B (+) SetToBag(S)) = BagToSet(B) \cup S
         /\ \A c \in BagToSet(B) \ S : (B (+) SetToBag(S))[c] = B[c]
         /\ \A c \in S \ BagToSet(B) : (B (+) SetToBag(S))[c] = 1
  BY DEF IsABag, BagToSet, SetToBag, (+)

---------------------------------------------------------------------------
(* Steps keep the shape of the state                                       *)

\* Adapters are records of the type whatever an operation does to them.
LEMMA AdapterOps ==
  ASSUME NEW r \in Adapter, NEW c \in BOOLEAN
  PROVE  /\ Close(r, c) \in Adapter /\ Purge(r, c) \in Adapter
         /\ ResetSocketState(r) \in Adapter /\ ArmInterval(r) \in Adapter
         /\ \A k \in Klippy : Shown(r, k) \in Adapter
         /\ \A b \in BOOLEAN : Identify(r, b) \in Adapter
         /\ Resolved(r) \in Adapter /\ TimedOut(r) \in Adapter
         /\ OnEventMessage(r) \in Adapter /\ OnError(r) \in Adapter
         /\ AfterClosed(r) \in Adapter
         /\ \A w \in Sockets : [r EXCEPT !.socket = w] \in Adapter
  <1> USE DEF Adapter, SocketState
  <1>1. Close(r, c) \in Adapter /\ Purge(r, c) \in Adapter BY DEF Close, Purge
  <1>2. ResetSocketState(r) \in Adapter /\ ArmInterval(r) \in Adapter
    BY DEF ResetSocketState, ArmInterval, SetSocketState
  <1>3. \A k \in Klippy : Shown(r, k) \in Adapter BY DEF Shown
  <1> DEFINE more == IF r.request = None THEN r.overwritten ELSE r.overwritten + 1
             less == IF r.overwritten > 0 THEN r.overwritten - 1 ELSE r.overwritten
  <1>n. r.overwritten \in Nat OBVIOUS
  <1>m. more \in Nat /\ less \in Nat BY <1>n
  <1>4. ASSUME NEW b \in BOOLEAN
        PROVE  Identify(r, b) \in Adapter
    <2>1. Identify(r, b) = [r EXCEPT !.socketState = "opened", !.overwritten = more,
                                     !.request = IF b THEN r.socket ELSE "unsent"]
      BY DEF Identify
    <2> QED BY ONLY <2>1, <1>m, r \in Adapter DEF Adapter, SocketState
  <1>5. Resolved(r) \in Adapter /\ TimedOut(r) \in Adapter
    <2>1. TimedOut(r) = [r EXCEPT !.request = None, !.overwritten = less] BY DEF TimedOut
    <2>2. TimedOut(r) \in Adapter BY ONLY <2>1, <1>m, r \in Adapter DEF Adapter
    <2> QED BY <2>2 DEF Resolved
  <1>6. OnEventMessage(r) \in Adapter /\ OnError(r) \in Adapter /\ AfterClosed(r) \in Adapter
    BY DEF OnEventMessage, OnError, AfterClosed, SetSocketState
  <1>7. \A w \in Sockets : [r EXCEPT !.socket = w] \in Adapter OBVIOUS
  <1> QED BY ONLY <1>1, <1>2, <1>3, <1>4, <1>5, <1>6, <1>7

LEMMA NewAdapterOps ==
  /\ NewAdapter \in Adapter
  /\ \A id \in Ids : /\ RegisterCredentials(NewAdapter, id) \in Adapter
                     /\ ResetSocketState(RegisterCredentials(NewAdapter, id)) \in Adapter
  BY DEF Adapter, NewAdapter, RegisterCredentials, ResetSocketState, SetSocketState, SocketState

LEMMA WebsocketOps ==
  ASSUME NEW x \in Websocket
  PROVE  /\ ClosedSocket \in Websocket /\ Shut(x) \in Websocket
         /\ \A a \in Adapters : Connecting(a) \in Websocket
  BY DEF Websocket, ClosedSocket, Shut, Connecting

\* close() on an adapter shuts its websocket; the others stay.
LEMMA ShutShaped ==
  ASSUME Shape, NEW a \in Adapters
  PROVE  /\ SocketsShut(a) \in [Sockets -> Websocket]
         /\ \A w \in Sockets :
              IF SocketsShut(a)[w].readyState = "closed" THEN SocketsShut(a)[w] = ClosedSocket
              ELSE SocketsShut(a)[w].owner \in Adapters
  <1>1. \A w \in Sockets : SocketsShut(a)[w] \in {ws[w], Shut(ws[w])} BY DEF SocketsShut
  <1>2. SocketsShut(a) \in [Sockets -> Websocket]
    BY WebsocketOps DEF SocketsShut, Shape, TypeOK
  <1>3. ASSUME NEW w \in Sockets
        PROVE  IF Shut(ws[w]).readyState = "closed" THEN Shut(ws[w]) = ClosedSocket
               ELSE Shut(ws[w]).owner \in Adapters
    <2>1. ws[w] \in Websocket BY DEF Shape, TypeOK
    <2>2. CASE ws[w].readyState = "connecting" BY <2>2 DEF Shut, ClosedSocket
    <2>3. CASE ws[w].readyState = "open"
      BY <2>1, <2>3 DEF Shut, Websocket, Shape, SocketsOwned
    <2>4. CASE ws[w].readyState \notin {"connecting", "open"}
      BY <2>4 DEF Shut, Shape, SocketsOwned
    <2> QED BY <2>2, <2>3, <2>4
  <1> QED BY <1>1, <1>2, <1>3 DEF Shape, SocketsOwned

\* The parts of Shape that a step can disturb one by one.
AdaptersOK == ad \in [Adapters -> Adapter]

SocketsOK == ws \in [Sockets -> Websocket] /\ SocketsOwned

PlainOK ==
  /\ mode \in Clients
  /\ printers \in [Printers -> {"new", "disabled", "enabled", "deleted"}]
  /\ store \in [Printers -> Adapters \cup {None}]
  /\ klippy \in Klippy
  /\ task \in {"idle", "open"}
  /\ testSocket \in Adapters \cup {None}
  /\ tests \in [Tests -> Test]
  /\ left \in Nat /\ reset \subseteq Printers

CacheOK == cache \in [Ids -> Klippy \cup {None}]

LEMMA ShapeParts == Shape <=> AdaptersOK /\ SocketsOK /\ PlainOK /\ CacheOK /\ CallsOK
  BY DEF Shape, AdaptersOK, SocketsOK, PlainOK, CacheOK, CallsOK, TypeOK

LEMMA ShapeNext == AdaptersOK' /\ SocketsOK' /\ PlainOK' /\ CacheOK' /\ CallsOK' => Shape'
  BY DEF Shape, AdaptersOK, SocketsOK, PlainOK, CacheOK, CallsOK, TypeOK

LEMMA LeftLessens ==
  ASSUME PlainOK, NEW d, Spend(d)
  PROVE  left' \in Nat
  BY DEF PlainOK, Spend

LEMMA EmitShaped ==
  ASSUME CacheOK, NEW r \in Adapter
  PROVE  EmitCurrent(r) \in [Ids -> Klippy \cup {None}]
  BY DEF CacheOK, EmitCurrent, SetEvent, Adapter

LEMMA DeletedShaped ==
  ASSUME CacheOK, NEW id
  PROVE  DeleteKeyValue(id) \in [Ids -> Klippy \cup {None}]
  BY DEF CacheOK, DeleteKeyValue

LEMMA WithoutShaped ==
  ASSUME CallsOK, NEW s, calls' = Without(s), klippy' = klippy
  PROVE  CallsOK'
  BY WithoutFacts DEF CallsOK

\* A request of an adapter that is sent now.
LEMMA NewCallShaped ==
  ASSUME NEW a \in Adapters, NEW by \in Callers, NEW pc \in {"version", "objects"},
         klippy \in Klippy
  PROVE  LET c == [adapter |-> a, by |-> by, pc |-> pc,
                   seen |-> IF pc = "objects" THEN {klippy} ELSE {}]
         IN  c \in Call /\ NewCall(a, by, pc) = SetToBag({c})
  BY DEF Call, NewCall

LEMMA AddedShaped ==
  ASSUME CallsOK, NEW a \in Adapters, NEW by \in Callers, NEW pc \in {"version", "objects"},
         klippy \in Klippy, klippy' = klippy,
         NEW s, calls' = Without(s) (+) NewCall(a, by, pc) \/ calls' = calls (+) NewCall(a, by, pc)
  PROVE  CallsOK'
  <1> DEFINE c == [adapter |-> a, by |-> by, pc |-> pc,
                   seen |-> IF pc = "objects" THEN {klippy} ELSE {}]
  <1>1. c \in Call /\ NewCall(a, by, pc) = SetToBag({c}) /\ (c.pc = "objects" => c.seen = {klippy})
    BY NewCallShaped
  <1> HIDE DEF c
  <1>2. CASE calls' = Without(s) (+) NewCall(a, by, pc)
    <2>1. /\ IsABag(Without(s) (+) SetToBag({c}))
          /\ BagToSet(Without(s) (+) SetToBag({c})) = BagToSet(Without(s)) \cup {c}
      BY WithoutFacts, AddedFacts
    <2> QED BY <2>1, <1>1, <1>2, WithoutFacts DEF CallsOK
  <1>3. CASE calls' = calls (+) NewCall(a, by, pc)
    <2>1. /\ IsABag(calls (+) SetToBag({c}))
          /\ BagToSet(calls (+) SetToBag({c})) = BagToSet(calls) \cup {c}
      BY AddedFacts DEF CallsOK
    <2> QED BY <2>1, <1>1, <1>3 DEF CallsOK
  <1> QED BY <1>2, <1>3

LEMMA UserShaped ==
  ASSUME Shape, NEW p \in Printers,
         PrinterCreated(p) \/ SocketReset(p) \/ PrinterDisabled(p) \/ PrintersDeleted(p)
  PROVE  Shape'
  <1> USE ShapeParts, ShapeNext
  <1>1. CASE PrinterCreated(p)
    <2>1. ASSUME NEW a \in Adapters
          PROVE  ResetSocketState(RegisterCredentials(NewAdapter, p)) \in Adapter
      BY NewAdapterOps DEF Ids
    <2>2. (CHOOSE b \in FreshAdapter : TRUE) \in Adapters
      BY <1>1 DEF PrinterCreated, FreshAdapter
    <2>3. AdaptersOK' /\ PlainOK'
      BY <1>1, <2>1, <2>2 DEF PrinterCreated, AdaptersOK, PlainOK
    <2> QED BY <1>1, <2>3 DEF PrinterCreated, SocketsOK, SocketsOwned, CacheOK, CallsOK
  <1>2. CASE SocketReset(p)
    <2>1. store[p] \in Adapters BY <1>2 DEF SocketReset, PlainOK
    <2>2. IsConnecting(store[p]) \in BOOLEAN BY DEF IsConnecting
    <2>3. Close(ResetSocketState(ad[store[p]]), IsConnecting(store[p])) \in Adapter
      BY <2>1, <2>2, AdapterOps DEF AdaptersOK
    <2>4. AdaptersOK' BY <1>2, <2>1, <2>3 DEF SocketReset, AdaptersOK
    <2>5. SocketsOK' BY <1>2, <2>1, ShutShaped DEF SocketReset, SocketsOK, SocketsOwned
    <2>6. PlainOK' BY <1>2, LeftLessens DEF SocketReset, PlainOK
    <2>7. CacheOK' BY <1>2, DeletedShaped DEF SocketReset, CacheOK
    <2> QED BY <1>2, <2>4, <2>5, <2>6, <2>7 DEF SocketReset, CallsOK
  <1>3. ASSUME DeleteSocket(p)
        PROVE  AdaptersOK' /\ SocketsOK' /\ store' \in [Printers -> Adapters \cup {None}]
    <2>1. CASE store[p] = None
      BY <1>3, <2>1 DEF DeleteSocket, PlainOK, AdaptersOK, SocketsOK, SocketsOwned
    <2>2. CASE store[p] # None
      <3>1. store[p] \in Adapters BY <2>2 DEF PlainOK
      <3>2. IsConnecting(store[p]) \in BOOLEAN BY DEF IsConnecting
      <3>3. Purge(ad[store[p]], IsConnecting(store[p])) \in Adapter
        BY <3>1, <3>2, AdapterOps DEF AdaptersOK
      <3>4. AdaptersOK' BY <1>3, <2>2, <3>1, <3>3 DEF DeleteSocket, AdaptersOK
      <3>5. SocketsOK'
        BY <1>3, <2>2, <3>1, ShutShaped DEF DeleteSocket, SocketsOK, SocketsOwned
      <3> QED BY <1>3, <3>4, <3>5 DEF DeleteSocket, PlainOK
    <2> QED BY <2>1, <2>2
  <1>4. CASE PrinterDisabled(p)
    <2>1. PlainOK' BY <1>3, <1>4, LeftLessens DEF PrinterDisabled, PlainOK
    <2> QED BY <1>3, <1>4, <2>1 DEF PrinterDisabled, CacheOK, CallsOK
  <1>5. CASE PrintersDeleted(p)
    <2>1. PlainOK' BY <1>3, <1>5, LeftLessens DEF PrintersDeleted, PlainOK
    <2>2. CacheOK' BY <1>5, DeletedShaped DEF PrintersDeleted, CacheOK
    <2> QED BY <1>3, <1>5, <2>1, <2>2 DEF PrintersDeleted, CallsOK
  <1> QED BY <1>1, <1>2, <1>4, <1>5

LEMMA SettledShaped ==
  ASSUME CallsOK, PlainOK, NEW s, Settled(s), klippy' = klippy
  PROVE  CallsOK' /\ task' \in {"idle", "open"}
  BY WithoutShaped DEF Settled, PlainOK

LEMMA FinallyShaped ==
  ASSUME Shape, NEW t, Finally(t)
  PROVE  /\ AdaptersOK' /\ SocketsOK' /\ CacheOK' /\ testSocket' \in Adapters \cup {None}
         /\ tests' \in [Tests -> Test]
  <1> USE ShapeParts
  <1>1. tests' \in [Tests -> Test]
    <2>1. \A r \in Test : [r EXCEPT !.pc = "ended"] \in Test
                          /\ [r EXCEPT !.pc = "ended", !.listener = FALSE] \in Test
      BY DEF Test
    <2>2. tests \in [Tests -> Test] BY DEF PlainOK
    <2>3. \/ tests' = [tests EXCEPT ![t] = [tests[t] EXCEPT !.pc = "ended"]]
          \/ tests' = [tests EXCEPT ![t] = [tests[t] EXCEPT !.pc = "ended", !.listener = FALSE]]
      BY <2>2 DEF Finally
    <2> QED BY <2>1, <2>2, <2>3, ZenonT(60)
  <1>2. CASE testSocket = None
    BY <1>1, <1>2 DEF Finally, PlainOK, AdaptersOK, SocketsOK, SocketsOwned, CacheOK
  <1>3. CASE testSocket # None
    <2>1. testSocket \in Adapters BY <1>3 DEF PlainOK
    <2>2. IsConnecting(testSocket) \in BOOLEAN BY DEF IsConnecting
    <2>3. Purge(ad[testSocket], IsConnecting(testSocket)) \in Adapter
      BY <2>1, <2>2, AdapterOps DEF AdaptersOK
    <2>4. AdaptersOK' BY <1>3, <2>1, <2>3 DEF Finally, AdaptersOK
    <2>5. SocketsOK' BY <1>3, <2>1, ShutShaped DEF Finally, SocketsOK, SocketsOwned
    <2>6. CacheOK' BY <1>3, DeletedShaped DEF Finally, CacheOK
    <2> QED BY <1>1, <1>3, <2>4, <2>5, <2>6 DEF Finally
  <1> QED BY <1>2, <1>3

\* A free websocket is opened by adapter b.
LEMMA OpenedShaped ==
  ASSUME Shape, NEW w \in Sockets, NEW b \in Adapters, ws' = [ws EXCEPT ![w] = Connecting(b)]
  PROVE  SocketsOK'
  <1>1. Connecting(b) \in Websocket /\ Connecting(b).owner = b
        /\ Connecting(b).readyState = "connecting"
    BY DEF Connecting, ClosedSocket, Websocket
  <1> QED BY <1>1, ShapeParts DEF SocketsOK, SocketsOwned

LEMMA ContinueShaped ==
  ASSUME Shape, NEW s \in Call, NEW r \in Adapter, Continue(s, r)
  PROVE  /\ AdaptersOK' /\ SocketsOK' /\ testSocket' = testSocket
         /\ tests' \in [Tests -> Test]
  <1> USE ShapeParts
  <1>a. s.adapter \in Adapters /\ s.by \in Callers BY DEF Call
  <1>w. \A x \in Adapter, w \in Sockets : [x EXCEPT !.socket = w] \in Adapter BY AdapterOps
  <1>1. CASE s.by = "task"
    <2>1. Open(s.adapter, r) /\ UNCHANGED <<testSocket, tests>> BY <1>1 DEF Continue
    <2>2. CASE r.socket # None
      BY <1>a, <2>1, <2>2 DEF Open, AdaptersOK, SocketsOK, SocketsOwned, PlainOK
    <2>3. CASE r.socket = None
      <3>1. PICK w \in Sockets : /\ ad' = [ad EXCEPT ![s.adapter] = [r EXCEPT !.socket = w]]
                                 /\ ws' = [ws EXCEPT ![w] = Connecting(s.adapter)]
        BY <2>1, <2>3 DEF Open
      <3>2. AdaptersOK' BY <1>a, <1>w, <3>1 DEF AdaptersOK
      <3> QED BY <1>a, <2>1, <3>1, <3>2, OpenedShaped DEF PlainOK
    <2> QED BY <2>2, <2>3
  <1>2. CASE s.by = "test"
    <2> DEFINE t == TestOf(s.adapter)
               b == testSocket
               now == [ad EXCEPT ![s.adapter] = r]
               opens == b # None /\ now[b].socket = None
    <2>1. /\ tests' = [tests EXCEPT ![t].pc = IF opens THEN "polling" ELSE "waiting"]
          /\ IF opens
             THEN \E w \in Sockets :
                    /\ ad' = [now EXCEPT ![b].socket = w]
                    /\ ws' = [ws EXCEPT ![w] = Connecting(b)]
             ELSE ad' = now /\ ws' = ws
          /\ testSocket' = testSocket
      BY <1>2 DEF Continue
    <2>2. now \in [Adapters -> Adapter] BY <1>a DEF AdaptersOK
    <2>3. tests' \in [Tests -> Test]
      <3>1. \A x \in Test, pc \in {"polling", "waiting"} : [x EXCEPT !.pc = pc] \in Test
        BY DEF Test
      <3>2. PICK pc \in {"polling", "waiting"} :
              tests' = [tests EXCEPT ![t] = [tests[t] EXCEPT !.pc = pc]]
        BY <2>1 DEF PlainOK
      <3> QED BY <3>1, <3>2 DEF PlainOK
    <2>4. CASE opens
      <3>1. PICK w \in Sockets : ad' = [now EXCEPT ![b] = [now[b] EXCEPT !.socket = w]]
                                 /\ ws' = [ws EXCEPT ![w] = Connecting(b)]
        BY <2>1, <2>4
      <3>2. b \in Adapters BY <2>4 DEF PlainOK
      <3>3. [now[b] EXCEPT !.socket = w] \in Adapter BY <1>w, <2>2, <3>2
      <3>4. AdaptersOK' BY <2>2, <3>1, <3>2, <3>3 DEF AdaptersOK
      <3> QED BY <2>1, <2>3, <3>1, <3>2, <3>4, OpenedShaped
    <2>5. CASE ~opens BY <2>1, <2>2, <2>3, <2>5 DEF AdaptersOK, SocketsOK, SocketsOwned
    <2> QED BY <2>4, <2>5
  <1>3. CASE s.by \notin {"task", "test"}
    BY <1>a, <1>3 DEF Continue, AdaptersOK, SocketsOK, SocketsOwned, PlainOK
  <1> QED BY <1>1, <1>2, <1>3

LEMMA AnsweredShaped ==
  ASSUME Shape, NEW s \in BagToSet(calls), Answered(s)
  PROVE  Shape'
  <1> USE ShapeParts, ShapeNext
  <1>s. s \in Call /\ s.adapter \in Adapters /\ s.by \in Callers /\ s.seen \subseteq Klippy
    BY DEF CallsOK, Call
  <1>1. CASE VersionAnswered(s) /\ Rejected(s)
    <2>1. AdaptersOK' /\ SocketsOK' /\ CacheOK' /\ testSocket' \in Adapters \cup {None}
          /\ tests' \in [Tests -> Test]
      BY <1>1, FinallyShaped
         DEF Rejected, AdaptersOK, SocketsOK, SocketsOwned, CacheOK, PlainOK
    <2>2. CallsOK' /\ task' \in {"idle", "open"} BY <1>1, SettledShaped DEF Rejected
    <2>3. left' \in Nat BY <1>1, LeftLessens DEF Rejected
    <2>4. PlainOK' BY <1>1, <2>1, <2>2, <2>3 DEF Rejected, PlainOK
    <2> QED BY <2>1, <2>2, <2>4
  <1>2. CASE VersionAnswered(s) /\ ~Rejected(s)
    <2>1. CallsOK' BY <1>s, <1>2, AddedShaped DEF VersionAnswered, PlainOK
    <2> QED BY <1>2, <2>1
            DEF VersionAnswered, AdaptersOK, SocketsOK, SocketsOwned, CacheOK, PlainOK
  <1>3. CASE ObjectsAnswered(s)
    <2> DEFINE R(answer) == IF answer = "failed" THEN ad[s.adapter]
                            ELSE Shown(ad[s.adapter], answer)
    <2>1. PICK answer \in s.seen \cup {"failed"} :
            /\ IF answer = "failed" THEN Spend("httpFault") /\ cache' = cache
               ELSE left' = left /\ cache' = EmitCurrent(R(answer))
            /\ Continue(s, IF s.by = "interval" THEN R(answer) ELSE ArmInterval(R(answer)))
      BY <1>3 DEF ObjectsAnswered
    <2>2. R(answer) \in Adapter BY <1>s, AdapterOps DEF AdaptersOK
    <2> HIDE DEF R
    <2>3. (IF s.by = "interval" THEN R(answer) ELSE ArmInterval(R(answer))) \in Adapter
      BY <2>2, AdapterOps
    <2>4. AdaptersOK' /\ SocketsOK' /\ testSocket' = testSocket /\ tests' \in [Tests -> Test]
      BY <1>s, <2>1, <2>3, ContinueShaped
    <2>5. CacheOK' /\ left' \in Nat
      BY <2>1, <2>2, EmitShaped, LeftLessens DEF CacheOK, PlainOK
    <2>6. CallsOK' /\ task' \in {"idle", "open"} BY <1>3, SettledShaped DEF ObjectsAnswered
    <2>7. PlainOK' BY <1>3, <2>4, <2>5, <2>6 DEF ObjectsAnswered, PlainOK
    <2> QED BY <2>4, <2>5, <2>6, <2>7
  <1>4. CASE SubscribeAnswered(s)
    <2>1. Shown(ad[s.adapter], "ready") \in Adapter
      BY <1>s, AdapterOps DEF AdaptersOK, Klippy
    <2>2. AdaptersOK' BY <1>s, <1>4, <2>1 DEF SubscribeAnswered, AdaptersOK
    <2>3. CacheOK'
      <3>1. ad'[s.adapter] \in Adapter BY <1>s, <2>2 DEF AdaptersOK
      <3> QED BY <1>4, <3>1, EmitShaped DEF SubscribeAnswered, CacheOK
    <2>4. CallsOK' BY <1>4, WithoutShaped DEF SubscribeAnswered
    <2> QED BY <1>4, <2>2, <2>3, <2>4 DEF SubscribeAnswered, SocketsOK, SocketsOwned, PlainOK
  <1>5. CASE SubscribeFailed(s)
    <2>1. CallsOK' BY <1>5, WithoutShaped DEF SubscribeFailed
    <2>2. left' \in Nat BY <1>5, LeftLessens DEF SubscribeFailed, PlainOK
    <2> QED BY <1>5, <2>1, <2>2
            DEF SubscribeFailed, AdaptersOK, SocketsOK, SocketsOwned, CacheOK, PlainOK
  <1> QED BY <1>1, <1>2, <1>3, <1>4, <1>5 DEF Answered

\* A run of the reconnect task asks the adapters that need it.
Down == {a \in Adapters : \E p \in Printers : store[p] = a /\ NeedsSetup(ad[a])}

TaskCalls == {[adapter |-> a, by |-> "task", pc |-> "version", seen |-> {}] : a \in Down}

LEMMA TickFacts ==
  ASSUME ReconnectTick
  PROVE  /\ calls' = calls (+) SetToBag(TaskCalls) /\ task' = "open"
         /\ UNCHANGED <<mode, printers, store, ad, ws, klippy, cache, testSocket, tests,
                        left, reset>>
         /\ TaskCalls \subseteq Call
         /\ \A c \in TaskCalls : /\ c.pc = "version" /\ c.by = "task"
                                 /\ c.adapter \in Adapters
                                 /\ \E p \in Printers : store[p] = c.adapter
  BY DEF ReconnectTick, TaskCalls, Down, Call, Callers

LEMMA TickShaped ==
  ASSUME Shape, ReconnectTick
  PROVE  Shape'
  <1> USE ShapeParts, ShapeNext
  <1>1. /\ IsABag(calls (+) SetToBag(TaskCalls))
        /\ BagToSet(calls (+) SetToBag(TaskCalls)) = BagToSet(calls) \cup TaskCalls
    BY AddedFacts DEF CallsOK
  <1>2. CallsOK' BY <1>1, TickFacts DEF CallsOK
  <1> QED BY <1>2, TickFacts DEF AdaptersOK, SocketsOK, SocketsOwned, CacheOK, PlainOK

LEMMA AdapterStepShaped ==
  ASSUME Shape, NEW a \in Adapters, RefreshTick(a) \/ RequestTimeout(a)
  PROVE  Shape'
  <1> USE ShapeParts, ShapeNext
  <1>1. CASE RefreshTick(a)
    <2>1. CallsOK' BY <1>1, AddedShaped DEF RefreshTick, PlainOK, Callers
    <2> QED BY <1>1, <2>1 DEF RefreshTick, AdaptersOK, SocketsOK, SocketsOwned, CacheOK, PlainOK
  <1>2. CASE RequestTimeout(a)
    <2>1. TimedOut(ad[a]) \in Adapter BY AdapterOps DEF AdaptersOK
    <2>2. AdaptersOK' BY <1>2, <2>1 DEF RequestTimeout, AdaptersOK
    <2> QED BY <1>2, <2>2 DEF RequestTimeout, SocketsOK, SocketsOwned, CacheOK, CallsOK, PlainOK
  <1> QED BY <1>1, <1>2

\* The requests once Klipper has changed: those for the objects have seen both.
LEMMA OvertakenFacts ==
  ASSUME Shape, KlippyChanges
  PROVE  /\ IsABag(calls')
         /\ BagToSet(calls') = {Overtaken(d) : d \in BagToSet(calls)}
         /\ \A c \in BagToSet(calls') :
              /\ c \in Call /\ (c.pc = "objects" => c.seen = Klippy)
              /\ calls'[c] = Copies(c) + IF c.pc = "objects"
                                         THEN Copies([c EXCEPT !.seen = {klippy}]) ELSE 0
  <1> USE ShapeParts
  <1> DEFINE after == {Overtaken(d) : d \in BagToSet(calls)}
             count(c) == Copies(c) + IF c.pc = "objects"
                                     THEN Copies([c EXCEPT !.seen = {klippy}]) ELSE 0
  <1>1. calls' = [c \in after |-> count(c)] BY DEF KlippyChanges
  <1>n. \A c : Copies(c) \in Nat /\ (c \in BagToSet(calls) => Copies(c) > 0)
    BY DEF Copies, CallsOK, IsABag, BagToSet
  <1>2. ASSUME NEW d \in BagToSet(calls)
        PROVE  /\ Overtaken(d) \in Call
               /\ Overtaken(d).pc = "objects" => Overtaken(d).seen = Klippy
               /\ count(Overtaken(d)) \in Nat /\ count(Overtaken(d)) > 0
    <2>1. d \in Call BY DEF CallsOK
    <2>2. CASE d.pc # "objects"
      <3>1. Overtaken(d) = d BY <2>2 DEF Overtaken
      <3> QED BY <2>1, <2>2, <3>1, <1>n
    <2>3. CASE d.pc = "objects"
      <3>1. Overtaken(d) = [d EXCEPT !.seen = Klippy] BY <2>3 DEF Overtaken
      <3>2. Overtaken(d) \in Call /\ Overtaken(d).pc = "objects" /\ Overtaken(d).seen = Klippy
        BY <2>1, <2>3, <3>1 DEF Call
      <3>3. d = Overtaken(d) \/ d = [Overtaken(d) EXCEPT !.seen = {klippy}]
        BY <2>1, <2>3, <3>1 DEF Call, CallsOK
      <3>4. Copies(Overtaken(d)) > 0 \/ Copies([Overtaken(d) EXCEPT !.seen = {klippy}]) > 0
        BY <3>3, <1>n
      <3> HIDE <3>1
      <3>5. count(Overtaken(d)) = Copies(Overtaken(d))
                                  + Copies([Overtaken(d) EXCEPT !.seen = {klippy}])
        BY <3>2
      <3> QED BY <3>2, <3>4, <3>5, <1>n
    <2> QED BY <2>2, <2>3
  <1> HIDE DEF count
  <1>3. IsABag(calls') /\ BagToSet(calls') = after BY <1>1, <1>2 DEF IsABag, BagToSet
  <1>4. \A c \in after : calls'[c] = count(c) BY <1>1
  <1> QED BY <1>2, <1>3, <1>4 DEF count

LEMMA KlippyShaped ==
  ASSUME Shape, KlippyChanges
  PROVE  Shape'
  <1> USE ShapeParts, ShapeNext
  <1>1. CallsOK' BY OvertakenFacts DEF CallsOK
  <1>2. \A x \in Websocket : [x EXCEPT !.news = @ + 1] \in Websocket BY DEF Websocket
  <1>3. SocketsOK'
    <2>1. ws' \in [Sockets -> Websocket] BY <1>2 DEF KlippyChanges, SocketsOK
    <2>2. ASSUME NEW w \in Sockets
          PROVE  ws'[w].owner = ws[w].owner /\ ws'[w].readyState = ws[w].readyState
                 /\ (ws[w].readyState = "closed" => ws'[w] = ws[w])
      <3>1. ws[w] \in Websocket BY DEF SocketsOK
      <3>2. ws'[w] = IF Delivers(ws[w]) THEN [ws[w] EXCEPT !.news = @ + 1] ELSE ws[w]
        BY DEF KlippyChanges
      <3> QED BY <3>1, <3>2 DEF Delivers, Websocket
    <2> QED BY <2>1, <2>2 DEF SocketsOK, SocketsOwned
  <1>4. left' \in Nat BY LeftLessens DEF KlippyChanges
  <1> QED BY <1>1, <1>3, <1>4 DEF KlippyChanges, AdaptersOK, CacheOK, PlainOK, Klippy

\* What a websocket does to its adapter and to itself, whichever event it is.
WsStepOf(w) ==
  \/ WsOpened(w) \/ IdentifyAnswered(w) \/ WsKlippyNews(w) \/ WsStatusUpdate(w)
  \/ WsOtherEvent(w) \/ WsConnectFailed(w) \/ WsFailed(w) \/ WsClosed(w)

LEMMA HandledShaped ==
  ASSUME Shape, NEW w \in Sockets, NEW r \in Adapter, Handled(w, r)
  PROVE  /\ AdaptersOK'
         /\ UNCHANGED <<mode, printers, store, klippy, task, testSocket, tests, reset>>
         /\ left' \in Nat => PlainOK'
  BY ShapeParts DEF Handled, AdaptersOK, PlainOK

LEMMA OwnerFacts ==
  ASSUME Shape, NEW w \in Sockets, ws[w].readyState # "closed"
  PROVE  ws[w].owner \in Adapters /\ ad[ws[w].owner] \in Adapter /\ ws[w] \in Websocket
  BY ShapeParts DEF SocketsOK, SocketsOwned, AdaptersOK

LEMMA WsOpenShaped ==
  ASSUME Shape, NEW w \in Sockets, WsStepOf(w)
  PROVE  ws[w].readyState # "closed"
  BY DEF WsStepOf, WsOpened, IdentifyAnswered, WsKlippyNews, WsStatusUpdate, WsOtherEvent,
         WsConnectFailed, WsFailed, WsClosed, Delivers

\* A websocket that changes but stays with its owner, or is closed.
LEMMA OneSocketShaped ==
  ASSUME Shape, NEW w \in Sockets, NEW x \in Websocket,
         IF x.readyState = "closed" THEN x = ClosedSocket ELSE x.owner \in Adapters,
         ws' = [ws EXCEPT ![w] = x]
  PROVE  SocketsOK'
  BY ShapeParts DEF SocketsOK, SocketsOwned

LEMMA WsShaped ==
  ASSUME Shape, NEW w \in Sockets, WsStepOf(w)
  PROVE  Shape'
  <1> USE ShapeParts, ShapeNext
  <1> DEFINE a == ws[w].owner
  <1>a. a \in Adapters /\ ad[a] \in Adapter /\ ws[w] \in Websocket
    BY OwnerFacts, WsOpenShaped
  <1>r. /\ OnEventMessage(ad[a]) \in Adapter /\ OnError(ad[a]) \in Adapter
        /\ Resolved(ad[a]) \in Adapter /\ AfterClosed(ad[a]) \in Adapter
        /\ AfterClosed(OnError(ad[a])) \in Adapter
        /\ \A b \in BOOLEAN : Identify(ad[a], b) \in Adapter
    BY <1>a, AdapterOps
  <1>k. klippy' = klippy /\ left \in Nat /\ klippy \in Klippy
    BY DEF WsStepOf, WsOpened, IdentifyAnswered, WsKlippyNews, WsStatusUpdate, WsOtherEvent,
           WsConnectFailed, WsFailed, WsClosed, Handled, PlainOK
  <1>c. ClosedSocket \in Websocket /\ ClosedSocket.readyState = "closed"
    BY DEF ClosedSocket, Websocket
  <1>1. CASE WsOpened(w)
    <2> DEFINE r == ad[a]
               opened == [ws EXCEPT ![w].readyState = "open"]
               sendable == r.socket # None /\ opened[r.socket].readyState = "open"
    <2>1. /\ Handled(w, Identify(r, sendable))
          /\ ws' = IF sendable THEN [opened EXCEPT ![r.socket].identify = "asked"] ELSE opened
          /\ UNCHANGED <<calls, cache, left>>
      BY <1>1 DEF WsOpened
    <2>2. AdaptersOK' /\ PlainOK' BY <1>r, <1>k, <2>1, HandledShaped
    <2>3. /\ opened \in [Sockets -> Websocket]
          /\ \A v \in Sockets : IF opened[v].readyState = "closed" THEN opened[v] = ClosedSocket
                                ELSE opened[v].owner \in Adapters
      <3>1. [ws[w] EXCEPT !.readyState = "open"] \in Websocket BY <1>a DEF Websocket
      <3>2. opened = [ws EXCEPT ![w] = [ws[w] EXCEPT !.readyState = "open"]] OBVIOUS
      <3>3. [ws[w] EXCEPT !.readyState = "open"].owner = a
            /\ [ws[w] EXCEPT !.readyState = "open"].readyState = "open"
        BY <1>a DEF Websocket
      <3> QED BY <1>a, <3>1, <3>2, <3>3 DEF SocketsOK, SocketsOwned
    <2>4. SocketsOK'
      <3>1. CASE ~sendable BY <2>1, <2>3, <3>1 DEF SocketsOK, SocketsOwned
      <3>2. CASE sendable
        <4> HIDE DEF opened
        <4> DEFINE v == r.socket
                   x == [opened[v] EXCEPT !.identify = "asked"]
        <4>1. v \in Sockets BY <1>a, <3>2 DEF Adapter
        <4>2. x \in Websocket /\ x.readyState = "open" /\ x.owner = opened[v].owner
          BY <2>3, <3>2, <4>1, SMTT(30) DEF Websocket
        <4>3. ws' = [opened EXCEPT ![v] = x] BY <2>1, <3>2
        <4>4. opened[v].owner \in Adapters BY <2>3, <3>2, <4>1
        <4> HIDE DEF x
        <4> QED BY <2>3, <4>1, <4>2, <4>3, <4>4 DEF SocketsOK, SocketsOwned
      <3> QED BY <3>1, <3>2
    <2> QED BY <2>1, <2>2, <2>4, <1>k DEF CacheOK, CallsOK
  <1>2. CASE IdentifyAnswered(w)
    <2>1. AdaptersOK' /\ PlainOK' BY <1>2, <1>r, <1>k, HandledShaped DEF IdentifyAnswered
    <2>2. CallsOK'
      <3>1. CASE calls' = calls BY <1>k, <3>1 DEF CallsOK
      <3>2. CASE calls' = calls (+) NewCall(a, "subscribe", "objects")
        BY <1>a, <1>k, <3>2, AddedShaped DEF Callers
      <3> QED BY <1>2, <3>1, <3>2 DEF IdentifyAnswered
    <2>3. SocketsOK'
      <3>1. [ws[w] EXCEPT !.identify = "answered"] \in Websocket
            /\ [ws[w] EXCEPT !.identify = "answered"].owner = a
            /\ [ws[w] EXCEPT !.identify = "answered"].readyState = ws[w].readyState
        BY <1>a DEF Websocket
      <3>2. ws[w].readyState # "closed" BY WsOpenShaped
      <3> QED BY <1>2, <1>a, <3>1, <3>2, OneSocketShaped DEF IdentifyAnswered
    <2> QED BY <1>2, <2>1, <2>2, <2>3 DEF IdentifyAnswered, CacheOK
  <1>3. CASE WsKlippyNews(w)
    <2>1. AdaptersOK' /\ PlainOK' BY <1>3, <1>r, <1>k, HandledShaped DEF WsKlippyNews
    <2>2. CallsOK' BY <1>3, <1>a, <1>k, AddedShaped DEF WsKlippyNews, Callers
    <2>3. SocketsOK'
      <3>1. ws[w].news \in Nat /\ ws[w].news > 0 BY <1>3, <1>a DEF WsKlippyNews, Websocket
      <3>2. ws[w].news - 1 \in Nat BY <3>1
      <3>3. [ws[w] EXCEPT !.news = @ - 1] \in Websocket
            /\ [ws[w] EXCEPT !.news = @ - 1].owner = a
            /\ [ws[w] EXCEPT !.news = @ - 1].readyState = ws[w].readyState
        BY <1>a, <3>2 DEF Websocket
      <3>4. ws[w].readyState # "closed" BY WsOpenShaped
      <3> QED BY <1>3, <1>a, <3>3, <3>4, OneSocketShaped DEF WsKlippyNews
    <2> QED BY <1>3, <2>1, <2>2, <2>3 DEF WsKlippyNews, CacheOK
  <1>4. CASE WsStatusUpdate(w)
    <2>1. AdaptersOK' /\ PlainOK' BY <1>4, <1>r, <1>k, HandledShaped DEF WsStatusUpdate
    <2>2. CacheOK' BY <1>4, <1>r, EmitShaped DEF WsStatusUpdate, CacheOK
    <2> QED BY <1>4, <2>1, <2>2, <1>k DEF WsStatusUpdate, SocketsOK, SocketsOwned, CallsOK
  <1>5. CASE WsOtherEvent(w)
    <2>1. AdaptersOK' /\ PlainOK' BY <1>5, <1>r, <1>k, HandledShaped DEF WsOtherEvent
    <2> QED BY <1>5, <2>1, <1>k DEF WsOtherEvent, SocketsOK, SocketsOwned, CallsOK, CacheOK
  <1>6. CASE WsConnectFailed(w)
    <2>1. left' \in Nat BY <1>6, LeftLessens DEF WsConnectFailed
    <2>2. AdaptersOK' /\ PlainOK' BY <1>6, <1>r, <2>1, HandledShaped DEF WsConnectFailed
    <2>3. SocketsOK' BY <1>6, <1>c, OneSocketShaped DEF WsConnectFailed
    <2> QED BY <1>6, <2>2, <2>3, <1>k DEF WsConnectFailed, CacheOK, CallsOK
  <1>7. CASE WsFailed(w)
    <2>1. left' \in Nat BY <1>7, LeftLessens DEF WsFailed
    <2>2. AdaptersOK' /\ PlainOK' BY <1>7, <1>r, <2>1, HandledShaped DEF WsFailed
    <2>3. SocketsOK'
      <3>1. [ws[w] EXCEPT !.readyState = "closing"] \in Websocket
            /\ [ws[w] EXCEPT !.readyState = "closing"].owner = a
            /\ [ws[w] EXCEPT !.readyState = "closing"].readyState = "closing"
        BY <1>a DEF Websocket
      <3> QED BY <1>7, <1>a, <3>1, OneSocketShaped DEF WsFailed
    <2> QED BY <1>7, <2>2, <2>3, <1>k DEF WsFailed, CacheOK, CallsOK
  <1>8. CASE WsClosed(w)
    <2>1. left' \in Nat BY <1>8, <1>k, LeftLessens DEF WsClosed
    <2>2. AdaptersOK' /\ PlainOK' BY <1>8, <1>r, <2>1, HandledShaped DEF WsClosed
    <2>3. SocketsOK' BY <1>8, <1>c, OneSocketShaped DEF WsClosed
    <2> QED BY <1>8, <2>2, <2>3, <1>k DEF WsClosed, CacheOK, CallsOK
  <1> QED BY <1>1, <1>2, <1>3, <1>4, <1>5, <1>6, <1>7, <1>8 DEF WsStepOf

LEMMA TestShaped ==
  ASSUME Shape, NEW t \in Tests, TestStarted(t) \/ TestPolled(t) \/ TestTimeout(t)
  PROVE  Shape'
  <1> USE ShapeParts, ShapeNext
  <1>1. CASE TestStarted(t)
    <2> DEFINE a == CHOOSE b \in FreshAdapter : TRUE
               closed == IF testSocket = None THEN ad
                         ELSE [ad EXCEPT ![testSocket] = Close(@, IsConnecting(testSocket))]
    <2>1. a \in Adapters BY <1>1 DEF TestStarted, FreshAdapter
    <2> HIDE DEF a
    <2>2. /\ ad' = [closed EXCEPT ![a] = RegisterCredentials(NewAdapter, t)]
          /\ ws' = IF testSocket = None THEN ws ELSE SocketsShut(testSocket)
          /\ testSocket' = a
          /\ calls' = calls (+) NewCall(a, "test", "version")
          /\ klippy' = klippy
      BY <1>1 DEF TestStarted, a
    <2>3. closed \in [Adapters -> Adapter]
      <3>1. CASE testSocket = None BY <3>1 DEF AdaptersOK
      <3>2. CASE testSocket # None
        <4>1. testSocket \in Adapters BY <3>2 DEF PlainOK
        <4>2. IsConnecting(testSocket) \in BOOLEAN BY DEF IsConnecting
        <4>3. Close(ad[testSocket], IsConnecting(testSocket)) \in Adapter
          BY <4>1, <4>2, AdapterOps DEF AdaptersOK
        <4> QED BY <3>2, <4>3 DEF AdaptersOK
      <3> QED BY <3>1, <3>2
    <2> HIDE DEF closed
    <2>4. RegisterCredentials(NewAdapter, t) \in Adapter BY NewAdapterOps DEF Ids
    <2>5. AdaptersOK' BY <2>1, <2>2, <2>3, <2>4 DEF AdaptersOK
    <2>6. SocketsOK'
      <3>1. CASE testSocket = None BY <2>2, <3>1 DEF SocketsOK, SocketsOwned
      <3>2. CASE testSocket # None
        <4>1. testSocket \in Adapters BY <3>2 DEF PlainOK
        <4> QED BY <2>2, <3>2, <4>1, ShutShaped DEF SocketsOK, SocketsOwned
      <3> QED BY <3>1, <3>2
    <2>7. CallsOK' BY <2>1, <2>2, AddedShaped DEF PlainOK, Callers
    <2>8. tests' \in [Tests -> Test]
      <3>1. \A u \in Tests : [tests[u] EXCEPT !.alone = FALSE] \in Test /\ tests[u] \in Test
        BY DEF PlainOK, Test
      <3>2. \A b \in BOOLEAN : [pc |-> "setup", listener |-> TRUE, alone |-> b] \in Test
        BY DEF Test
      <3> QED BY <1>1, <3>1, <3>2 DEF TestStarted
    <2>9. PlainOK' BY <1>1, <2>1, <2>2, <2>8 DEF TestStarted, PlainOK
    <2> QED BY <1>1, <2>5, <2>6, <2>7, <2>9 DEF TestStarted, CacheOK
  <1>2. CASE TestPolled(t) \/ TestTimeout(t)
    <2>1. Finally(t) /\ UNCHANGED <<mode, printers, store, klippy, calls, task, left, reset>>
      BY <1>2 DEF TestPolled, TestTimeout
    <2> QED BY <2>1, FinallyShaped DEF PlainOK, CallsOK
  <1> QED BY <1>1, <1>2

LEMMA InitShaped == Init => Shape
  <1> SUFFICES ASSUME Init PROVE Shape OBVIOUS
  <1>1. AdaptersOK BY NewAdapterOps DEF Init, AdaptersOK
  <1>2. SocketsOK BY DEF Init, SocketsOK, SocketsOwned, Websocket, ClosedSocket
  <1>3. PlainOK /\ CacheOK BY ClientsAreValid DEF Init, PlainOK, CacheOK, Klippy, Test
  <1>4. CallsOK BY DEF Init, CallsOK, EmptyBag, SetToBag, IsABag, BagToSet
  <1> QED BY <1>1, <1>2, <1>3, <1>4, ShapeParts

LEMMA StutterShaped ==
  ASSUME Shape, UNCHANGED vars
  PROVE  Shape'
  BY ShapeParts, ShapeNext
     DEF vars, AdaptersOK, SocketsOK, SocketsOwned, PlainOK, CacheOK, CallsOK

LEMMA NextShaped ==
  ASSUME Shape, [Next]_vars
  PROVE  Shape'
  BY UserShaped, TickShaped, AnsweredShaped, AdapterStepShaped, KlippyShaped, WsShaped,
     TestShaped, StutterShaped
     DEF Next, UserStep, AdapterStep, WsStep, WsStepOf, TestStep

\* The fields of the adapters and of both stores have the values the code gives
\* them, a websocket that is not closed is one that an adapter opened, and what an
\* adapter awaits are requests it sent.
THEOREM MoonrakerShaped == Spec => []Shape
  <1> QED BY InitShaped, NextShaped, PTL DEF Spec

\* TypeOK, for any printers, tests, adapters and websockets.
THEOREM MoonrakerTypeCorrect == Spec => []TypeOK
  <1>1. Shape => TypeOK BY DEF Shape
  <1> QED BY <1>1, MoonrakerShaped, PTL

---------------------------------------------------------------------------
(* What the steps do to adapters, websockets and the events cache          *)

\* A record that an operation leaves: of the same printer, never louder than before,
\* and authenticated only if it was.
Same(r, x) ==
  /\ x.printerId = r.printerId
  /\ x.eventEmittingAllowed => r.eventEmittingAllowed

Keeps(r, x) ==
  /\ Same(r, x) /\ x.socket = r.socket
  /\ x.socketState = "authenticated" => r.socketState = "authenticated"

Lets(r, x) ==
  /\ Same(r, x) /\ x.socket = None
  /\ x.socketState = "authenticated" => r.socketState = "authenticated"

LEMMA KeepingOps ==
  ASSUME NEW r \in Adapter
  PROVE  /\ Keeps(r, r) /\ Keeps(r, ResetSocketState(r)) /\ Keeps(r, ArmInterval(r))
         /\ Keeps(r, Resolved(r)) /\ Keeps(r, TimedOut(r)) /\ Keeps(r, OnError(r))
         /\ \A k : Keeps(r, Shown(r, k))
         /\ \A b : Keeps(r, Identify(r, b))
         /\ Same(r, OnEventMessage(r)) /\ OnEventMessage(r).socket = r.socket
  BY DEF Keeps, Same, ResetSocketState, ArmInterval, Resolved, TimedOut, OnError, Shown,
         Identify, OnEventMessage, SetSocketState, Adapter

LEMMA LettingOps ==
  ASSUME NEW r \in Adapter, NEW c
  PROVE  /\ Lets(r, Close(r, c)) /\ Lets(r, Purge(r, c)) /\ ~Purge(r, c).eventEmittingAllowed
         /\ Lets(r, Close(ResetSocketState(r), c))
         /\ Lets(r, AfterClosed(r)) /\ AfterClosed(r).socketState = "closed"
         /\ Lets(r, AfterClosed(OnError(r))) /\ AfterClosed(OnError(r)).socketState = "closed"
  BY DEF Lets, Same, Close, Purge, ResetSocketState, AfterClosed, OnError, SetSocketState, Adapter

LEMMA KeepsTwice ==
  ASSUME NEW r, NEW x, NEW y, Keeps(r, x), Keeps(x, y)
  PROVE  Keeps(r, y)
  BY DEF Keeps, Same

\* No adapter changes hands or speaks again.
Quiet == \A a \in Adapters : Same(ad[a], ad'[a])

\* Only what an adapter emits enters the events cache.
Told == \A id \in Ids : cache'[id] \notin {None, cache[id]} =>
  \E a \in Adapters : ad[a].printerId = id /\ ad[a].eventEmittingAllowed

\* No websocket opens or changes hands.
Fading == \A w \in Sockets :
  /\ ws'[w].owner \in {ws[w].owner, None}
  /\ ws'[w].readyState \in Up => ws[w].readyState \in Up /\ ws'[w].owner = ws[w].owner

\* An adapter lets go of a websocket when that, or another of its own, goes down.
Dropping == \A a \in Adapters :
  \/ ad'[a].socket = ad[a].socket
  \/ \E w \in Sockets : /\ w = ad[a].socket \/ ws[w].owner = a
                        /\ ws'[w].readyState \notin Up

\* What speaks goes on speaking or its adapter is not authenticated, and an adapter
\* becomes authenticated by what speaks.
Lively ==
  /\ \A w \in Sockets : Delivers(ws[w]) =>
       \/ Delivers(ws'[w]) /\ ws'[w].owner = ws[w].owner
       \/ ad'[ws[w].owner].socketState # "authenticated"
  /\ \A a \in Adapters : ad'[a].socketState = "authenticated" =>
       \/ ad[a].socketState = "authenticated"
       \/ \E w \in Sockets : ws'[w].owner = a /\ Delivers(ws'[w])

Calm == Quiet /\ Told /\ Fading /\ Dropping /\ Lively

LEMMA CacheStays ==
  ASSUME cache' = cache
  PROVE  Told
  BY DEF Told

LEMMA DeletedTells ==
  ASSUME Shape, NEW id, cache' = DeleteKeyValue(id)
  PROVE  Told
  BY DEF Told, DeleteKeyValue, Shape, TypeOK

LEMMA EmitTells ==
  ASSUME Shape, NEW a \in Adapters, NEW r, Same(ad[a], r), cache' = EmitCurrent(r)
  PROVE  Told
  BY DEF Told, EmitCurrent, SetEvent, Same, Shape, TypeOK

\* One adapter changes and keeps its websocket, no websocket changes.
LEMMA AdapterKeeps ==
  ASSUME Shape, NEW a \in Adapters, NEW x, Keeps(ad[a], x), ad' = [ad EXCEPT ![a] = x], ws' = ws
  PROVE  Quiet /\ Fading /\ Dropping /\ Lively
  <1>1. ad \in [Adapters -> Adapter] BY DEF Shape, TypeOK
  <1>2. \A b \in Adapters : Keeps(ad[b], ad'[b]) BY <1>1, KeepingOps
  <1>3. Quiet /\ Dropping BY <1>2 DEF Keeps, Quiet, Dropping
  <1>4. Fading BY DEF Fading
  <1>5. Lively BY <1>2 DEF Lively, Keeps
  <1> QED BY <1>3, <1>4, <1>5

LEMMA NothingMoves ==
  ASSUME Shape, ad' = ad, ws' = ws
  PROVE  Quiet /\ Fading /\ Dropping /\ Lively
  BY DEF Quiet, Same, Fading, Dropping, Lively

\* An adapter calls close().
LEMMA AdapterLets ==
  ASSUME Shape, NEW a \in Adapters, NEW x, Lets(ad[a], x),
         ad' = [ad EXCEPT ![a] = x], ws' = SocketsShut(a)
  PROVE  Quiet /\ Fading /\ Dropping /\ Lively
  <1>1. ad \in [Adapters -> Adapter] /\ ws \in [Sockets -> Websocket] /\ SocketsOwned
    BY DEF Shape, TypeOK
  <1>2. \A b \in Adapters : b # a => ad'[b] = ad[b] BY <1>1
  <1>3. ad'[a] = x BY <1>1
  <1>4. ASSUME NEW w \in Sockets
        PROVE  /\ ws'[w].owner \in {ws[w].owner, None}
               /\ ws'[w].readyState \in Up =>
                    ws[w].readyState \in Up /\ ws'[w].owner = ws[w].owner
               /\ w = ad[a].socket => ws'[w].readyState \notin Up
               /\ Delivers(ws[w]) => Delivers(ws'[w]) /\ ws'[w].owner = ws[w].owner
    <2>1. ws[w] \in Websocket /\ ws'[w] = IF ad[a].socket = w THEN Shut(ws[w]) ELSE ws[w]
      BY <1>1 DEF SocketsShut
    <2>2. CASE ws[w].readyState = "connecting"
      BY <2>1, <2>2 DEF Shut, ClosedSocket, Up, Delivers
    <2>3. CASE ws[w].readyState = "open"
      <3>1. Shut(ws[w]) = [ws[w] EXCEPT !.readyState = "closing"] BY <2>3 DEF Shut
      <3>2. Shut(ws[w]).owner = ws[w].owner /\ Shut(ws[w]).readyState = "closing"
        BY <2>1, <3>1 DEF Websocket
      <3> QED BY <2>1, <2>3, <3>2 DEF Up, Delivers
    <2>4. CASE ws[w].readyState \notin {"connecting", "open"}
      BY <2>1, <2>4 DEF Shut, Up, Delivers
    <2> QED BY <2>2, <2>3, <2>4
  <1>5. Quiet BY <1>2, <1>3 DEF Quiet, Same, Lets
  <1>6. Fading BY <1>4 DEF Fading
  <1>7. Dropping
    <2>1. ad[a].socket \in Sockets \cup {None} BY <1>1 DEF Adapter
    <2>2. x.socket = None BY DEF Lets
    <2>3. ad'[a].socket = ad[a].socket \/
          \E w \in Sockets : w = ad[a].socket /\ ws'[w].readyState \notin Up
      BY <1>3, <1>4, <2>1, <2>2
    <2> QED BY <1>2, <2>3 DEF Dropping
  <1>8. Lively BY <1>2, <1>3, <1>4 DEF Lively, Lets
  <1> QED BY <1>5, <1>6, <1>7, <1>8

LEMMA FinallyCalm ==
  ASSUME Shape, NEW t, Finally(t)
  PROVE  Calm
  <1>1. CASE testSocket = None BY <1>1, NothingMoves, CacheStays DEF Finally, Calm
  <1>2. CASE testSocket # None
    <2>1. testSocket \in Adapters /\ ad[testSocket] \in Adapter BY <1>2 DEF Shape, TypeOK
    <2>2. Lets(ad[testSocket], Purge(ad[testSocket], IsConnecting(testSocket)))
      BY <2>1, LettingOps
    <2>3. /\ ad' = [ad EXCEPT ![testSocket] =
                      Purge(ad[testSocket], IsConnecting(testSocket))]
          /\ ws' = SocketsShut(testSocket) /\ cache' = DeleteKeyValue(t)
      BY <1>2 DEF Finally
    <2> QED BY <2>1, <2>2, <2>3, AdapterLets, DeletedTells DEF Calm
  <1> QED BY <1>1, <1>2

LEMMA UserCalm ==
  ASSUME Shape, NEW p \in Printers, SocketReset(p) \/ PrinterDisabled(p) \/ PrintersDeleted(p)
  PROVE  Calm
  <1>1. ASSUME store[p] # None
        PROVE  store[p] \in Adapters /\ ad[store[p]] \in Adapter
    BY <1>1 DEF Shape, TypeOK
  <1>2. CASE SocketReset(p)
    <2>1. store[p] # None BY <1>2 DEF SocketReset
    <2>2. Lets(ad[store[p]], Close(ResetSocketState(ad[store[p]]), IsConnecting(store[p])))
      BY <1>1, <2>1, LettingOps
    <2>3. Quiet /\ Fading /\ Dropping /\ Lively
      BY <1>1, <1>2, <2>1, <2>2, AdapterLets DEF SocketReset
    <2> QED BY <1>2, <2>3, CacheStays, DeletedTells DEF SocketReset, Calm
  <1>3. ASSUME DeleteSocket(p)
        PROVE  Quiet /\ Fading /\ Dropping /\ Lively
    <2>1. CASE store[p] = None BY <1>3, <2>1, NothingMoves DEF DeleteSocket
    <2>2. CASE store[p] # None
      <3>1. Lets(ad[store[p]], Purge(ad[store[p]], IsConnecting(store[p])))
        BY <1>1, <2>2, LettingOps
      <3> QED BY <1>1, <1>3, <2>2, <3>1, AdapterLets DEF DeleteSocket
    <2> QED BY <2>1, <2>2
  <1>4. CASE PrinterDisabled(p) BY <1>3, <1>4, CacheStays DEF PrinterDisabled, Calm
  <1>5. CASE PrintersDeleted(p) BY <1>3, <1>5, DeletedTells DEF PrintersDeleted, Calm
  <1> QED BY <1>2, <1>4, <1>5

\* A handler runs and no websocket closes.
LEMMA HandledCalm ==
  ASSUME Shape, NEW w \in Sockets, ws[w].readyState # "closed", NEW x,
         ad' = [ad EXCEPT ![ws[w].owner] = x],
         Same(ad[ws[w].owner], x), x.socket = ad[ws[w].owner].socket,
         x.socketState = "authenticated" =>
           ad[ws[w].owner].socketState = "authenticated" \/ Delivers(ws[w]),
         \A v \in Sockets : /\ ws'[v].owner = ws[v].owner
                            /\ ws'[v].readyState \in Up => ws[v].readyState \in Up
                            /\ Delivers(ws[v]) => Delivers(ws'[v])
  PROVE  Quiet /\ Fading /\ Dropping /\ Lively
  <1> DEFINE a == ws[w].owner
  <1>1. a \in Adapters BY OwnerFacts
  <1>2. ad'[a] = x /\ \A b \in Adapters : b # a => ad'[b] = ad[b] BY <1>1 DEF Shape, TypeOK
  <1>3. Quiet BY <1>2 DEF Quiet, Same
  <1>4. Fading BY DEF Fading
  <1>5. Dropping BY <1>2 DEF Dropping
  <1>6. Lively BY <1>1, <1>2 DEF Lively
  <1> QED BY <1>3, <1>4, <1>5, <1>6

\* A websocket closes, which its adapter is told.
LEMMA ClosedCalm ==
  ASSUME Shape, NEW w \in Sockets, ws[w].readyState # "closed", NEW x,
         ad' = [ad EXCEPT ![ws[w].owner] = x], Lets(ad[ws[w].owner], x),
         x.socketState = "closed", ws' = [ws EXCEPT ![w] = ClosedSocket]
  PROVE  Quiet /\ Fading /\ Dropping /\ Lively
  <1> DEFINE a == ws[w].owner
  <1>1. a \in Adapters BY OwnerFacts
  <1>2. ad'[a] = x /\ \A b \in Adapters : b # a => ad'[b] = ad[b] BY <1>1 DEF Shape, TypeOK
  <1>3. /\ ws'[w].owner = None /\ ws'[w].readyState = "closed"
        /\ \A v \in Sockets : v # w => ws'[v] = ws[v]
    BY DEF Shape, TypeOK, ClosedSocket
  <1>4. Quiet BY <1>2 DEF Quiet, Same, Lets
  <1>5. Fading BY <1>3 DEF Fading, Up
  <1>6. Dropping BY <1>2, <1>3 DEF Dropping, Up
  <1>7. Lively BY <1>2, <1>3 DEF Lively
  <1> QED BY <1>4, <1>5, <1>6, <1>7

LEMMA WsCalm ==
  ASSUME Shape, NEW w \in Sockets, WsStepOf(w)
  PROVE  Calm
  <1> DEFINE a == ws[w].owner
             r == ad[a]
  <1>a. a \in Adapters /\ ad[a] \in Adapter /\ ws[w] \in Websocket /\ ws[w].readyState # "closed"
    BY OwnerFacts, WsOpenShaped
  <1>w. ws \in [Sockets -> Websocket] /\ ad \in [Adapters -> Adapter] BY DEF Shape, TypeOK
  <1>1. CASE WsOpened(w)
    <2> DEFINE opened == [ws EXCEPT ![w].readyState = "open"]
               sendable == r.socket # None /\ opened[r.socket].readyState = "open"
    <2>1. /\ ad' = [ad EXCEPT ![a] = Identify(r, sendable)]
          /\ ws' = IF sendable THEN [opened EXCEPT ![r.socket].identify = "asked"] ELSE opened
          /\ cache' = cache /\ ws[w].readyState = "connecting"
      BY <1>1 DEF WsOpened, Handled
    <2>2. Keeps(r, Identify(r, sendable)) BY <1>a, KeepingOps
    <2>3. ASSUME NEW v \in Sockets
          PROVE  /\ ws'[v].owner = ws[v].owner
                 /\ ws'[v].readyState = IF v = w THEN "open" ELSE ws[v].readyState
      <3>1. opened[v].owner = ws[v].owner
            /\ opened[v].readyState = (IF v = w THEN "open" ELSE ws[v].readyState)
            /\ opened \in [Sockets -> Websocket]
        BY <1>w DEF Websocket
      <3> HIDE DEF opened
      <3>2. ws'[v] = opened[v] \/ ws'[v] = [opened[v] EXCEPT !.identify = "asked"]
        BY <2>1, <3>1
      <3> QED BY <3>1, <3>2 DEF Websocket
    <2> HIDE DEF sendable
    <2>4. Quiet /\ Fading /\ Dropping /\ Lively
      BY <1>a, <2>1, <2>2, <2>3, HandledCalm, ZenonT(60) DEF Keeps, Up, Delivers
    <2> QED BY <2>1, <2>4, CacheStays DEF Calm
  <1>2. CASE IdentifyAnswered(w)
    <2>1. \A v \in Sockets : ws'[v].owner = ws[v].owner /\ ws'[v].readyState = ws[v].readyState
      BY <1>2, <1>w DEF IdentifyAnswered, Websocket
    <2>2. Keeps(r, Resolved(r)) BY <1>a, KeepingOps
    <2>3. ad' = [ad EXCEPT ![a] = Resolved(r)] /\ cache' = cache
      BY <1>2 DEF IdentifyAnswered, Handled
    <2>4. Quiet /\ Fading /\ Dropping /\ Lively
      BY <1>a, <2>1, <2>2, <2>3, HandledCalm DEF Keeps, Delivers
    <2> QED BY <2>3, <2>4, CacheStays DEF Calm
  <1>3. CASE WsKlippyNews(w) \/ WsStatusUpdate(w) \/ WsOtherEvent(w)
    <2>1. /\ \A v \in Sockets : ws'[v].owner = ws[v].owner /\ ws'[v].readyState = ws[v].readyState
          /\ Delivers(ws[w])
      BY <1>3, <1>w DEF WsKlippyNews, WsStatusUpdate, WsOtherEvent, Websocket
    <2>2. Same(r, OnEventMessage(r)) /\ OnEventMessage(r).socket = r.socket
      BY <1>a, KeepingOps
    <2>3. ad' = [ad EXCEPT ![a] = OnEventMessage(r)]
      BY <1>3 DEF WsKlippyNews, WsStatusUpdate, WsOtherEvent, Handled
    <2>4. Quiet /\ Fading /\ Dropping /\ Lively
      BY <1>a, <2>1, <2>2, <2>3, HandledCalm DEF Delivers
    <2>5. cache' = cache \/ cache' = EmitCurrent(OnEventMessage(r))
      BY <1>3 DEF WsKlippyNews, WsStatusUpdate, WsOtherEvent
    <2>6. Told BY <1>a, <2>2, <2>5, CacheStays, EmitTells
    <2> QED BY <2>4, <2>6 DEF Calm
  <1>4. CASE WsConnectFailed(w)
    <2>1. Lets(r, AfterClosed(OnError(r))) /\ AfterClosed(OnError(r)).socketState = "closed"
      BY <1>a, LettingOps
    <2>2. /\ ad' = [ad EXCEPT ![a] = AfterClosed(OnError(r))]
          /\ ws' = [ws EXCEPT ![w] = ClosedSocket] /\ cache' = cache
      BY <1>4 DEF WsConnectFailed, Handled
    <2>3. Quiet /\ Fading /\ Dropping /\ Lively BY <1>a, <2>1, <2>2, ClosedCalm
    <2> QED BY <2>2, <2>3, CacheStays DEF Calm
  <1>5. CASE WsFailed(w)
    <2>1. Keeps(r, OnError(r)) BY <1>a, KeepingOps
    <2>2. /\ ad' = [ad EXCEPT ![a] = OnError(r)] /\ cache' = cache
          /\ ws' = [ws EXCEPT ![w].readyState = "closing"] /\ ws[w].readyState = "open"
      BY <1>5 DEF WsFailed, Handled
    <2>3. \A v \in Sockets :
            /\ ws'[v].owner = ws[v].owner
            /\ ws'[v].readyState = IF v = w THEN "closing" ELSE ws[v].readyState
      BY <1>w, <2>2 DEF Websocket
    <2>4. Quiet /\ Fading /\ Dropping /\ Lively
      BY <1>a, <2>1, <2>2, <2>3, HandledCalm DEF Keeps, Up, Delivers
    <2> QED BY <2>2, <2>4, CacheStays DEF Calm
  <1>6. CASE WsClosed(w)
    <2>1. Lets(r, AfterClosed(r)) /\ AfterClosed(r).socketState = "closed"
      BY <1>a, LettingOps
    <2>2. /\ ad' = [ad EXCEPT ![a] = AfterClosed(r)]
          /\ ws' = [ws EXCEPT ![w] = ClosedSocket] /\ cache' = cache
      BY <1>6 DEF WsClosed, Handled
    <2>3. Quiet /\ Fading /\ Dropping /\ Lively BY <1>a, <2>1, <2>2, ClosedCalm
    <2> QED BY <2>2, <2>3, CacheStays DEF Calm
  <1> QED BY <1>1, <1>2, <1>3, <1>4, <1>5, <1>6 DEF WsStepOf

\* Adapter b, without a websocket until now, opens w.
Opens(b, w) ==
  /\ ws[w] = ClosedSocket /\ ws' = [ws EXCEPT ![w] = Connecting(b)]
  /\ ad[b].socket = None /\ ad'[b].socket = w
  /\ \A a \in Adapters \ {b} : ad'[a].socket = ad[a].socket

OpensFor(s) == \E b \in Adapters, w \in Sockets :
  /\ Opens(b, w)
  /\ \/ s.by = "task" /\ b = s.adapter
     \/ s.by = "test" /\ b = testSocket

LEMMA OpenedCalm ==
  ASSUME Shape, NEW b \in Adapters, NEW w \in Sockets,
         \A a \in Adapters : /\ Same(ad[a], ad'[a])
                             /\ ad'[a].socketState = "authenticated" =>
                                  ad[a].socketState = "authenticated",
         Opens(b, w)
  PROVE  Quiet /\ Lively
  <1>1. ~Delivers(ws[w]) BY DEF Opens, ClosedSocket, Delivers
  <1>2. \A v \in Sockets : v # w => ws'[v] = ws[v] BY DEF Opens, Shape, TypeOK
  <1> QED BY <1>1, <1>2 DEF Quiet, Lively

LEMMA ContinueCalm ==
  ASSUME Shape, NEW s \in Call, NEW r \in Adapter, Keeps(ad[s.adapter], r), Continue(s, r)
  PROVE  Quiet /\ Lively /\ ((Fading /\ Dropping) \/ OpensFor(s))
  <1>a. s.adapter \in Adapters /\ ad \in [Adapters -> Adapter] /\ testSocket \in Adapters \cup {None}
    BY DEF Call, Shape, TypeOK
  <1>k. \A a \in Adapters : Keeps(ad[a], ad[a]) BY <1>a, KeepingOps
  <1>w. ASSUME NEW x \in Adapter, NEW w \in Sockets
        PROVE  /\ [x EXCEPT !.socket = w].socket = w /\ Same(x, [x EXCEPT !.socket = w])
               /\ [x EXCEPT !.socket = w].socketState = x.socketState
    BY DEF Adapter, Same
  <1>1. CASE s.by = "task"
    <2>1. Open(s.adapter, r) BY <1>1 DEF Continue
    <2>2. CASE r.socket # None BY <1>a, <2>1, <2>2, AdapterKeeps DEF Open
    <2>3. CASE r.socket = None
      <3>1. PICK w \in Sockets : /\ ws[w] = ClosedSocket
                                 /\ ad' = [ad EXCEPT ![s.adapter] = [r EXCEPT !.socket = w]]
                                 /\ ws' = [ws EXCEPT ![w] = Connecting(s.adapter)]
        BY <2>1, <2>3 DEF Open
      <3>2. /\ ad'[s.adapter] = [r EXCEPT !.socket = w]
            /\ \A a \in Adapters : a # s.adapter => ad'[a] = ad[a]
        BY <1>a, <3>1
      <3>3. Opens(s.adapter, w) BY <1>w, <2>3, <3>1, <3>2, ZenonT(60) DEF Opens, Keeps
      <3>4. \A a \in Adapters : /\ Same(ad[a], ad'[a])
                                /\ ad'[a].socketState = "authenticated" =>
                                     ad[a].socketState = "authenticated"
        <4>1. /\ Same(r, ad'[s.adapter]) /\ ad'[s.adapter].socketState = r.socketState
          BY <1>w, <3>2
        <4>2. Same(ad[s.adapter], r)
              /\ (r.socketState = "authenticated" => ad[s.adapter].socketState = "authenticated")
          BY DEF Keeps
        <4>3. Same(ad[s.adapter], ad'[s.adapter]) BY <4>1, <4>2 DEF Same
        <4> QED BY <1>k, <3>2, <4>1, <4>2, <4>3 DEF Keeps
      <3>5. Quiet /\ Lively BY <1>a, <3>3, <3>4, OpenedCalm
      <3> QED BY <1>a, <1>1, <3>1, <3>3, <3>5 DEF OpensFor
    <2> QED BY <2>2, <2>3
  <1>2. CASE s.by = "test"
    <2> DEFINE b == testSocket
               now == [ad EXCEPT ![s.adapter] = r]
               opens == b # None /\ now[b].socket = None
    <2>1. IF opens
          THEN \E w \in Sockets :
                 /\ ws[w] = ClosedSocket
                 /\ ad' = [now EXCEPT ![b].socket = w]
                 /\ ws' = [ws EXCEPT ![w] = Connecting(b)]
          ELSE ad' = now /\ ws' = ws
      BY <1>2 DEF Continue
    <2>2. CASE ~opens BY <1>a, <2>1, <2>2, AdapterKeeps
    <2>3. CASE opens
      <3>1. PICK w \in Sockets : /\ ws[w] = ClosedSocket
                                 /\ ad' = [now EXCEPT ![b] = [now[b] EXCEPT !.socket = w]]
                                 /\ ws' = [ws EXCEPT ![w] = Connecting(b)]
        BY <2>1, <2>3
      <3>2. b \in Adapters BY <1>a, <2>3
      <3>3. now \in [Adapters -> Adapter] /\ \A a \in Adapters : Keeps(ad[a], now[a])
        BY <1>a, <1>k
      <3>4. now[b].socket = None BY <2>3
      <3> HIDE DEF now
      <3>5. /\ ad'[b] = [now[b] EXCEPT !.socket = w]
            /\ \A a \in Adapters : a # b => ad'[a] = now[a]
        BY <3>1, <3>2, <3>3
      <3>6. Opens(b, w) BY <1>w, <3>1, <3>2, <3>3, <3>4, <3>5 DEF Opens, Keeps
      <3>7. \A a \in Adapters : /\ Same(ad[a], ad'[a])
                                /\ ad'[a].socketState = "authenticated" =>
                                     ad[a].socketState = "authenticated"
        <4>1. Same(now[b], ad'[b]) /\ ad'[b].socketState = now[b].socketState
          BY <1>w, <3>2, <3>3, <3>5
        <4>2. \A a \in Adapters :
                Same(ad[a], now[a])
                /\ (now[a].socketState = "authenticated" => ad[a].socketState = "authenticated")
          BY <3>3 DEF Keeps
        <4>3. Same(ad[b], ad'[b]) BY <3>2, <4>1, <4>2 DEF Same
        <4> QED BY <3>2, <3>5, <4>1, <4>2, <4>3
      <3> QED BY <1>2, <3>2, <3>6, <3>7, OpenedCalm DEF OpensFor
    <2> QED BY <2>2, <2>3
  <1>3. CASE s.by \notin {"task", "test"} BY <1>a, <1>3, AdapterKeeps DEF Continue
  <1> QED BY <1>1, <1>2, <1>3

LEMMA ObjectsCalm ==
  ASSUME Shape, NEW s \in BagToSet(calls), ObjectsAnswered(s)
  PROVE  Quiet /\ Told /\ Lively /\ ((Fading /\ Dropping) \/ OpensFor(s))
  <1>s. s \in Call /\ s.adapter \in Adapters /\ s.seen \subseteq Klippy
        /\ ad[s.adapter] \in Adapter
    BY DEF Shape, TypeOK, CallsOK, Call
  <1> DEFINE R(answer) == IF answer = "failed" THEN ad[s.adapter]
                          ELSE Shown(ad[s.adapter], answer)
             after(answer) == IF s.by = "interval" THEN R(answer) ELSE ArmInterval(R(answer))
  <1>1. PICK answer \in s.seen \cup {"failed"} :
          /\ cache' = cache \/ cache' = EmitCurrent(R(answer))
          /\ Continue(s, after(answer))
    BY DEF ObjectsAnswered
  <1>2. R(answer) \in Adapter /\ Keeps(ad[s.adapter], R(answer))
    BY <1>s, AdapterOps, KeepingOps
  <1> HIDE DEF R
  <1>3. after(answer) \in Adapter /\ Keeps(R(answer), after(answer))
    BY <1>2, AdapterOps, KeepingOps
  <1>4. Keeps(ad[s.adapter], after(answer)) BY <1>2, <1>3, KeepsTwice
  <1>5. Told BY <1>s, <1>1, <1>2, CacheStays, EmitTells DEF Keeps
  <1> HIDE DEF after
  <1>6. Quiet /\ Lively /\ ((Fading /\ Dropping) \/ OpensFor(s))
    BY <1>s, <1>1, <1>3, <1>4, ContinueCalm
  <1> QED BY <1>5, <1>6

\* The other answers open nothing.
LEMMA AnsweredCalm ==
  ASSUME Shape, NEW s \in BagToSet(calls),
         VersionAnswered(s) \/ SubscribeAnswered(s) \/ SubscribeFailed(s)
  PROVE  Calm
  <1>s. s \in Call /\ s.adapter \in Adapters /\ ad[s.adapter] \in Adapter
    BY DEF Shape, TypeOK, CallsOK, Call
  <1>1. CASE VersionAnswered(s) /\ Rejected(s)
    <2>1. CASE s.by = "test" BY <1>1, <2>1, FinallyCalm DEF Rejected
    <2>2. CASE s.by # "test" BY <1>1, <2>2, NothingMoves, CacheStays DEF Rejected, Calm
    <2> QED BY <2>1, <2>2
  <1>2. CASE VersionAnswered(s) /\ ~Rejected(s)
    BY <1>2, NothingMoves, CacheStays DEF VersionAnswered, Calm
  <1>3. CASE SubscribeAnswered(s)
    <2>1. CASE "ready" \in s.seen
      <3>1. Keeps(ad[s.adapter], Shown(ad[s.adapter], "ready")) BY <1>s, KeepingOps
      <3>2. /\ ad' = [ad EXCEPT ![s.adapter] = Shown(ad[s.adapter], "ready")]
            /\ ws' = ws /\ cache' = EmitCurrent(ad'[s.adapter])
        BY <1>3, <2>1 DEF SubscribeAnswered
      <3>3. ad'[s.adapter] = Shown(ad[s.adapter], "ready") BY <1>s, <3>2 DEF Shape, TypeOK
      <3>4. Told BY <1>s, <3>1, <3>2, <3>3, EmitTells DEF Keeps
      <3> QED BY <1>s, <3>1, <3>2, <3>4, AdapterKeeps DEF Calm
    <2>2. CASE "ready" \notin s.seen
      BY <1>3, <2>2, NothingMoves, CacheStays DEF SubscribeAnswered, Calm
    <2> QED BY <2>1, <2>2
  <1>4. CASE SubscribeFailed(s) BY <1>4, NothingMoves, CacheStays DEF SubscribeFailed, Calm
  <1> QED BY <1>1, <1>2, <1>3, <1>4

LEMMA RestCalm ==
  ASSUME Shape,
         \/ ReconnectTick \/ KlippyChanges \/ UNCHANGED vars
         \/ \E a \in Adapters : RefreshTick(a) \/ RequestTimeout(a)
         \/ \E t \in Tests : TestPolled(t) \/ TestTimeout(t)
  PROVE  Calm
  <1>1. CASE ReconnectTick \/ UNCHANGED vars
    BY <1>1, NothingMoves, CacheStays DEF ReconnectTick, vars, Calm
  <1>2. CASE KlippyChanges
    <2>1. ad' = ad /\ cache' = cache /\ ws \in [Sockets -> Websocket]
          /\ \A w \in Sockets :
               ws'[w] = IF Delivers(ws[w]) THEN [ws[w] EXCEPT !.news = @ + 1] ELSE ws[w]
      BY <1>2 DEF KlippyChanges, Shape, TypeOK
    <2>2. \A w \in Sockets : ws'[w].owner = ws[w].owner /\ ws'[w].readyState = ws[w].readyState
      BY <2>1 DEF Websocket
    <2> QED BY <2>1, <2>2, CacheStays
            DEF Calm, Quiet, Same, Fading, Dropping, Lively, Delivers
  <1>3. ASSUME NEW a \in Adapters, RefreshTick(a)
        PROVE  Calm
    BY <1>3, NothingMoves, CacheStays DEF RefreshTick, Calm
  <1>4. ASSUME NEW a \in Adapters, RequestTimeout(a)
        PROVE  Calm
    <2>1. ad[a] \in Adapter BY DEF Shape, TypeOK
    <2>2. Keeps(ad[a], TimedOut(ad[a])) BY <2>1, KeepingOps
    <2> QED BY <1>4, <2>2, AdapterKeeps, CacheStays DEF RequestTimeout, Calm
  <1>5. ASSUME NEW t \in Tests, TestPolled(t) \/ TestTimeout(t)
        PROVE  Calm
    BY <1>5, FinallyCalm DEF TestPolled, TestTimeout
  <1> QED BY <1>1, <1>2, <1>3, <1>4, <1>5

\* An adapter registers: the others do nothing they do not do in a calm step.
Registers(a, id) ==
  /\ ad[a].printerId = None /\ ad'[a].printerId = id
  /\ ad'[a].socketState = "unopened" /\ ad'[a].socket = None
  /\ ~ad'[a].refreshPrinterObjectsInterval
  /\ \A b \in Adapters \ {a} :
       /\ Same(ad[b], ad'[b])
       /\ ad'[b].socketState = "authenticated" => ad[b].socketState = "authenticated"
       /\ ad'[b].refreshPrinterObjectsInterval => ad[b].refreshPrinterObjectsInterval
  /\ cache' = cache /\ Fading
  /\ \A w \in Sockets : Delivers(ws[w]) => Delivers(ws'[w]) /\ ws'[w].owner = ws[w].owner

LEMMA RegistersLively ==
  ASSUME NEW a \in Adapters, NEW id, Registers(a, id)
  PROVE  Lively
  BY DEF Registers, Lively

LEMMA CreatedRegisters ==
  ASSUME Shape, NEW p \in Printers, PrinterCreated(p)
  PROVE  \E a \in Adapters : /\ Registers(a, p) /\ store' = [store EXCEPT ![p] = a]
                             /\ \A b \in Adapters \ {a} : ad'[b] = ad[b]
  <1>1. PICK a \in FreshAdapter :
          /\ store' = [store EXCEPT ![p] = a]
          /\ ad' = [ad EXCEPT ![a] = ResetSocketState(RegisterCredentials(NewAdapter, p))]
          /\ UNCHANGED <<ws, cache>>
    BY DEF PrinterCreated
  <1>2. a \in Adapters /\ ad[a].printerId = None /\ ad \in [Adapters -> Adapter]
    BY <1>1 DEF FreshAdapter, Shape, TypeOK
  <1>3. /\ ad'[a] = ResetSocketState(RegisterCredentials(NewAdapter, p))
        /\ \A b \in Adapters \ {a} : ad'[b] = ad[b]
    BY <1>1, <1>2
  <1>4. Registers(a, p)
    BY <1>1, <1>2, <1>3 DEF Registers, ResetSocketState, SetSocketState, RegisterCredentials,
       NewAdapter, Same, Fading
  <1> QED BY <1>1, <1>2, <1>3, <1>4

\* The websockets of a test socket that is closed.
LEMMA ShutFades ==
  ASSUME Shape, NEW b \in Adapters, ws' = SocketsShut(b)
  PROVE  /\ Fading
         /\ \A w \in Sockets : Delivers(ws[w]) => Delivers(ws'[w]) /\ ws'[w].owner = ws[w].owner
  <1> SUFFICES ASSUME NEW w \in Sockets
               PROVE  /\ ws'[w].owner \in {ws[w].owner, None}
                      /\ ws'[w].readyState \in Up =>
                           ws[w].readyState \in Up /\ ws'[w].owner = ws[w].owner
                      /\ Delivers(ws[w]) => Delivers(ws'[w]) /\ ws'[w].owner = ws[w].owner
    BY DEF Fading
  <1>1. ws[w] \in Websocket /\ ws'[w] = IF ad[b].socket = w THEN Shut(ws[w]) ELSE ws[w]
    BY DEF SocketsShut, Shape, TypeOK
  <1>2. CASE ws[w].readyState = "connecting"
    BY <1>1, <1>2 DEF Shut, ClosedSocket, Up, Delivers
  <1>3. CASE ws[w].readyState = "open"
    <2>1. Shut(ws[w]) = [ws[w] EXCEPT !.readyState = "closing"] BY <1>3 DEF Shut
    <2>2. Shut(ws[w]).owner = ws[w].owner /\ Shut(ws[w]).readyState = "closing"
      BY <1>1, <2>1 DEF Websocket
    <2> QED BY <1>1, <1>3, <2>2 DEF Up, Delivers
  <1>4. CASE ws[w].readyState \notin {"connecting", "open"}
    BY <1>1, <1>4 DEF Shut, Up, Delivers
  <1> QED BY <1>2, <1>3, <1>4

LEMMA StartedRegisters ==
  ASSUME Shape, NEW t \in Tests, TestStarted(t)
  PROVE  \E a \in Adapters : /\ Registers(a, t) /\ testSocket' = a
                             /\ calls' = calls (+) NewCall(a, "test", "version")
  <1> DEFINE closed == IF testSocket = None THEN ad
                       ELSE [ad EXCEPT ![testSocket] = Close(@, IsConnecting(testSocket))]
  <1>1. PICK a \in FreshAdapter :
          /\ ad' = [closed EXCEPT ![a] = RegisterCredentials(NewAdapter, t)]
          /\ ws' = IF testSocket = None THEN ws ELSE SocketsShut(testSocket)
          /\ testSocket' = a /\ cache' = cache
          /\ calls' = calls (+) NewCall(a, "test", "version")
    BY DEF TestStarted
  <1>2. a \in Adapters /\ ad[a].printerId = None BY <1>1 DEF FreshAdapter
  <1>s. /\ ad \in [Adapters -> Adapter] /\ ws \in [Sockets -> Websocket]
        /\ testSocket \in Adapters \cup {None}
    BY DEF Shape, TypeOK
  <1>3. /\ DOMAIN closed = Adapters
        /\ \A b \in Adapters :
             /\ Same(ad[b], closed[b])
             /\ closed[b].socketState = "authenticated" => ad[b].socketState = "authenticated"
             /\ closed[b].refreshPrinterObjectsInterval => ad[b].refreshPrinterObjectsInterval
    <2>1. CASE testSocket = None BY <1>s, <2>1 DEF Same
    <2>2. CASE testSocket # None
      <3>1. testSocket \in Adapters /\ ad[testSocket] \in Adapter BY <1>s, <2>2
      <3> DEFINE x == Close(ad[testSocket], IsConnecting(testSocket))
      <3>2. Lets(ad[testSocket], x) /\ ~x.refreshPrinterObjectsInterval
        <4>1. ~x.refreshPrinterObjectsInterval BY <3>1 DEF Close, Adapter
        <4> QED BY <3>1, <4>1, LettingOps
      <3>3. closed = [ad EXCEPT ![testSocket] = x] BY <2>2
      <3> HIDE DEF x, closed
      <3> QED BY <1>s, <3>1, <3>2, <3>3 DEF Lets, Same
    <2> QED BY <2>1, <2>2
  <1> HIDE DEF closed
  <1>4. ad'[a] = RegisterCredentials(NewAdapter, t) /\ \A b \in Adapters \ {a} : ad'[b] = closed[b]
    BY <1>1, <1>2, <1>3
  <1>5. /\ Fading
        /\ \A w \in Sockets : Delivers(ws[w]) => Delivers(ws'[w]) /\ ws'[w].owner = ws[w].owner
    <2>1. CASE testSocket = None BY <1>1, <2>1 DEF Fading
    <2>2. CASE testSocket # None BY <1>1, <1>s, <2>2, ShutFades
    <2> QED BY <2>1, <2>2
  <1>6. /\ ad'[a].printerId = t /\ ad'[a].socketState = "unopened" /\ ad'[a].socket = None
        /\ ~ad'[a].refreshPrinterObjectsInterval
    BY <1>4 DEF RegisterCredentials, NewAdapter
  <1>7. Registers(a, t) BY <1>1, <1>2, <1>3, <1>4, <1>5, <1>6 DEF Registers
  <1> QED BY <1>1, <1>2, <1>7

LEMMA NextLively ==
  ASSUME Shape, [Next]_vars
  PROVE  Lively
  <1>1. ASSUME NEW p \in Printers, PrinterCreated(p)
        PROVE  Lively
    BY <1>1, CreatedRegisters, RegistersLively
  <1>2. ASSUME NEW t \in Tests, TestStarted(t)
        PROVE  Lively
    BY <1>2, StartedRegisters, RegistersLively
  <1>3. ASSUME NEW s \in BagToSet(calls), Answered(s)
        PROVE  Lively
    BY <1>3, AnsweredCalm, ObjectsCalm DEF Answered, Calm
  <1>4. ASSUME NEW w \in Sockets, WsStepOf(w)
        PROVE  Lively
    BY <1>4, WsCalm DEF Calm
  <1>5. ASSUME UserStep
        PROVE  Lively
    BY <1>1, <1>5, UserCalm DEF UserStep, Calm
  <1>6. ASSUME ReconnectTick \/ AdapterStep \/ KlippyChanges \/ UNCHANGED vars
        PROVE  Lively
    BY <1>6, RestCalm DEF AdapterStep, Calm
  <1>7. ASSUME TestStep
        PROVE  Lively
    BY <1>2, <1>7, RestCalm DEF TestStep, Calm
  <1> QED BY <1>3, <1>4, <1>5, <1>6, <1>7 DEF Next, WsStep, WsStepOf

LEMMA LivelyKeepsLive ==
  ASSUME Shape, Shape', AuthenticatedIsLive, Lively
  PROVE  AuthenticatedIsLive'
  <1> SUFFICES ASSUME NEW a \in Adapters, ad'[a].socketState = "authenticated"
               PROVE  \E w \in Sockets : ws'[w].owner = a /\ Delivers(ws'[w])
    BY DEF AuthenticatedIsLive
  <1>1. CASE ad[a].socketState = "authenticated"
    <2>1. PICK w \in Sockets : ws[w].owner = a /\ Delivers(ws[w])
      BY <1>1 DEF AuthenticatedIsLive
    <2>2. Delivers(ws'[w]) /\ ws'[w].owner = a BY <2>1 DEF Lively
    <2> QED BY <2>1, <2>2
  <1>2. CASE ad[a].socketState # "authenticated" BY <1>2 DEF Lively
  <1> QED BY <1>1, <1>2

\* Whichever of its websockets spoke or closed last, an adapter that says it is
\* authenticated has one that can bring it messages: onEventMessage runs on one that
\* can, afterClosed follows the end of any.
THEOREM AuthenticatedMeansLive == Spec => []AuthenticatedIsLive
  <1>1. Init => AuthenticatedIsLive BY DEF Init, AuthenticatedIsLive, NewAdapter
  <1>2. Shape /\ Shape' /\ AuthenticatedIsLive /\ [Next]_vars => AuthenticatedIsLive'
    BY NextLively, LivelyKeepsLive
  <1> QED BY <1>1, <1>2, MoonrakerShaped, PTL DEF Spec

---------------------------------------------------------------------------
(* A printer that is gone is silent                                        *)

\* No printer and no socket of the printer socket store changes.
StoreStays == printers' = printers /\ store' = store

\* The steps by what they mean for printers.
Steady == Quiet /\ Told /\ StoreStays

LEMMA NextSteady ==
  ASSUME Shape, [Next]_vars,
         ~\E p \in Printers : PrinterCreated(p) \/ PrinterDisabled(p) \/ PrintersDeleted(p),
         ~\E t \in Tests : TestStarted(t)
  PROVE  Steady
  <1>1. ASSUME NEW p \in Printers, SocketReset(p)
        PROVE  Steady
    BY <1>1, UserCalm DEF SocketReset, Calm, Steady, StoreStays
  <1>2. ASSUME NEW t \in Tests, TestPolled(t) \/ TestTimeout(t)
        PROVE  Steady
    BY <1>2, RestCalm DEF TestPolled, TestTimeout, Calm, Steady, StoreStays
  <1>3. ASSUME NEW s \in BagToSet(calls), Answered(s)
        PROVE  Steady
    <2>1. StoreStays
      BY <1>3 DEF Answered, VersionAnswered, Rejected, ObjectsAnswered, SubscribeAnswered,
                  SubscribeFailed, StoreStays
    <2> QED BY <1>3, <2>1, AnsweredCalm, ObjectsCalm DEF Answered, Calm, Steady
  <1>4. ASSUME NEW w \in Sockets, WsStepOf(w)
        PROVE  Steady
    <2>1. StoreStays
      BY <1>4 DEF WsStepOf, WsOpened, IdentifyAnswered, WsKlippyNews, WsStatusUpdate,
                  WsOtherEvent, WsConnectFailed, WsFailed, WsClosed, Handled, StoreStays
    <2> QED BY <1>4, <2>1, WsCalm DEF Calm, Steady
  <1>5. ASSUME ReconnectTick \/ AdapterStep \/ KlippyChanges \/ UNCHANGED vars
        PROVE  Steady
    <2>1. StoreStays
      BY <1>5 DEF ReconnectTick, AdapterStep, RefreshTick, RequestTimeout, KlippyChanges, vars,
                  StoreStays
    <2> QED BY <1>5, <2>1, RestCalm DEF AdapterStep, Calm, Steady
  <1> QED BY <1>1, <1>2, <1>3, <1>4, <1>5 DEF Next, UserStep, WsStep, WsStepOf, TestStep

LEMMA SteadySilences ==
  ASSUME Shape, Silenced, PurgedIsSilent, Steady
  PROVE  Silenced' /\ PurgedIsSilent'
  <1>1. Silenced' BY DEF Steady, Quiet, Same, StoreStays, Silenced, Shape, TypeOK
  <1>2. ASSUME NEW p \in Printers, printers'[p] = "deleted"
        PROVE  cache'[p] = None
    <2>1. printers[p] = "deleted" /\ cache[p] = None /\ p \in Ids
      BY <1>2 DEF Steady, StoreStays, PurgedIsSilent, Ids
    <2>2. ASSUME NEW a \in Adapters, ad[a].printerId = p, ad[a].eventEmittingAllowed
          PROVE  FALSE
      <3>1. store[p] = a /\ a # None BY <2>2, IdsAreDistinct DEF Silenced
      <3> QED BY <2>1, <3>1 DEF Silenced
    <2> QED BY <2>1, <2>2 DEF Steady, Told
  <1> QED BY <1>1, <1>2 DEF PurgedIsSilent

\* A printer that is deleted or disabled loses its adapter, which is silent from then on.
LEMMA DeletionSilences ==
  ASSUME Shape, Silenced, PurgedIsSilent, NEW p \in Printers,
         PrinterDisabled(p) \/ PrintersDeleted(p)
  PROVE  Silenced' /\ PurgedIsSilent'
  <1>1. Quiet BY UserCalm DEF Calm
  <1>2. /\ store' = [store EXCEPT ![p] = None]
        /\ \/ printers' = [printers EXCEPT ![p] = "disabled"] /\ cache' = cache
              /\ printers[p] = "enabled"
           \/ printers' = [printers EXCEPT ![p] = "deleted"] /\ cache' = DeleteKeyValue(p)
    BY DEF PrinterDisabled, PrintersDeleted, DeleteSocket
  <1>s. /\ store \in [Printers -> Adapters \cup {None}] /\ ad \in [Adapters -> Adapter]
        /\ printers \in [Printers -> {"new", "disabled", "enabled", "deleted"}]
        /\ cache \in [Ids -> Klippy \cup {None}]
    BY DEF Shape, TypeOK
  <1>3. ASSUME store[p] # None
        PROVE  ~ad'[store[p]].eventEmittingAllowed
    <2>1. store[p] \in Adapters /\ ad[store[p]] \in Adapter BY <1>3, <1>s
    <2>2. ad' = [ad EXCEPT ![store[p]] = Purge(ad[store[p]], IsConnecting(store[p]))]
      BY <1>3 DEF PrinterDisabled, PrintersDeleted, DeleteSocket
    <2> QED BY <1>s, <2>1, <2>2, LettingOps
  <1>4. ASSUME NEW q \in Printers, NEW a \in Adapters, ad'[a].printerId = q,
               ad'[a].eventEmittingAllowed
        PROVE  store'[q] = a
    <2>1. ad[a].printerId = q /\ ad[a].eventEmittingAllowed BY <1>1, <1>4 DEF Quiet, Same
    <2>2. store[q] = a /\ a # None BY <2>1, IdsAreDistinct DEF Silenced
    <2>3. q # p BY <1>3, <1>4, <2>2
    <2> QED BY <1>2, <1>s, <2>2, <2>3
  <1>5. ASSUME NEW q \in Printers, store'[q] # None
        PROVE  printers'[q] = "enabled" /\ ad'[store'[q]].printerId = q
    <2>1. q # p /\ store'[q] = store[q] /\ printers'[q] = printers[q] BY <1>2, <1>5, <1>s
    <2>2. printers[q] = "enabled" /\ ad[store[q]].printerId = q /\ store[q] \in Adapters
      BY <1>5, <1>s, <2>1 DEF Silenced
    <2> QED BY <1>1, <2>1, <2>2 DEF Quiet, Same
  <1>6. PurgedIsSilent' BY <1>2, <1>s DEF PurgedIsSilent, DeleteKeyValue, Ids
  <1> QED BY <1>4, <1>5, <1>6 DEF Silenced

\* A new adapter is the only one of its printer that may speak.
LEMMA CreationSilences ==
  ASSUME Shape, Silenced, PurgedIsSilent, NEW p \in Printers, PrinterCreated(p)
  PROVE  Silenced' /\ PurgedIsSilent'
  <1>1. PICK a \in Adapters : Registers(a, p) /\ store' = [store EXCEPT ![p] = a]
    BY CreatedRegisters
  <1>2. /\ printers' = [printers EXCEPT ![p] = "enabled"] /\ printers[p] \in {"new", "disabled"}
        /\ cache' = cache
    BY DEF PrinterCreated
  <1>s. /\ store \in [Printers -> Adapters \cup {None}]
        /\ printers \in [Printers -> {"new", "disabled", "enabled", "deleted"}]
    BY DEF Shape, TypeOK
  <1>3. store[p] = None BY <1>2 DEF Silenced
  <1>4. ASSUME NEW q \in Printers, NEW b \in Adapters, ad'[b].printerId = q,
               ad'[b].eventEmittingAllowed
        PROVE  store'[q] = b
    <2>1. CASE b = a BY <1>1, <1>4, <1>s, <2>1 DEF Registers
    <2>2. CASE b # a
      <3>1. ad[b].printerId = q /\ ad[b].eventEmittingAllowed
        BY <1>1, <1>4, <2>2 DEF Registers, Same
      <3>2. store[q] = b /\ b # None BY <3>1, IdsAreDistinct DEF Silenced
      <3> QED BY <1>1, <1>3, <1>s, <3>2
    <2> QED BY <2>1, <2>2
  <1>5. ASSUME NEW q \in Printers, store'[q] # None
        PROVE  printers'[q] = "enabled" /\ ad'[store'[q]].printerId = q
    <2>1. CASE q = p BY <1>1, <1>2, <1>s, <2>1 DEF Registers
    <2>2. CASE q # p
      <3>1. store[q] \in Adapters /\ ad[store[q]].printerId = q /\ printers[q] = "enabled"
            /\ store'[q] = store[q] /\ printers'[q] = printers[q]
        BY <1>1, <1>2, <1>5, <1>s, <2>2 DEF Silenced
      <3>2. store[q] # a BY <1>1, <3>1, IdsAreDistinct DEF Registers
      <3> QED BY <1>1, <3>1, <3>2 DEF Registers, Same
    <2> QED BY <2>1, <2>2
  <1>6. PurgedIsSilent' BY <1>2, <1>s DEF PurgedIsSilent
  <1> QED BY <1>4, <1>5, <1>6 DEF Silenced

LEMMA TestsSilence ==
  ASSUME Shape, Silenced, PurgedIsSilent, NEW t \in Tests, TestStarted(t)
  PROVE  Silenced' /\ PurgedIsSilent'
  <1>1. PICK a \in Adapters : Registers(a, t) BY StartedRegisters
  <1>2. UNCHANGED <<printers, store, cache>> BY DEF TestStarted
  <1>s. store \in [Printers -> Adapters \cup {None}] BY DEF Shape, TypeOK
  <1>3. ASSUME NEW q \in Printers, NEW b \in Adapters, ad'[b].printerId = q,
               ad'[b].eventEmittingAllowed
        PROVE  store'[q] = b
    <2>1. b # a BY <1>1, <1>3, IdsAreDistinct DEF Registers
    <2> QED BY <1>1, <1>2, <1>3, <2>1 DEF Registers, Same, Silenced
  <1>4. ASSUME NEW q \in Printers, store'[q] # None
        PROVE  printers'[q] = "enabled" /\ ad'[store'[q]].printerId = q
    <2>1. store[q] \in Adapters /\ ad[store[q]].printerId = q /\ printers[q] = "enabled"
      BY <1>2, <1>4, <1>s DEF Silenced
    <2>2. store[q] # a BY <1>1, <2>1, IdsAreDistinct DEF Registers
    <2> QED BY <1>1, <1>2, <2>1, <2>2 DEF Registers, Same
  <1> QED BY <1>2, <1>3, <1>4 DEF Silenced, PurgedIsSilent

LEMMA NextSilences ==
  ASSUME Shape, Silenced, PurgedIsSilent, [Next]_vars
  PROVE  Silenced' /\ PurgedIsSilent'
  BY NextSteady, SteadySilences, DeletionSilences, CreationSilences, TestsSilence

\* An adapter that may still emit events is its printer's adapter in the printer
\* socket store, and only enabled printers have one.
THEOREM MoonrakerSilenced == Spec => [](Silenced /\ PurgedIsSilent)
  <1>1. Init => Silenced /\ PurgedIsSilent
    BY IdsAreDistinct DEF Init, Silenced, PurgedIsSilent, NewAdapter
  <1>2. Shape /\ (Silenced /\ PurgedIsSilent) /\ [Next]_vars => (Silenced /\ PurgedIsSilent)'
    BY NextSilences
  <1> QED BY <1>1, <1>2, MoonrakerShaped, PTL DEF Spec

\* No set-up, refresh, subscription or message that was on its way when a printer was
\* deleted brings its state back into the events cache: purge silences the adapter
\* for good, and a printer has at most one adapter that may speak.
THEOREM PurgedStaysSilent == Spec => []PurgedIsSilent
  <1> QED BY MoonrakerSilenced, PTL

---------------------------------------------------------------------------
(* The requests of tests                                                   *)

\* Neither the task nor a test asks what it did not ask before.
AsksNoNew == \A c \in BagToSet(calls') : c.by \in {"task", "test"} =>
  \E d \in BagToSet(calls) : d.by = c.by /\ d.adapter = c.adapter

LEMMA CallsStay ==
  ASSUME calls' = calls
  PROVE  AsksNoNew /\ (Once => Once')
  BY DEF AsksNoNew, Once

LEMMA WithoutAsks ==
  ASSUME CallsOK, NEW s, calls' = Without(s)
  PROVE  /\ AsksNoNew /\ (Once => Once')
         /\ BagToSet(calls') \subseteq BagToSet(calls)
         /\ Once /\ s \in BagToSet(calls) /\ s.by = "test" => s \notin BagToSet(calls')
  <1>1. BagToSet(calls') \subseteq BagToSet(calls) BY WithoutFacts
  <1>2. ASSUME Once, s \in BagToSet(calls), s.by = "test"
        PROVE  s \notin BagToSet(calls')
    BY <1>2, WithoutFacts DEF Once
  <1>3. ASSUME Once
        PROVE  Once'
    <2>1. \A c \in BagToSet(calls') : c # s => calls'[c] = calls[c] BY WithoutFacts
    <2>2. \A c \in BagToSet(calls') : c.by = "test" => c # s BY <1>1, <1>2, <1>3
    <2> QED BY <1>1, <1>3, <2>1, <2>2 DEF Once
  <1> QED BY <1>1, <1>2, <1>3 DEF AsksNoNew

\* An event, the interval or a subscription asks.
LEMMA AddedAsks ==
  ASSUME CallsOK, NEW a \in Adapters, NEW by \in {"event", "interval", "subscribe"},
         NEW pc \in {"version", "objects"}, klippy \in Klippy,
         calls' = calls (+) NewCall(a, by, pc)
  PROVE  AsksNoNew /\ (Once => Once')
  <1> DEFINE c == [adapter |-> a, by |-> by, pc |-> pc,
                   seen |-> IF pc = "objects" THEN {klippy} ELSE {}]
  <1>1. NewCall(a, by, pc) = SetToBag({c}) /\ c.by \notin {"task", "test"}
    BY NewCallShaped DEF Callers
  <1> HIDE DEF c
  <1>2. /\ BagToSet(calls') = BagToSet(calls) \cup {c}
        /\ \A d \in BagToSet(calls) \ {c} : calls'[d] = calls[d]
    BY <1>1, AddedFacts DEF CallsOK
  <1>3. Once => Once' BY <1>1, <1>2 DEF Once
  <1> QED BY <1>1, <1>2, <1>3 DEF AsksNoNew

\* A set-up that has the version asks for the objects.
LEMMA MovedAsks ==
  ASSUME CallsOK, NEW s \in BagToSet(calls), klippy \in Klippy,
         calls' = Without(s) (+) NewCall(s.adapter, s.by, "objects")
  PROVE  AsksNoNew /\ (Once => Once')
  <1>s. s \in Call /\ s.adapter \in Adapters /\ s.by \in Callers BY DEF CallsOK, Call
  <1> DEFINE c == [adapter |-> s.adapter, by |-> s.by, pc |-> "objects",
                   seen |-> IF "objects" = "objects" THEN {klippy} ELSE {}]
  <1>1. NewCall(s.adapter, s.by, "objects") = SetToBag({c}) /\ c.by = s.by /\ c.adapter = s.adapter
    BY <1>s, NewCallShaped
  <1> HIDE DEF c
  <1>2. /\ IsABag(Without(s)) /\ BagToSet(Without(s)) \subseteq BagToSet(calls)
        /\ \A d \in BagToSet(Without(s)) : d # s => Without(s)[d] = calls[d]
        /\ calls[s] = 1 => s \notin BagToSet(Without(s))
    BY WithoutFacts
  <1>3. /\ BagToSet(calls') = BagToSet(Without(s)) \cup {c}
        /\ \A d \in BagToSet(Without(s)) \ {c} : calls'[d] = Without(s)[d]
        /\ c \notin BagToSet(Without(s)) => calls'[c] = 1
    BY <1>1, <1>2, AddedFacts
  <1>4. ASSUME Once
        PROVE  Once'
    <2>1. CASE s.by = "test"
      <3>1. s \notin BagToSet(Without(s)) BY <1>2, <1>4, <2>1 DEF Once
      <3>2. \A d \in BagToSet(Without(s)) : d.by = "test" => d.adapter # s.adapter
        BY <1>2, <1>4, <2>1, <3>1 DEF Once
      <3>3. c \notin BagToSet(Without(s)) BY <1>1, <2>1, <3>2
      <3>4. \A d \in BagToSet(Without(s)) : d.by = "test" => calls'[d] = 1
        BY <1>2, <1>3, <1>4, <3>1, <3>3 DEF Once
      <3> QED BY <1>1, <1>2, <1>3, <1>4, <3>2, <3>3, <3>4 DEF Once
    <2>2. CASE s.by # "test"
      <3>1. \A d \in BagToSet(calls') : d.by = "test" =>
              d \in BagToSet(calls) /\ calls'[d] = calls[d]
        BY <1>1, <1>2, <1>3, <2>2
      <3> QED BY <1>4, <3>1 DEF Once
    <2> QED BY <2>1, <2>2
  <1> QED BY <1>1, <1>2, <1>3, <1>4 DEF AsksNoNew

LEMMA KlippyAsks ==
  ASSUME Shape, KlippyChanges
  PROVE  AsksNoNew /\ (Once => Once')
  <1>1. /\ BagToSet(calls') = {Overtaken(d) : d \in BagToSet(calls)}
        /\ \A c \in BagToSet(calls') :
             calls'[c] = Copies(c) + IF c.pc = "objects"
                                     THEN Copies([c EXCEPT !.seen = {klippy}]) ELSE 0
    BY OvertakenFacts
  <1>2. ASSUME NEW d \in BagToSet(calls)
        PROVE  /\ Overtaken(d).by = d.by /\ Overtaken(d).adapter = d.adapter
               /\ Overtaken(d).pc = d.pc
               /\ d.pc # "objects" => Overtaken(d) = d
               /\ d.pc = "objects" => Overtaken(d) = [d EXCEPT !.seen = Klippy]
                                      /\ d.seen \in {{klippy}, Klippy}
    BY DEF Overtaken, Shape, CallsOK, Call
  <1>3. ASSUME Once
        PROVE  Once'
    <2>1. ASSUME NEW c \in BagToSet(calls'), c.by = "test"
          PROVE  /\ calls'[c] = 1
                 /\ \A e \in BagToSet(calls') : e.by = "test" /\ e.adapter = c.adapter => e = c
      <3>1. PICK d \in BagToSet(calls) : c = Overtaken(d) BY <1>1
      <3>2. d.by = "test" /\ d.adapter = c.adapter /\ d.pc = c.pc /\ calls[d] = 1
            /\ d \in Call
        BY <1>2, <1>3, <2>1, <3>1 DEF Once, Shape, CallsOK
      <3>3. \A e \in BagToSet(calls') : e.by = "test" /\ e.adapter = c.adapter => e = c
        BY <1>1, <1>2, <1>3, <3>1, <3>2 DEF Once
      <3>4. \A x \in Call : x.by = "test" /\ x.adapter = d.adapter =>
              Copies(x) = IF x = d THEN 1 ELSE 0
        BY <1>3, <3>2 DEF Once, Copies
      <3>5. CASE d.pc # "objects"
        <4>1. c = d BY <1>2, <3>1, <3>5
        <4>2. calls'[c] = Copies(c) + 0 /\ Copies(c) = 1 BY <1>1, <3>2, <3>4, <3>5, <4>1
        <4> QED BY <3>3, <4>2
      <3>6. CASE d.pc = "objects"
        <4>1. c = [d EXCEPT !.seen = Klippy] /\ d.seen \in {{klippy}, Klippy}
          BY <1>2, <3>1, <3>6
        <4> DEFINE x == [c EXCEPT !.seen = {klippy}]
        <4>2. klippy \in Klippy /\ Klippy # {klippy} BY DEF Shape, TypeOK, Klippy
        <4>3. c \in Call /\ x \in Call /\ x.by = "test" /\ x.adapter = d.adapter /\ c # x
              /\ (d = c \/ d = x)
          BY <3>2, <4>1, <4>2 DEF Call
        <4>4. calls'[c] = Copies(c) + Copies(x) BY <1>1, <3>2, <3>6
        <4> HIDE DEF x
        <4>5. Copies(c) = (IF c = d THEN 1 ELSE 0) /\ Copies(x) = (IF x = d THEN 1 ELSE 0)
          BY <2>1, <3>2, <3>4, <4>3
        <4> QED BY <3>3, <4>3, <4>4, <4>5
      <3> QED BY <3>5, <3>6
    <2> QED BY <2>1 DEF Once
  <1> QED BY <1>1, <1>2, <1>3 DEF AsksNoNew

LEMMA TickAsks ==
  ASSUME Shape, ReconnectTick
  PROVE  /\ Once => Once'
         /\ \A c \in BagToSet(calls') :
              \/ c \in BagToSet(calls)
              \/ c.by = "task" /\ \E p \in Printers : store[p] = c.adapter
  <1>1. /\ BagToSet(calls') = BagToSet(calls) \cup TaskCalls
        /\ \A c \in BagToSet(calls) \ TaskCalls : calls'[c] = calls[c]
    BY TickFacts, AddedFacts DEF Shape, CallsOK
  <1>2. \A c \in TaskCalls : c.by = "task" /\ \E p \in Printers : store[p] = c.adapter
    BY TickFacts
  <1> QED BY <1>1, <1>2 DEF Once

---------------------------------------------------------------------------
(* What a test leaves                                                      *)

Tested == Owned /\ TestsOwn /\ Once /\ Asking /\ Alone /\ Gone

\* Neither the tests nor the test socket change.
TestsStay == tests' = tests /\ testSocket' = testSocket

Passing == Calm /\ TestsStay /\ AsksNoNew /\ (Once => Once')

LEMMA TestTypes ==
  ASSUME Shape
  PROVE  /\ ad \in [Adapters -> Adapter] /\ ws \in [Sockets -> Websocket]
         /\ tests \in [Tests -> Test] /\ testSocket \in Adapters \cup {None}
         /\ cache \in [Ids -> Klippy \cup {None}]
         /\ None \notin Adapters /\ None \notin Sockets /\ None \notin Tests
         /\ \A w \in Sockets : /\ ws[w].owner \in Adapters \cup {None}
                               /\ ws[w].readyState \in Up => ws[w].owner \in Adapters
         /\ \A c \in BagToSet(calls) : c.adapter \in Adapters
         /\ \A t \in Tests : t \in Ids /\ t \notin Printers
  BY IdsAreDistinct
     DEF Shape, TypeOK, SocketsOwned, CallsOK, Call, Websocket, Up, ClosedSocket, Ids

LEMMA OwnedStays ==
  ASSUME Shape, Shape', Owned, Quiet, Fading, AsksNoNew, testSocket' \in {testSocket, None}
  PROVE  Owned'
  <1>1. ASSUME NEW w \in Sockets, ws'[w].owner # None
        PROVE  ad'[ws'[w].owner].printerId # None
    BY <1>1, TestTypes DEF Owned, Quiet, Same, Fading
  <1>2. testSocket' # None => ad'[testSocket'].printerId \in Tests
    BY TestTypes DEF Owned, Quiet, Same
  <1>3. ASSUME NEW c \in BagToSet(calls')
        PROVE  /\ c.by = "task" => ad'[c.adapter].printerId \in Printers
               /\ c.by = "test" => ad'[c.adapter].printerId \in Tests
    <2>1. CASE c.by \in {"task", "test"}
      <3>1. PICK d \in BagToSet(calls) : d.by = c.by /\ d.adapter = c.adapter
        BY <2>1 DEF AsksNoNew
      <3>2. d.adapter \in Adapters BY TestTypes
      <3> QED BY <3>1, <3>2 DEF Owned, Quiet, Same
    <2>2. CASE c.by \notin {"task", "test"} BY <2>2
    <2> QED BY <2>1, <2>2
  <1> QED BY <1>1, <1>2, <1>3 DEF Owned

LEMMA TestsOwnStays ==
  ASSUME Shape, TestsOwn, Quiet, \A t \in Tests : tests[t].pc # "new" => tests'[t].pc # "new"
  PROVE  TestsOwn'
  BY DEF TestsOwn, Quiet, Same

LEMMA AskingStays ==
  ASSUME Shape, Asking, Quiet, AsksNoNew, tests' = tests
  PROVE  Asking'
  <1> SUFFICES ASSUME NEW c \in BagToSet(calls'), c.by = "test"
               PROVE  tests'[ad'[c.adapter].printerId].pc = "setup"
    BY DEF Asking
  <1>1. PICK d \in BagToSet(calls) : d.by = "test" /\ d.adapter = c.adapter BY DEF AsksNoNew
  <1>2. d.adapter \in Adapters BY TestTypes
  <1> QED BY <1>1, <1>2 DEF Asking, Quiet, Same

\* What holds of the websockets of an adapter that opens only one.
Single(records, sockets, a, phase) == \A w \in Sockets : sockets[w].owner = a =>
  /\ phase # "setup"
  /\ sockets[w].readyState \in Up => records[a].socket = w
  /\ \A v \in Sockets : sockets[v].owner = a => v = w

LEMMA SingleStays ==
  ASSUME Shape, NEW a \in Adapters, NEW phase, Single(ad, ws, a, phase), Fading, Dropping
  PROVE  Single(ad', ws', a, phase)
  <1> SUFFICES ASSUME NEW w \in Sockets, ws'[w].owner = a
               PROVE  /\ phase # "setup"
                      /\ ws'[w].readyState \in Up => ad'[a].socket = w
                      /\ \A v \in Sockets : ws'[v].owner = a => v = w
    BY DEF Single
  <1>1. \A v \in Sockets : ws'[v].owner = a => ws[v].owner = a BY TestTypes DEF Fading
  <1>2. phase # "setup" /\ \A v \in Sockets : ws[v].owner = a => v = w BY <1>1 DEF Single
  <1>3. ASSUME ws'[w].readyState \in Up
        PROVE  ad'[a].socket = w
    <2>1. ws[w].readyState \in Up /\ ad[a].socket = w BY <1>1, <1>3 DEF Fading, Single
    <2>2. ~\E v \in Sockets : /\ v = ad[a].socket \/ ws[v].owner = a
                              /\ ws'[v].readyState \notin Up
      BY <1>2, <1>3, <2>1
    <2> QED BY <2>1, <2>2 DEF Dropping
  <1> QED BY <1>1, <1>2, <1>3

\* Alone, for one test.
AloneAt(t) ==
  /\ Running = {t} /\ testSocket # None /\ ad[testSocket].printerId = t
  /\ Single(ad, ws, testSocket, tests[t].pc)
  /\ tests[t].pc = "setup" => ad[testSocket].socket = None

LEMMA AloneIs == Alone <=> \A t \in Running : tests[t].alone => AloneAt(t)
  BY DEF Alone, AloneAt, Single

LEMMA AloneIsNext ==
  (\A t \in Tests : t \in Running' /\ tests'[t].alone =>
     /\ Running' = {t} /\ testSocket' # None /\ ad'[testSocket'].printerId = t
     /\ Single(ad', ws', testSocket', tests'[t].pc)
     /\ tests'[t].pc = "setup" => ad'[testSocket'].socket = None) => Alone'
  BY DEF Alone, AloneAt, Single, Running

LEMMA AloneStays ==
  ASSUME Shape, Alone, Quiet, Fading, Dropping, TestsStay
  PROVE  Alone'
  <1> SUFFICES ASSUME NEW t \in Tests, t \in Running', tests'[t].alone
               PROVE  /\ Running' = {t} /\ testSocket' # None
                      /\ ad'[testSocket'].printerId = t
                      /\ Single(ad', ws', testSocket', tests'[t].pc)
                      /\ tests'[t].pc = "setup" => ad'[testSocket'].socket = None
    BY AloneIsNext
  <1>1. Running' = Running /\ testSocket' = testSocket /\ tests' = tests
    BY DEF Running, TestsStay
  <1>2. AloneAt(t) BY <1>1, AloneIs
  <1>3. testSocket \in Adapters BY <1>2, TestTypes DEF AloneAt
  <1>4. Single(ad', ws', testSocket, tests[t].pc) BY <1>2, <1>3, SingleStays DEF AloneAt
  <1>5. tests[t].pc = "setup" => ad'[testSocket].socket = None
    <2>1. ASSUME tests[t].pc = "setup"
          PROVE  /\ \A w \in Sockets : ws[w].owner # testSocket
                 /\ ad[testSocket].socket = None
      BY <1>2, <2>1 DEF AloneAt, Single
    <2> QED BY <1>3, <2>1, TestTypes DEF Dropping
  <1> QED BY <1>1, <1>2, <1>3, <1>4, <1>5 DEF AloneAt, Quiet, Same

\* Gone, for one test.
GoneAt(t) ==
  /\ ~tests[t].listener /\ cache[t] = None
  /\ testSocket # None => ad[testSocket].printerId # t
  /\ \A a \in Adapters : ad[a].printerId = t => ~ad[a].eventEmittingAllowed
  /\ \A w \in Sockets : ws[w].readyState \in Up => ad[ws[w].owner].printerId # t

LEMMA GoneIs == Gone <=> \A t \in Tests : Over(t) => GoneAt(t)
  BY DEF Gone, GoneAt

GoneNext(t) ==
  /\ ~tests'[t].listener /\ cache'[t] = None
  /\ testSocket' # None => ad'[testSocket'].printerId # t
  /\ \A a \in Adapters : ad'[a].printerId = t => ~ad'[a].eventEmittingAllowed
  /\ \A w \in Sockets : ws'[w].readyState \in Up => ad'[ws'[w].owner].printerId # t

LEMMA GoneIsNext ==
  (\A t \in Tests : tests'[t].pc = "ended" /\ tests'[t].alone => GoneNext(t)) => Gone'
  BY DEF Gone, GoneNext, Over

\* Websockets go up only for other adapters.
UpForOthers(t) == \A w \in Sockets : ws'[w].readyState \in Up =>
  \/ ws[w].readyState \in Up /\ ws'[w].owner = ws[w].owner
  \/ ws'[w].owner \in Adapters /\ ad'[ws'[w].owner].printerId # t

LEMMA GoneStays ==
  ASSUME Shape, NEW t \in Tests, GoneAt(t), Quiet, Told, UpForOthers(t),
         tests'[t] = tests[t], testSocket' \in {testSocket, None}
  PROVE  GoneNext(t)
  <1>1. cache'[t] = None BY TestTypes DEF GoneAt, Told
  <1>2. testSocket' # None => ad'[testSocket'].printerId # t
    BY TestTypes DEF GoneAt, Quiet, Same
  <1>3. \A a \in Adapters : ad'[a].printerId = t => ~ad'[a].eventEmittingAllowed
    BY DEF GoneAt, Quiet, Same
  <1>4. ASSUME NEW w \in Sockets, ws'[w].readyState \in Up
        PROVE  ad'[ws'[w].owner].printerId # t
    <2>1. CASE ws[w].readyState \in Up /\ ws'[w].owner = ws[w].owner
      BY <2>1, TestTypes DEF GoneAt, Quiet, Same
    <2>2. CASE ws'[w].owner \in Adapters /\ ad'[ws'[w].owner].printerId # t BY <2>2
    <2> QED BY <1>4, <2>1, <2>2 DEF UpForOthers
  <1> QED BY <1>1, <1>2, <1>3, <1>4 DEF GoneAt, GoneNext

LEMMA FadingOthers ==
  ASSUME Fading, NEW t
  PROVE  UpForOthers(t)
  BY DEF Fading, UpForOthers

\* A step that opens nothing and leaves the tests where they are.
LEMMA PassingTested ==
  ASSUME Shape, Shape', Tested, Passing
  PROVE  Tested'
  <1>1. Owned' BY OwnedStays DEF Tested, Passing, Calm, TestsStay
  <1>2. TestsOwn' BY TestsOwnStays DEF Tested, Passing, Calm, TestsStay
  <1>3. Asking' /\ Once' BY AskingStays DEF Tested, Passing, Calm, TestsStay
  <1>4. Alone' BY AloneStays DEF Tested, Passing, Calm
  <1>5. Gone'
    <2> SUFFICES ASSUME NEW t \in Tests, tests'[t].pc = "ended" /\ tests'[t].alone
                 PROVE  GoneNext(t)
      BY GoneIsNext
    <2>1. GoneAt(t) /\ tests'[t] = tests[t] BY GoneIs DEF Tested, Passing, TestsStay, Over
    <2> QED BY <2>1, GoneStays, FadingOthers DEF Passing, Calm, TestsStay
  <1> QED BY <1>1, <1>2, <1>3, <1>4, <1>5 DEF Tested

\* The reconnect task asks for the adapters of printers.
LEMMA TickTested ==
  ASSUME Shape, Shape', Silenced, Tested, ReconnectTick
  PROVE  Tested'
  <1>1. Calm /\ TestsStay /\ ad' = ad /\ ws' = ws BY RestCalm DEF ReconnectTick, TestsStay
  <1>2. \A c \in BagToSet(calls') :
          \/ c \in BagToSet(calls)
          \/ c.by = "task" /\ ad[c.adapter].printerId \in Printers
    <2>1. \A p \in Printers : store[p] # None => ad[store[p]].printerId = p BY DEF Silenced
    <2>2. \A c \in BagToSet(calls') : c.adapter # None
      BY IdsAreDistinct DEF Shape, CallsOK, Call
    <2> QED BY <2>1, <2>2, TickAsks
  <1>3. Owned' BY <1>1, <1>2 DEF Tested, Owned, TestsStay
  <1>4. TestsOwn' BY <1>1, TestsOwnStays DEF Tested, Calm, TestsStay
  <1>5. Asking' /\ Once' BY <1>1, <1>2, TickAsks DEF Tested, Asking, TestsStay
  <1>6. Alone' BY <1>1, AloneStays DEF Tested, Calm
  <1>7. Gone'
    <2> SUFFICES ASSUME NEW t \in Tests, tests'[t].pc = "ended" /\ tests'[t].alone
                 PROVE  GoneNext(t)
      BY GoneIsNext
    <2>1. GoneAt(t) /\ tests'[t] = tests[t] BY <1>1, GoneIs DEF Tested, TestsStay, Over
    <2> QED BY <1>1, <2>1, GoneStays, FadingOthers DEF Calm, TestsStay
  <1> QED BY <1>3, <1>4, <1>5, <1>6, <1>7 DEF Tested

\* A printer's new adapter.
LEMMA CreatedTested ==
  ASSUME Shape, Shape', Tested, NEW p \in Printers, PrinterCreated(p)
  PROVE  Tested'
  <1>1. PICK a \in Adapters : Registers(a, p) /\ \A b \in Adapters \ {a} : ad'[b] = ad[b]
    BY CreatedRegisters
  <1>2. tests' = tests /\ testSocket' = testSocket /\ calls' = calls /\ cache' = cache
        /\ ws' = ws
    BY DEF PrinterCreated
  <1>3. /\ ad[a].printerId = None /\ ad'[a].printerId = p
        /\ \A b \in Adapters \ {a} : Same(ad[b], ad'[b])
    BY <1>1 DEF Registers
  <1>o. Owned /\ TestsOwn /\ Asking /\ Alone /\ Gone BY DEF Tested
  <1>n. p \notin Tests /\ None \notin Tests /\ p # None BY IdsAreDistinct
  <1>t. testSocket # None => testSocket \in Adapters /\ testSocket # a
    BY <1>3, <1>o, <1>n, TestTypes DEF Owned
  <1>w. \A w \in Sockets : ws[w].owner # a BY <1>3, <1>o, TestTypes DEF Owned
  <1>c. \A c \in BagToSet(calls) : c.by \in {"task", "test"} => c.adapter # a
    BY <1>3, <1>o, <1>n, IdsAreDistinct DEF Owned
  <1>4. Owned'
    <2>1. \A w \in Sockets : ws[w].owner # None => ad'[ws[w].owner].printerId # None
      BY <1>3, <1>o, <1>w, TestTypes DEF Owned, Same
    <2>2. testSocket # None => ad'[testSocket].printerId \in Tests
      BY <1>3, <1>o, <1>t DEF Owned, Same
    <2>3. \A c \in BagToSet(calls) : c.by \in {"task", "test"} =>
            ad'[c.adapter].printerId = ad[c.adapter].printerId
      BY <1>3, <1>c, TestTypes DEF Same
    <2> QED BY <1>2, <1>o, <2>1, <2>2, <2>3 DEF Owned
  <1>5. TestsOwn' BY <1>2, <1>3, <1>o, <1>n DEF TestsOwn, Same
  <1>6. Asking' /\ Once'
    <2>1. \A c \in BagToSet(calls) : c.by = "test" =>
            ad'[c.adapter].printerId = ad[c.adapter].printerId
      BY <1>3, <1>c, TestTypes DEF Same
    <2> QED BY <1>2, <1>o, <2>1 DEF Asking, Once, Tested
  <1>7. Alone'
    <2> SUFFICES ASSUME NEW t \in Tests, t \in Running', tests'[t].alone
                 PROVE  /\ Running' = {t} /\ testSocket' # None
                        /\ ad'[testSocket'].printerId = t
                        /\ Single(ad', ws', testSocket', tests'[t].pc)
                        /\ tests'[t].pc = "setup" => ad'[testSocket'].socket = None
      BY AloneIsNext
    <2>1. AloneAt(t) /\ Running' = Running BY <1>2, <1>o, AloneIs DEF Running
    <2>2. ad'[testSocket] = ad[testSocket] BY <1>1, <1>t, <2>1 DEF AloneAt
    <2> QED BY <1>2, <2>1, <2>2 DEF AloneAt, Single
  <1>8. Gone'
    <2> SUFFICES ASSUME NEW t \in Tests, tests'[t].pc = "ended" /\ tests'[t].alone
                 PROVE  GoneNext(t)
      BY GoneIsNext
    <2>1. GoneAt(t) /\ t # p BY <1>2, <1>o, <1>n, GoneIs DEF Over
    <2>2. \A b \in Adapters : ad'[b].printerId = t =>
            b # a /\ ad[b].printerId = t /\ ~ad'[b].eventEmittingAllowed
      BY <1>3, <2>1 DEF GoneAt, Same
    <2>3. \A w \in Sockets : ws[w].readyState \in Up => ad'[ws[w].owner].printerId # t
      BY <2>1, <2>2, TestTypes DEF GoneAt
    <2>4. testSocket # None => ad'[testSocket].printerId # t BY <1>t, <2>1, <2>2 DEF GoneAt
    <2> QED BY <1>2, <2>1, <2>2, <2>3, <2>4 DEF GoneAt, GoneNext
  <1> QED BY <1>4, <1>5, <1>6, <1>7, <1>8 DEF Tested

\* A test starts: it has a new adapter, and those that run are not alone any more.
LEMMA StartedTested ==
  ASSUME Shape, Shape', Tested, NEW t \in Tests, TestStarted(t)
  PROVE  Tested'
  <1>1. PICK a \in Adapters : /\ Registers(a, t) /\ testSocket' = a
                              /\ calls' = calls (+) NewCall(a, "test", "version")
    BY StartedRegisters
  <1>2. /\ tests[t].pc = "new" /\ cache' = cache /\ klippy' = klippy
        /\ tests' = [u \in Tests |->
             CASE u = t -> [pc |-> "setup", listener |-> TRUE, alone |-> Running = {}]
               [] u \in Running -> [tests[u] EXCEPT !.alone = FALSE]
               [] OTHER -> tests[u]]
    BY DEF TestStarted
  <1>3. /\ ad[a].printerId = None /\ ad'[a].printerId = t /\ ad'[a].socket = None /\ Fading
        /\ \A b \in Adapters \ {a} : Same(ad[b], ad'[b])
    BY <1>1 DEF Registers
  <1>o. Owned /\ TestsOwn /\ Once /\ Asking /\ Alone /\ Gone BY DEF Tested
  <1>n. t # None /\ a # None BY IdsAreDistinct
  <1>u. /\ tests'[t].pc = "setup" /\ tests'[t].alone = (Running = {})
        /\ \A u \in Tests \ {t} : tests'[u].pc = tests[u].pc
        /\ \A u \in Running \ {t} : ~tests'[u].alone
        /\ \A u \in Tests \ ({t} \cup Running) : tests'[u] = tests[u]
    <2>1. \A u \in Tests : tests[u] \in Test BY TestTypes
    <2> DEFINE started == [pc |-> "setup", listener |-> TRUE, alone |-> Running = {}]
    <2>2. /\ tests'[t] = started
          /\ \A u \in Running \ {t} : tests'[u] = [tests[u] EXCEPT !.alone = FALSE]
          /\ \A u \in Tests \ ({t} \cup Running) : tests'[u] = tests[u]
          /\ Running \subseteq Tests
      BY <1>2 DEF Running
    <2>3. started.pc = "setup" /\ started.alone = (Running = {}) OBVIOUS
    <2>4. \A u \in Running \ {t} : tests'[u].pc = tests[u].pc /\ ~tests'[u].alone
      BY <2>1, <2>2, ZenonT(60) DEF Test
    <2> HIDE DEF started
    <2>5. tests'[t].pc = "setup" /\ tests'[t].alone = (Running = {}) BY <2>2, <2>3
    <2> QED BY <2>2, <2>4, <2>5
  <1>w. \A w \in Sockets : ws[w].owner # a /\ ws'[w].owner # a
    BY <1>3, <1>o, <1>n, TestTypes DEF Owned, Fading
  <1>a. \A b \in Adapters : ad[b].printerId # t BY <1>2, <1>o DEF TestsOwn
  <1> DEFINE c == [adapter |-> a, by |-> "test", pc |-> "version",
                   seen |-> IF "version" = "objects" THEN {klippy} ELSE {}]
  <1>c. /\ NewCall(a, "test", "version") = SetToBag({c})
        /\ c.by = "test" /\ c.adapter = a
    BY NewCallShaped DEF Callers, Shape, TypeOK
  <1> HIDE DEF c
  <1>b. /\ BagToSet(calls') = BagToSet(calls) \cup {c}
        /\ \A d \in BagToSet(calls) \ {c} : calls'[d] = calls[d]
        /\ c \notin BagToSet(calls) => calls'[c] = 1
    BY <1>1, <1>c, AddedFacts DEF Shape, CallsOK
  <1>d. \A d \in BagToSet(calls) : d.by \in {"task", "test"} =>
          /\ d.adapter # a /\ ad'[d.adapter].printerId = ad[d.adapter].printerId
    <2>1. \A d \in BagToSet(calls) : d.by \in {"task", "test"} => d.adapter # a
      BY <1>3, <1>o, IdsAreDistinct DEF Owned
    <2> QED BY <1>3, <2>1, TestTypes DEF Same
  <1>4. Owned'
    <2>1. \A w \in Sockets : ws'[w].owner # None =>
            /\ ws'[w].owner = ws[w].owner /\ ws[w].owner \in Adapters \ {a}
      BY <1>3, <1>w, TestTypes DEF Fading
    <2>2. \A w \in Sockets : ws'[w].owner # None => ad'[ws'[w].owner].printerId # None
      BY <1>3, <1>o, <2>1 DEF Owned, Same
    <2> QED BY <1>1, <1>3, <1>o, <1>b, <1>c, <1>d, <2>2 DEF Owned
  <1>5. TestsOwn'
    <2>1. \A b \in Adapters : ad'[b].printerId \in Tests =>
            \/ b = a
            \/ b # a /\ ad'[b].printerId = ad[b].printerId /\ ad[b].printerId # t
      BY <1>3, <1>a DEF Same
    <2> QED BY <1>3, <1>o, <1>u, <2>1 DEF TestsOwn
  <1>6. Asking'
    <2> SUFFICES ASSUME NEW d \in BagToSet(calls'), d.by = "test"
                 PROVE  tests'[ad'[d.adapter].printerId].pc = "setup"
      BY DEF Asking
    <2>1. CASE d = c BY <1>3, <1>c, <1>u, <2>1
    <2>2. CASE d \in BagToSet(calls)
      <3>1. ad[d.adapter].printerId \in Tests /\ d.adapter \in Adapters
            /\ tests[ad[d.adapter].printerId].pc = "setup"
        BY <1>o, <2>2, TestTypes DEF Owned, Asking
      <3> QED BY <1>a, <1>d, <1>u, <2>2, <3>1
    <2> QED BY <1>b, <2>1, <2>2
  <1>7. Once'
    <2>1. \A d \in BagToSet(calls) : d.by = "test" => d.adapter # a /\ d # c BY <1>c, <1>d
    <2>2. c \notin BagToSet(calls) BY <1>c, <2>1
    <2> QED BY <1>b, <1>c, <1>o, <2>1, <2>2 DEF Once
  <1>8. Alone'
    <2> SUFFICES ASSUME NEW u \in Tests, u \in Running', tests'[u].alone
                 PROVE  /\ Running' = {u} /\ testSocket' # None
                        /\ ad'[testSocket'].printerId = u
                        /\ Single(ad', ws', testSocket', tests'[u].pc)
                        /\ tests'[u].pc = "setup" => ad'[testSocket'].socket = None
      BY AloneIsNext
    <2>1. u = t BY <1>u DEF Running
    <2>2. Running = {} BY <1>u, <2>1
    <2>3. Running' = {t} BY <1>u, <2>2 DEF Running
    <2> QED BY <1>1, <1>3, <1>n, <1>w, <2>1, <2>3 DEF Single
  <1>9. Gone'
    <2> SUFFICES ASSUME NEW u \in Tests, tests'[u].pc = "ended" /\ tests'[u].alone
                 PROVE  GoneNext(u)
      BY GoneIsNext
    <2>1. u # t /\ u \notin Running /\ tests'[u] = tests[u] BY <1>u DEF Running
    <2>2. GoneAt(u) BY <1>o, <2>1, GoneIs DEF Over
    <2>3. \A b \in Adapters : ad'[b].printerId = u =>
            b # a /\ ad[b].printerId = u /\ ~ad'[b].eventEmittingAllowed
      BY <1>3, <2>1, <2>2 DEF GoneAt, Same
    <2>4. \A w \in Sockets : ws'[w].readyState \in Up => ad'[ws'[w].owner].printerId # u
      BY <1>3, <2>2, <2>3, TestTypes DEF GoneAt, Fading
    <2> QED BY <1>1, <1>2, <1>3, <2>1, <2>2, <2>3, <2>4 DEF GoneAt, GoneNext
  <1> QED BY <1>4, <1>5, <1>6, <1>7, <1>8, <1>9 DEF Tested

---------------------------------------------------------------------------
(* A test ends                                                             *)

\* What the finally block does to the test socket there is.
LEMMA FinallyFacts ==
  ASSUME Shape, NEW t \in Tests, Finally(t)
  PROVE  /\ tests'[t].pc = "ended" /\ tests'[t].alone = tests[t].alone
         /\ \A u \in Tests \ {t} : tests'[u] = tests[u]
         /\ testSocket' = None
         /\ testSocket # None =>
              /\ ~tests'[t].listener /\ cache'[t] = None
              /\ ~ad'[testSocket].eventEmittingAllowed
              /\ ad[testSocket].socket # None =>
                   ws'[ad[testSocket].socket].readyState \notin Up
  <1>1. tests[t] \in Test BY TestTypes
  <1>2. CASE testSocket = None BY <1>1, <1>2, TestTypes DEF Finally, Test
  <1>3. CASE testSocket # None
    <2>1. testSocket \in Adapters /\ ad[testSocket] \in Adapter BY <1>3, TestTypes
    <2>2. /\ tests' = [tests EXCEPT ![t] = [tests[t] EXCEPT !.pc = "ended", !.listener = FALSE]]
          /\ ad' = [ad EXCEPT ![testSocket] = Purge(ad[testSocket], IsConnecting(testSocket))]
          /\ ws' = SocketsShut(testSocket) /\ cache' = DeleteKeyValue(t) /\ testSocket' = None
      BY <1>3, TestTypes DEF Finally
    <2>3. /\ tests'[t].pc = "ended" /\ tests'[t].alone = tests[t].alone /\ ~tests'[t].listener
          /\ \A u \in Tests \ {t} : tests'[u] = tests[u]
      BY <1>1, <2>2, TestTypes DEF Test
    <2>4. ~ad'[testSocket].eventEmittingAllowed BY <2>1, <2>2, LettingOps, TestTypes
    <2>5. cache'[t] = None BY <2>2, TestTypes DEF DeleteKeyValue
    <2>6. ASSUME ad[testSocket].socket # None
          PROVE  ws'[ad[testSocket].socket].readyState \notin Up
      <3> DEFINE w == ad[testSocket].socket
      <3>1. w \in Sockets BY <2>1, <2>6 DEF Adapter
      <3>2. ws'[w] = Shut(ws[w]) /\ ws[w] \in Websocket
        BY <2>2, <3>1, TestTypes DEF SocketsShut
      <3> HIDE DEF w
      <3>3. Shut(ws[w]).readyState \notin Up BY <3>2 DEF Shut, Up, ClosedSocket, Websocket
      <3> QED BY <3>2, <3>3 DEF w
    <2> QED BY <2>2, <2>3, <2>4, <2>5, <2>6
  <1> QED BY <1>2, <1>3

\* A test that runs ends, and so does its request if it had one.
LEMMA EndedTested ==
  ASSUME Shape, Shape', Tested, NEW t \in Running, Finally(t), AsksNoNew, Once => Once',
         \A c \in BagToSet(calls') : /\ c \in BagToSet(calls)
                                     /\ c.by = "test" => ad[c.adapter].printerId # t
  PROVE  Tested'
  <1>t. t \in Tests /\ tests[t].pc \notin {"new", "ended"} BY DEF Running
  <1>o. Owned /\ TestsOwn /\ Once /\ Asking /\ Alone /\ Gone BY DEF Tested
  <1>c. Quiet /\ Told /\ Fading /\ Dropping BY FinallyCalm DEF Calm
  <1>f. /\ tests'[t].pc = "ended" /\ tests'[t].alone = tests[t].alone
        /\ \A u \in Tests \ {t} : tests'[u] = tests[u]
        /\ testSocket' = None
        /\ testSocket # None =>
             /\ ~tests'[t].listener /\ cache'[t] = None
             /\ ~ad'[testSocket].eventEmittingAllowed
             /\ ad[testSocket].socket # None => ws'[ad[testSocket].socket].readyState \notin Up
    BY <1>t, FinallyFacts
  <1>1. Owned' BY <1>o, <1>c, <1>f, OwnedStays
  <1>2. TestsOwn' BY <1>o, <1>c, <1>t, <1>f, TestsOwnStays
  <1>3. Asking'
    <2> SUFFICES ASSUME NEW c \in BagToSet(calls'), c.by = "test"
                 PROVE  tests'[ad'[c.adapter].printerId].pc = "setup"
      BY DEF Asking
    <2>1. /\ c.adapter \in Adapters /\ ad[c.adapter].printerId \in Tests \ {t}
          /\ tests[ad[c.adapter].printerId].pc = "setup"
      BY <1>o, TestTypes DEF Owned, Asking
    <2> QED BY <1>c, <1>f, <2>1 DEF Quiet, Same
  <1>4. Alone'
    <2> SUFFICES ASSUME NEW u \in Tests, u \in Running', tests'[u].alone
                 PROVE  FALSE
      BY AloneIsNext
    <2>1. u # t /\ u \in Running /\ tests[u].alone BY <1>f DEF Running
    <2>2. Running = {u} BY <1>o, <2>1, AloneIs DEF AloneAt
    <2> QED BY <2>1, <2>2
  <1>5. Gone'
    <2> SUFFICES ASSUME NEW u \in Tests, tests'[u].pc = "ended" /\ tests'[u].alone
                 PROVE  GoneNext(u)
      BY GoneIsNext
    <2>1. CASE u # t
      <3>1. GoneAt(u) /\ tests'[u] = tests[u] BY <1>f, <1>o, <2>1, GoneIs DEF Over
      <3> QED BY <1>c, <1>f, <3>1, GoneStays, FadingOthers
    <2>2. CASE u = t
      <3>1. AloneAt(t) BY <1>f, <1>o, <2>2, AloneIs
      <3> DEFINE a == testSocket
      <3>2. a \in Adapters /\ ad[a].printerId = t
            /\ \A b \in Adapters : ad[b].printerId = t => b = a
        BY <1>o, <1>t, <3>1, TestTypes DEF AloneAt, TestsOwn
      <3>3. \A b \in Adapters : ad'[b].printerId = t => b = a BY <1>c, <3>2 DEF Quiet, Same
      <3>4. ASSUME NEW w \in Sockets, ws'[w].readyState \in Up
            PROVE  ad'[ws'[w].owner].printerId # t
        <4> SUFFICES ASSUME ad'[ws'[w].owner].printerId = t PROVE FALSE OBVIOUS
        <4>1. ws[w].readyState \in Up /\ ws'[w].owner = ws[w].owner /\ ws[w].owner \in Adapters
          BY <1>c, <3>4, TestTypes DEF Fading
        <4>2. ws[w].owner = a BY <3>3, <4>1
        <4>3. ad[a].socket = w BY <3>1, <4>1, <4>2 DEF AloneAt, Single
        <4> QED BY <1>f, <3>1, <3>4, <4>3, TestTypes DEF AloneAt
      <3> QED BY <1>f, <2>2, <3>1, <3>2, <3>3, <3>4 DEF AloneAt, GoneNext
    <2> QED BY <2>1, <2>2
  <1> QED BY <1>1, <1>2, <1>3, <1>4, <1>5, <1>o DEF Tested

\* The test whose request this is.
LEMMA TestOfCall ==
  ASSUME Shape, Tested, NEW s \in BagToSet(calls), s.by = "test"
  PROVE  /\ s.adapter \in Adapters /\ TestOf(s.adapter) = ad[s.adapter].printerId
         /\ TestOf(s.adapter) \in Running /\ tests[TestOf(s.adapter)].pc = "setup"
         /\ \A c \in BagToSet(Without(s)) :
              /\ c \in BagToSet(calls)
              /\ c.by = "test" => ad[c.adapter].printerId # TestOf(s.adapter)
  <1>1. s.adapter \in Adapters /\ ad[s.adapter].printerId \in Tests
        /\ tests[ad[s.adapter].printerId].pc = "setup"
    BY TestTypes DEF Tested, Owned, Asking
  <1>2. TestOf(s.adapter) = ad[s.adapter].printerId BY <1>1 DEF TestOf
  <1>3. BagToSet(Without(s)) \subseteq BagToSet(calls) /\ s \notin BagToSet(Without(s))
    BY WithoutFacts DEF Shape, Tested, Once
  <1>4. ASSUME NEW c \in BagToSet(Without(s)), c.by = "test",
               ad[c.adapter].printerId = ad[s.adapter].printerId
        PROVE  FALSE
    <2>1. c.adapter = s.adapter BY <1>1, <1>3, <1>4, TestTypes DEF Tested, TestsOwn
    <2> QED BY <1>3, <1>4, <2>1 DEF Tested, Once
  <1> QED BY <1>1, <1>2, <1>3, <1>4 DEF Running

---------------------------------------------------------------------------
(* A set-up opens a websocket                                              *)

\* The adapter that opens a websocket has none that is still its own.
LEMMA OpenedFacts ==
  ASSUME Shape, NEW b \in Adapters, NEW w \in Sockets, Opens(b, w)
  PROVE  /\ ws'[w].owner = b /\ \A v \in Sockets \ {w} : ws'[v] = ws[v]
         /\ ad[b].socket = None /\ ad'[b].socket = w
         /\ \A a \in Adapters \ {b} : ad'[a].socket = ad[a].socket
  BY DEF Opens, Connecting, ClosedSocket, Shape, TypeOK

LEMMA OwnedOpens ==
  ASSUME Shape, Owned, Quiet, AsksNoNew, testSocket' = testSocket,
         NEW b \in Adapters, NEW w \in Sockets, Opens(b, w), ad[b].printerId # None
  PROVE  Owned'
  <1>1. /\ ws'[w].owner = b /\ \A v \in Sockets \ {w} : ws'[v] = ws[v] BY OpenedFacts
  <1>2. \A v \in Sockets : ws'[v].owner # None => ad'[ws'[v].owner].printerId # None
    BY <1>1, TestTypes DEF Owned, Quiet, Same
  <1>3. testSocket' # None => ad'[testSocket'].printerId \in Tests
    BY TestTypes DEF Owned, Quiet, Same
  <1>4. ASSUME NEW c \in BagToSet(calls')
        PROVE  /\ c.by = "task" => ad'[c.adapter].printerId \in Printers
               /\ c.by = "test" => ad'[c.adapter].printerId \in Tests
    <2>1. CASE c.by \in {"task", "test"}
      <3>1. PICK d \in BagToSet(calls) : d.by = c.by /\ d.adapter = c.adapter
        BY <2>1 DEF AsksNoNew
      <3>2. d.adapter \in Adapters BY TestTypes
      <3> QED BY <3>1, <3>2 DEF Owned, Quiet, Same
    <2>2. CASE c.by \notin {"task", "test"} BY <2>2
    <2> QED BY <2>1, <2>2
  <1> QED BY <1>2, <1>3, <1>4 DEF Owned

LEMMA OpensOthers ==
  ASSUME Shape, Quiet, NEW b \in Adapters, NEW w \in Sockets, Opens(b, w), NEW t,
         ad[b].printerId # t
  PROVE  UpForOthers(t)
  <1>1. ws'[w].owner = b /\ \A v \in Sockets \ {w} : ws'[v] = ws[v] BY OpenedFacts
  <1>2. ad'[b].printerId # t BY DEF Quiet, Same
  <1> QED BY <1>1, <1>2 DEF UpForOthers

\* The reconnect task opens the websocket of a printer.
LEMMA TaskOpensTested ==
  ASSUME Shape, Shape', Tested, Quiet, Told, TestsStay, AsksNoNew, Once => Once',
         NEW b \in Adapters, NEW w \in Sockets, Opens(b, w), ad[b].printerId \in Printers
  PROVE  Tested'
  <1>o. Owned /\ TestsOwn /\ Once /\ Asking /\ Alone /\ Gone BY DEF Tested
  <1>n. ad[b].printerId # None /\ ad[b].printerId \notin Tests BY IdsAreDistinct
  <1>f. /\ ws'[w].owner = b /\ \A v \in Sockets \ {w} : ws'[v] = ws[v]
        /\ \A a \in Adapters \ {b} : ad'[a].socket = ad[a].socket
    BY OpenedFacts
  <1>1. Owned' BY <1>o, <1>n, OwnedOpens DEF TestsStay
  <1>2. TestsOwn' /\ Asking' BY <1>o, TestsOwnStays, AskingStays DEF TestsStay
  <1>3. Alone'
    <2> SUFFICES ASSUME NEW t \in Tests, t \in Running', tests'[t].alone
                 PROVE  /\ Running' = {t} /\ testSocket' # None
                        /\ ad'[testSocket'].printerId = t
                        /\ Single(ad', ws', testSocket', tests'[t].pc)
                        /\ tests'[t].pc = "setup" => ad'[testSocket'].socket = None
      BY AloneIsNext
    <2>1. Running' = Running /\ testSocket' = testSocket /\ tests' = tests
      BY DEF Running, TestsStay
    <2>2. AloneAt(t) BY <1>o, <2>1, AloneIs
    <2>3. testSocket \in Adapters \ {b} BY <1>n, <2>2, TestTypes DEF AloneAt
    <2>4. Single(ad', ws', testSocket, tests[t].pc) BY <1>f, <2>2, <2>3 DEF AloneAt, Single
    <2> QED BY <1>f, <2>1, <2>2, <2>3, <2>4 DEF AloneAt, Quiet, Same
  <1>4. Gone'
    <2> SUFFICES ASSUME NEW t \in Tests, tests'[t].pc = "ended" /\ tests'[t].alone
                 PROVE  GoneNext(t)
      BY GoneIsNext
    <2>1. GoneAt(t) /\ tests'[t] = tests[t] /\ ad[b].printerId # t
      BY <1>n, <1>o, GoneIs DEF TestsStay, Over
    <2>2. UpForOthers(t) BY <2>1, OpensOthers
    <2> QED BY <2>1, <2>2, GoneStays DEF TestsStay
  <1> QED BY <1>1, <1>2, <1>3, <1>4, <1>o DEF Tested

\* The set-up of a test is done: it goes on with the present test socket.
LEMMA TestOpensTested ==
  ASSUME Shape, Shape', Tested, NEW s \in BagToSet(calls), s.by = "test", ObjectsAnswered(s)
  PROVE  Tested'
  <1> DEFINE t == TestOf(s.adapter)
  <1>o. Owned /\ TestsOwn /\ Once /\ Asking /\ Alone /\ Gone BY DEF Tested
  <1>s. /\ s.adapter \in Adapters /\ t = ad[s.adapter].printerId
        /\ t \in Running /\ tests[t].pc = "setup" /\ t \in Tests
        /\ \A c \in BagToSet(Without(s)) :
             /\ c \in BagToSet(calls)
             /\ c.by = "test" => ad[c.adapter].printerId # t
    BY TestOfCall DEF Running
  <1>c. Quiet /\ Told /\ ((Fading /\ Dropping) \/ OpensFor(s)) BY ObjectsCalm
  <1>b. calls' = Without(s) /\ AsksNoNew /\ (Once => Once')
    BY WithoutAsks DEF ObjectsAnswered, Settled, Shape
  <1>p. /\ tests'[t].pc \in {"polling", "waiting"}
        /\ tests'[t].alone = tests[t].alone
        /\ \A u \in Tests \ {t} : tests'[u] = tests[u]
        /\ testSocket' = testSocket
    <2>1. PICK r : Continue(s, r) BY DEF ObjectsAnswered
    <2>2. PICK pc \in {"polling", "waiting"} :
            tests' = [tests EXCEPT ![t] = [tests[t] EXCEPT !.pc = pc]] /\ testSocket' = testSocket
      BY <2>1, TestTypes DEF Continue
    <2>3. tests[t] \in Test BY <1>s, TestTypes
    <2> HIDE DEF t
    <2> QED BY <1>s, <2>2, <2>3, TestTypes DEF Test
  <1> HIDE DEF t
  <1>n. t # None /\ None \notin Tests BY <1>s, TestTypes
  <1>1. Owned'
    <2>1. CASE Fading BY <1>o, <1>c, <1>b, <1>p, <2>1, OwnedStays
    <2>2. CASE OpensFor(s)
      <3>1. PICK b \in Adapters, w \in Sockets : Opens(b, w) /\ b = testSocket
        BY <2>2 DEF OpensFor
      <3>2. ad[b].printerId # None BY <1>o, <3>1, TestTypes DEF Owned
      <3> QED BY <1>o, <1>c, <1>b, <1>p, <3>1, <3>2, OwnedOpens
    <2> QED BY <1>c, <2>1, <2>2
  <1>2. TestsOwn' BY <1>o, <1>c, <1>p, TestsOwnStays
  <1>3. Asking'
    <2> SUFFICES ASSUME NEW c \in BagToSet(calls'), c.by = "test"
                 PROVE  tests'[ad'[c.adapter].printerId].pc = "setup"
      BY DEF Asking
    <2>1. /\ c.adapter \in Adapters /\ ad[c.adapter].printerId \in Tests \ {t}
          /\ tests[ad[c.adapter].printerId].pc = "setup"
      BY <1>s, <1>b, <1>o, TestTypes DEF Owned, Asking
    <2> QED BY <1>c, <1>p, <2>1 DEF Quiet, Same
  <1>4. Alone'
    <2> SUFFICES ASSUME NEW u \in Tests, u \in Running', tests'[u].alone
                 PROVE  /\ Running' = {u} /\ testSocket' # None
                        /\ ad'[testSocket'].printerId = u
                        /\ Single(ad', ws', testSocket', tests'[u].pc)
                        /\ tests'[u].pc = "setup" => ad'[testSocket'].socket = None
      BY AloneIsNext
    <2>1. Running' = Running BY <1>s, <1>p DEF Running
    <2>2. u = t /\ AloneAt(t)
      <3>1. tests[u].alone /\ u \in Running BY <1>s, <1>p, <2>1
      <3>2. AloneAt(u) BY <1>o, <3>1, AloneIs
      <3> QED BY <1>s, <3>2 DEF AloneAt
    <2>3. /\ testSocket \in Adapters /\ ad[testSocket].printerId = t
          /\ \A w \in Sockets : ws[w].owner # testSocket
      BY <1>s, <2>2, TestTypes DEF AloneAt, Single
    <2>4. Single(ad', ws', testSocket, tests'[t].pc)
      <3>1. CASE Fading BY <2>3, <3>1, TestTypes DEF Fading, Single
      <3>2. CASE OpensFor(s)
        <4>1. PICK b \in Adapters, w \in Sockets : Opens(b, w) /\ b = testSocket
          BY <3>2 DEF OpensFor
        <4>2. /\ ws'[w].owner = b /\ \A v \in Sockets \ {w} : ws'[v] = ws[v]
              /\ ad'[b].socket = w
          BY <4>1, OpenedFacts
        <4> QED BY <1>p, <2>3, <4>1, <4>2 DEF Single
      <3> QED BY <1>c, <3>1, <3>2
    <2> QED BY <1>c, <1>p, <2>1, <2>2, <2>3, <2>4 DEF AloneAt, Quiet, Same
  <1>5. Gone'
    <2> SUFFICES ASSUME NEW u \in Tests, tests'[u].pc = "ended" /\ tests'[u].alone
                 PROVE  GoneNext(u)
      BY GoneIsNext
    <2>1. u # t /\ tests'[u] = tests[u] BY <1>p
    <2>2. GoneAt(u) BY <1>o, <2>1, GoneIs DEF Over
    <2>3. UpForOthers(u)
      <3>1. CASE Fading BY <3>1, FadingOthers
      <3>2. CASE OpensFor(s)
        <4>1. PICK b \in Adapters, w \in Sockets : Opens(b, w) /\ b = testSocket
          BY <3>2 DEF OpensFor
        <4>2. ad[b].printerId # u BY <2>2, <4>1, TestTypes DEF GoneAt
        <4> QED BY <1>c, <4>1, <4>2, OpensOthers
      <3> QED BY <1>c, <3>1, <3>2
    <2> QED BY <1>c, <1>p, <2>1, <2>2, <2>3, GoneStays
  <1> QED BY <1>1, <1>2, <1>3, <1>4, <1>5, <1>b, <1>o DEF Tested

LEMMA AnsweredTested ==
  ASSUME Shape, Shape', Tested, NEW s \in BagToSet(calls), Answered(s)
  PROVE  Tested'
  <1>s. s \in Call /\ s.adapter \in Adapters /\ klippy \in Klippy /\ CallsOK
    BY DEF Shape, TypeOK, CallsOK, Call
  <1>1. CASE VersionAnswered(s) /\ Rejected(s)
    <2>1. calls' = Without(s) BY <1>1 DEF Rejected, Settled
    <2>2. AsksNoNew /\ (Once => Once') BY <1>s, <2>1, WithoutAsks
    <2>3. CASE s.by = "test"
      <3>1. Finally(TestOf(s.adapter)) BY <1>1, <2>3 DEF Rejected
      <3> QED BY <2>1, <2>2, <2>3, <3>1, TestOfCall, EndedTested
    <2>4. CASE s.by # "test"
      <3>1. TestsStay BY <1>1, <2>4 DEF Rejected, TestsStay
      <3> QED BY <1>1, <2>2, <3>1, AnsweredCalm, PassingTested DEF Passing
    <2> QED BY <2>3, <2>4
  <1>2. CASE VersionAnswered(s) /\ ~Rejected(s)
    <2>1. TestsStay /\ calls' = Without(s) (+) NewCall(s.adapter, s.by, "objects")
      BY <1>2 DEF VersionAnswered, TestsStay
    <2>2. AsksNoNew /\ (Once => Once') BY <1>s, <2>1, MovedAsks
    <2> QED BY <1>2, <2>1, <2>2, AnsweredCalm, PassingTested DEF Passing
  <1>3. CASE SubscribeAnswered(s) \/ SubscribeFailed(s)
    <2>1. TestsStay /\ calls' = Without(s)
      BY <1>3 DEF SubscribeAnswered, SubscribeFailed, TestsStay
    <2>2. AsksNoNew /\ (Once => Once') BY <1>s, <2>1, WithoutAsks
    <2> QED BY <1>3, <2>1, <2>2, AnsweredCalm, PassingTested DEF Passing
  <1>4. CASE ObjectsAnswered(s)
    <2>1. CASE s.by = "test" BY <1>4, <2>1, TestOpensTested
    <2>2. CASE s.by # "test"
      <3>1. TestsStay /\ calls' = Without(s)
        BY <1>4, <2>2 DEF ObjectsAnswered, Settled, Continue, TestsStay
      <3>2. AsksNoNew /\ (Once => Once') BY <1>s, <3>1, WithoutAsks
      <3>3. Quiet /\ Told /\ Lively /\ ((Fading /\ Dropping) \/ OpensFor(s))
        BY <1>4, ObjectsCalm
      <3>4. CASE Fading /\ Dropping
        BY <3>1, <3>2, <3>3, <3>4, PassingTested DEF Passing, Calm
      <3>5. CASE OpensFor(s)
        <4>1. PICK b \in Adapters, w \in Sockets :
                Opens(b, w) /\ s.by = "task" /\ b = s.adapter
          BY <2>2, <3>5 DEF OpensFor
        <4>2. ad[b].printerId \in Printers BY <4>1 DEF Tested, Owned
        <4> QED BY <3>1, <3>2, <3>3, <4>1, <4>2, TaskOpensTested
      <3> QED BY <3>3, <3>4, <3>5
    <2> QED BY <2>1, <2>2
  <1> QED BY <1>1, <1>2, <1>3, <1>4 DEF Answered

LEMMA WsTested ==
  ASSUME Shape, Shape', Tested, NEW w \in Sockets, WsStepOf(w)
  PROVE  Tested'
  <1>1. Calm BY WsCalm
  <1>2. TestsStay
    BY DEF WsStepOf, WsOpened, IdentifyAnswered, WsKlippyNews, WsStatusUpdate, WsOtherEvent,
           WsConnectFailed, WsFailed, WsClosed, Handled, TestsStay
  <1>3. /\ ws[w].owner \in Adapters /\ klippy \in Klippy /\ CallsOK
    BY OwnerFacts, WsOpenShaped DEF Shape, TypeOK
  <1>4. \/ calls' = calls
        \/ calls' = calls (+) NewCall(ws[w].owner, "subscribe", "objects")
        \/ calls' = calls (+) NewCall(ws[w].owner, "event", "version")
    BY DEF WsStepOf, WsOpened, IdentifyAnswered, WsKlippyNews, WsStatusUpdate, WsOtherEvent,
           WsConnectFailed, WsFailed, WsClosed
  <1>5. AsksNoNew /\ (Once => Once') BY <1>3, <1>4, CallsStay, AddedAsks
  <1> QED BY <1>1, <1>2, <1>5, PassingTested DEF Passing

LEMMA RestTested ==
  ASSUME Shape, Shape', Tested,
         \/ KlippyChanges \/ AdapterStep \/ UNCHANGED vars
         \/ \E p \in Printers : SocketReset(p) \/ PrinterDisabled(p) \/ PrintersDeleted(p)
  PROVE  Tested'
  <1>1. CASE KlippyChanges
    <2>1. TestsStay BY <1>1 DEF KlippyChanges, TestsStay
    <2> QED BY <1>1, <2>1, RestCalm, KlippyAsks, PassingTested DEF Passing
  <1>2. CASE UNCHANGED vars
    <2>1. TestsStay /\ calls' = calls BY <1>2 DEF vars, TestsStay
    <2> QED BY <1>2, <2>1, RestCalm, CallsStay, PassingTested DEF Passing
  <1>3. ASSUME NEW p \in Printers, SocketReset(p) \/ PrinterDisabled(p) \/ PrintersDeleted(p)
        PROVE  Tested'
    <2>1. TestsStay /\ calls' = calls
      BY <1>3 DEF SocketReset, PrinterDisabled, PrintersDeleted, TestsStay
    <2> QED BY <1>3, <2>1, UserCalm, CallsStay, PassingTested DEF Passing
  <1>4. ASSUME NEW a \in Adapters, RefreshTick(a)
        PROVE  Tested'
    <2>1. TestsStay /\ calls' = calls (+) NewCall(a, "interval", "objects")
      BY <1>4 DEF RefreshTick, TestsStay
    <2>2. CallsOK /\ klippy \in Klippy BY DEF Shape, TypeOK
    <2>3. AsksNoNew /\ (Once => Once') BY <2>1, <2>2, AddedAsks
    <2>4. Calm BY <1>4, RestCalm
    <2> QED BY <2>1, <2>3, <2>4, PassingTested DEF Passing
  <1>5. ASSUME NEW a \in Adapters, RequestTimeout(a)
        PROVE  Tested'
    <2>1. TestsStay /\ calls' = calls BY <1>5 DEF RequestTimeout, TestsStay
    <2>2. Calm BY <1>5, RestCalm
    <2> QED BY <2>1, <2>2, CallsStay, PassingTested DEF Passing
  <1> QED BY <1>1, <1>2, <1>3, <1>4, <1>5 DEF AdapterStep

LEMMA TestEndsTested ==
  ASSUME Shape, Shape', Tested, NEW t \in Tests, TestPolled(t) \/ TestTimeout(t)
  PROVE  Tested'
  <1>1. /\ Finally(t) /\ calls' = calls /\ tests[t].pc \in {"polling", "waiting"}
    BY DEF TestPolled, TestTimeout
  <1>2. t \in Running BY <1>1 DEF Running
  <1>3. \A c \in BagToSet(calls) : c.by = "test" => ad[c.adapter].printerId # t
    BY <1>1 DEF Tested, Asking
  <1> QED BY <1>1, <1>2, <1>3, CallsStay, EndedTested

LEMMA InitTested == Init => Tested
  <1> SUFFICES ASSUME Init PROVE Tested OBVIOUS
  <1>1. BagToSet(calls) = {} BY DEF Init, EmptyBag, SetToBag, BagToSet
  <1>2. Owned /\ TestsOwn /\ Once /\ Asking
    BY <1>1, IdsAreDistinct
       DEF Init, Owned, TestsOwn, Once, Asking, ClosedSocket, NewAdapter
  <1>3. Running = {} BY DEF Init, Running
  <1>4. Alone BY <1>3 DEF Alone
  <1>5. Gone BY DEF Init, Gone, Over
  <1> QED BY <1>2, <1>4, <1>5 DEF Tested

LEMMA NextTested ==
  ASSUME Shape, Shape', Silenced, Tested, [Next]_vars
  PROVE  Tested'
  <1>1. ASSUME UserStep
        PROVE  Tested'
    BY <1>1, CreatedTested, RestTested DEF UserStep
  <1>2. ASSUME ReconnectTick
        PROVE  Tested'
    BY <1>2, TickTested
  <1>3. ASSUME NEW s \in BagToSet(calls), Answered(s)
        PROVE  Tested'
    BY <1>3, AnsweredTested
  <1>4. ASSUME NEW w \in Sockets, WsStepOf(w)
        PROVE  Tested'
    BY <1>4, WsTested
  <1>5. ASSUME TestStep
        PROVE  Tested'
    BY <1>5, StartedTested, TestEndsTested DEF TestStep
  <1>6. ASSUME KlippyChanges \/ AdapterStep \/ UNCHANGED vars
        PROVE  Tested'
    BY <1>6, RestTested
  <1> QED BY <1>1, <1>2, <1>3, <1>4, <1>5, <1>6 DEF Next, WsStep, WsStepOf

\* A test that ran alone leaves no listener, no websocket that is open or opening and
\* no state in the events cache, whichever of its three ends it met: setupTestPrinter
\* opens one websocket of its one adapter, which the finally block purges.
THEOREM TestsCleanUp == Spec => []TestCleansUp
  <1>1. Shape /\ Shape' /\ Silenced /\ Tested /\ [Next]_vars => Tested' BY NextTested
  <1>2. Spec => []Tested
    BY <1>1, InitTested, MoonrakerShaped, MoonrakerSilenced, PTL DEF Spec
  <1>3. Tested => TestCleansUp BY DEF Tested, Gone, Over, TestCleansUp, Up
  <1> QED BY <1>2, <1>3, PTL
==============================================================================
