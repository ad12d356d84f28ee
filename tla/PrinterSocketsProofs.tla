------------------------ MODULE PrinterSocketsProofs ------------------------
(***************************************************************************)
(* Proofs about PrinterSockets: type correctness and the safety invariants,*)
(* for any printers, adapters, sockets, disturbances and budget.           *)
(*                                                                         *)
(* IInv is inductive.  Most handlers leave alone who an adapter belongs to,*)
(* whether it may emit, its login and its socket; lemmas state that frame  *)
(* for the steps sessions share, and each action is then checked against   *)
(* the few parts of IInv it can disturb.                                   *)
(***************************************************************************)
EXTENDS PrinterSockets, TLAPS

\* What a session or a state refresh never changes in an adapter.
SameOwner(r, q) == /\ r.printerId = q.printerId
                   /\ r.eventEmittingAllowed = q.eventEmittingAllowed
SameSocket(r, q) == r.socket = q.socket /\ r.login = q.login

\* The printers whose adapters may emit.
Audible == {ad[a].printerId : a \in {b \in Adapters : ad[b].eventEmittingAllowed}}

---------------------------------------------------------------------------
(* Operators on adapter records                                            *)

LEMMA ResetKeeps ==
  ASSUME NEW r \in Adapter
  PROVE  /\ ResetSocketState(r) \in Adapter
         /\ SameOwner(ResetSocketState(r), r)
         /\ SameSocket(ResetSocketState(r), r)
  BY DEF ResetSocketState, Adapter, SocketState, ApiState, SameOwner, SameSocket

LEMMA ClosedKeeps ==
  ASSUME NEW r \in Adapter, NEW c \in BOOLEAN
  PROVE  /\ Closed(r, c) \in Adapter
         /\ SameOwner(Closed(r, c), r)
         /\ Closed(r, c).socket = None
         /\ Closed(r, c).login = r.login
  BY DEF Closed, Adapter, SocketState, ApiState, SameOwner

LEMMA UpdateKeeps ==
  ASSUME NEW r \in Adapter, NEW outcome \in RefreshOutcomes
  PROVE  /\ UpdateCurrentState(r, outcome) \in Adapter
         /\ SameOwner(UpdateCurrentState(r, outcome), r)
         /\ SameSocket(UpdateCurrentState(r, outcome), r)
  BY DEF UpdateCurrentState, RefreshOutcomes, Adapter, SocketState, ApiState, SameOwner, SameSocket

LEMMA SessionKeeps ==
  ASSUME NEW r \in Adapter, NEW l \in Nat, NEW why \in LoginFailures
  PROVE  /\ LoginAccepted(r, l) \in Adapter
         /\ SameOwner(LoginAccepted(r, l), r)
         /\ SameSocket(LoginAccepted(r, l), r)
         /\ LoginRejected(r, why) \in Adapter
         /\ SameOwner(LoginRejected(r, why), r)
         /\ SameSocket(LoginRejected(r, why), r)
         /\ UserRejected(r) \in Adapter
         /\ SameOwner(UserRejected(r), r)
         /\ SameSocket(UserRejected(r), r)
  BY DEF LoginAccepted, LoginRejected, UserRejected, LoginFailures,
         Adapter, SocketState, ApiState, SameOwner, SameSocket

LEMMA EventKeeps ==
  ASSUME NEW r \in Adapter, NEW reauth \in BOOLEAN
  PROVE  /\ AfterOpened(r) \in Adapter
         /\ SameOwner(AfterOpened(r), r)
         /\ SameSocket(AfterOpened(r), r)
         /\ OnMessage(r, reauth) \in Adapter
         /\ SameOwner(OnMessage(r, reauth), r)
         /\ SameSocket(OnMessage(r, reauth), r)
         /\ OnError(r) \in Adapter
         /\ SameOwner(OnError(r), r)
         /\ SameSocket(OnError(r), r)
         /\ AfterClosed(r) \in Adapter
         /\ SameOwner(AfterClosed(r), r)
         /\ AfterClosed(r).socket = None
         /\ AfterClosed(r).login = r.login
  BY ZenonT(60) DEF AfterOpened, OnMessage, OnError, AfterClosed,
         Adapter, SocketState, ApiState, SameOwner, SameSocket

LEMMA ShutKeeps ==
  ASSUME NEW w \in Websocket
  PROVE  /\ Shut(w) \in Websocket
         /\ Shut(w).readyState # "closed" =>
              w.readyState # "closed" /\ Shut(w).owner = w.owner /\ Shut(w).url = w.url
  BY DEF Shut, Websocket, ReadyState, ClosedSocket

---------------------------------------------------------------------------
(* Steps of the sessions                                                   *)

\* What a printer hears of an adapter adds no printer that was deleted.
LEMMA HeardIsStored ==
  ASSUME IInv
  PROVE  /\ Audible \subseteq Printers
         /\ \A p \in Audible : printers[p].status = "enabled"
         /\ \A A \in SUBSET Adapters : Emitted(A) \subseteq eventsCached \cup Audible
  <1>1. ASSUME NEW b \in Adapters, ad[b].eventEmittingAllowed
        PROVE  ad[b].printerId \in Printers /\ printers[ad[b].printerId].status = "enabled"
    BY <1>1, NoneIsNoObject DEF IInv, OnlyStoredEmits, StoredIsEnabled
  <1>2. \A A \in SUBSET Adapters : Emitted(A) \subseteq eventsCached \cup Audible
    BY DEF Emitted, OnOctoPrintSocketMessage, Audible
  <1>3. QED BY <1>1, <1>2 DEF Audible

\* What a step of a session does to the adapters, given the record r that the
\* adapter of the session has after its answer.
SessionFrame(a, r) ==
  /\ ad' \in [Adapters -> Adapter]
  /\ SameOwner(ad'[a], r) /\ SameSocket(ad'[a], r)
  /\ \A b \in Adapters \ {a} : SameOwner(ad'[b], ad[b]) /\ SameSocket(ad'[b], ad[b])
  /\ eventsCached' \subseteq eventsCached \cup Audible

\* The sessions and the task agree after a step.
RunInv == /\ sessions \in SUBSET Session
          /\ task \in {"idle", "reauth", "open"}
          /\ SessionsOfRun
          /\ OneSession

\* A batch of new sessions has one for each adapter.
LEMMA NewSessionsAreApart ==
  ASSUME IInv, NEW A \in SUBSET Adapters, NEW kind \in Kinds
  PROVE  /\ NewSessions(A, kind) \in SUBSET Session
         /\ \A s \in NewSessions(A, kind) : s.kind = kind
         /\ \A s, t \in NewSessions(A, kind) : s.adapter = t.adapter => s = t
         /\ A = {} => NewSessions(A, kind) = {}
  <1>1. \A a \in A : ad[a].login \in Nat BY DEF IInv, TypeOK, Adapter
  <1>2. QED BY <1>1 DEF NewSessions, Session, Kinds

LEMMA StartedKeeps ==
  ASSUME NEW adapters \in [Adapters -> Adapter], NEW A
  PROVE  /\ Started(adapters, A) \in [Adapters -> Adapter]
         /\ \A a \in Adapters : /\ SameOwner(Started(adapters, A)[a], adapters[a])
                               /\ SameSocket(Started(adapters, A)[a], adapters[a])
  <1>1. ASSUME NEW a \in Adapters
        PROVE  /\ Started(adapters, A)[a] \in Adapter
               /\ SameOwner(Started(adapters, A)[a], adapters[a])
               /\ SameSocket(Started(adapters, A)[a], adapters[a])
    <2>1. CASE a \in A BY <2>1, ResetKeeps DEF Started
    <2>2. CASE a \notin A BY <2>2 DEF Started, SameOwner, SameSocket
    <2>3. QED BY <2>1, <2>2
  <1>2. Started(adapters, A) \in [Adapters -> Adapter] BY <1>1 DEF Started
  <1>3. QED BY <1>1, <1>2

LEMMA OpenPhaseStep ==
  ASSUME IInv,
         NEW adapters \in [Adapters -> Adapter],
         NEW emitters \in SUBSET Adapters,
         OpenPhase(adapters, emitters)
  PROVE  /\ ad' \in [Adapters -> Adapter]
         /\ \A a \in Adapters : SameOwner(ad'[a], adapters[a]) /\ SameSocket(ad'[a], adapters[a])
         /\ eventsCached' \subseteq eventsCached \cup Audible
         /\ RunInv'
  <1> DEFINE down == {a \in Stored : NeedsSetup(adapters[a]) \/ NeedsReopen(adapters[a])}
  <1>1. down \in SUBSET Adapters BY DEF Stored
  <1>2. /\ ad' = Started(adapters, down)
        /\ sessions' = NewSessions(down, "setup")
        /\ task' = IF down = {} THEN "idle" ELSE "open"
        /\ eventsCached' = Emitted(emitters \cup down)
    BY DEF OpenPhase
  <1>3. eventsCached' \subseteq eventsCached \cup Audible BY <1>1, <1>2, HeardIsStored
  <1>4. RunInv'
    <2> HIDE DEF down
    <2>1. /\ sessions' \in SUBSET Session
          /\ \A s \in sessions' : s.kind = "setup"
          /\ OneSession'
          /\ down = {} => sessions' = {}
      BY <1>1, <1>2, NewSessionsAreApart DEF Kinds, OneSession
    <2>2. QED BY <1>2, <2>1 DEF RunInv, SessionsOfRun
  <1>5. QED BY <1>2, <1>3, <1>4, StartedKeeps

LEMMA SettleStep ==
  ASSUME IInv, NEW s \in sessions, NEW r \in Adapter, Settle(s, r)
  PROVE  SessionFrame(s.adapter, r) /\ RunInv'
  <1> DEFINE adapters == [ad EXCEPT ![s.adapter] = r]
             rest == sessions \ {s}
  <1>1. s.adapter \in Adapters BY DEF IInv, TypeOK, Session
  <1>2. /\ adapters \in [Adapters -> Adapter]
        /\ adapters[s.adapter] = r
        /\ \A b \in Adapters \ {s.adapter} : adapters[b] = ad[b]
    BY <1>1 DEF IInv, TypeOK
  <1>3. CASE rest = {} /\ task = "reauth"
    <2>1. OpenPhase(adapters, {s.adapter}) BY <1>3 DEF Settle
    <2> HIDE DEF adapters
    <2>2. QED BY <1>1, <1>2, <2>1, OpenPhaseStep DEF SessionFrame, SameOwner, SameSocket
  <1>4. CASE ~(rest = {} /\ task = "reauth")
    <2>1. /\ ad' = adapters
          /\ sessions' = rest
          /\ task' = IF rest = {} THEN "idle" ELSE task
          /\ eventsCached' = Emitted({s.adapter})
      BY <1>4 DEF Settle
    <2>2. eventsCached' \subseteq eventsCached \cup Audible BY <1>1, <2>1, HeardIsStored
    <2>3. RunInv' BY <2>1 DEF RunInv, IInv, TypeOK, SessionsOfRun, OneSession
    <2> HIDE DEF adapters
    <2>4. QED BY <1>2, <2>1, <2>2, <2>3 DEF SessionFrame, SameOwner, SameSocket
  <1>5. QED BY <1>3, <1>4

LEMMA AdvanceStep ==
  ASSUME IInv, NEW s \in sessions, NEW r \in Adapter,
         NEW pc \in {"login", "user", "current", "auth"}, Advance(s, pc, r)
  PROVE  SessionFrame(s.adapter, r) /\ RunInv'
  <1>1. s \in Session /\ s.adapter \in Adapters BY DEF IInv, TypeOK, Session
  <1>2. /\ ad' \in [Adapters -> Adapter]
        /\ ad'[s.adapter] = r
        /\ \A b \in Adapters \ {s.adapter} : ad'[b] = ad[b]
    BY <1>1 DEF Advance, IInv, TypeOK
  <1>3. eventsCached' \subseteq eventsCached \cup Audible BY <1>1, HeardIsStored DEF Advance
  <1>4. RunInv'
    <2> DEFINE moved == [s EXCEPT !.pc = pc]
    <2>1. moved \in Session /\ moved.adapter = s.adapter /\ moved.kind = s.kind
      BY <1>1 DEF Session
    <2>2. sessions' = (sessions \ {s}) \cup {moved} /\ task' = task BY DEF Advance
    <2> HIDE DEF moved
    <2>3. QED BY <2>1, <2>2 DEF RunInv, IInv, TypeOK, SessionsOfRun, OneSession
  <1>5. QED BY <1>2, <1>3, <1>4 DEF SessionFrame, SameOwner, SameSocket

---------------------------------------------------------------------------
(* Parts of IInv that a step leaves alone                                  *)

LEMMA OwnersFrame ==
  ASSUME IInv, UNCHANGED <<printers, store>>,
         \A b \in Adapters : SameOwner(ad'[b], ad[b]),
         eventsCached' \subseteq eventsCached \cup Audible
  PROVE  /\ StoredIsEnabled'
         /\ OnlyStoredEmits'
         /\ DeletedStaysForgotten'
         /\ eventsCached' \in SUBSET Printers
  <1>1. StoredIsEnabled' /\ OnlyStoredEmits'
    BY DEF IInv, StoredIsEnabled, OnlyStoredEmits, SameOwner
  <1>2. DeletedStaysForgotten' /\ eventsCached' \in SUBSET Printers
    BY HeardIsStored DEF IInv, TypeOK, DeletedStaysForgotten
  <1>3. QED BY <1>1, <1>2

LEMMA SocketsFrame ==
  ASSUME IInv, ws' = ws, \A b \in Adapters : SameSocket(ad'[b], ad[b])
  PROVE  SocketsOwned' /\ SocketFollowsLogin'
  BY DEF IInv, SocketsOwned, SocketFollowsLogin, SameSocket

LEMMA ShutFrame ==
  ASSUME IInv, NEW A \in SUBSET Adapters, ws' = SocketsShut(A),
         \A b \in A : ad'[b].socket = None,
         \A b \in Adapters \ A : SameSocket(ad'[b], ad[b])
  PROVE  /\ ws' \in [Sockets -> Websocket]
         /\ SocketsOwned'
         /\ SocketFollowsLogin'
  <1>1. ASSUME NEW w \in Sockets
        PROVE  /\ ws'[w] \in Websocket
               /\ ws'[w].readyState # "closed" =>
                    /\ ws[w].readyState # "closed"
                    /\ ws'[w].owner = ws[w].owner
                    /\ ws'[w].url = ws[w].url
               /\ (\A a \in A : ad[a].socket # w) => ws'[w] = ws[w]
    <2>1. ws[w] \in Websocket BY DEF IInv, TypeOK
    <2>2. CASE \E a \in A : ad[a].socket = w BY <2>1, <2>2, ShutKeeps DEF SocketsShut
    <2>3. CASE ~\E a \in A : ad[a].socket = w BY <2>1, <2>3 DEF SocketsShut
    <2>4. QED BY <2>2, <2>3
  <1>2. ws' \in [Sockets -> Websocket] BY <1>1 DEF SocketsShut
  <1>3. SocketsOwned' BY <1>1 DEF IInv, SocketsOwned
  <1>4. SocketFollowsLogin'
    <2> SUFFICES ASSUME NEW b \in Adapters, ad'[b].socket # None
                 PROVE  /\ ws'[ad'[b].socket].readyState # "closed"
                        /\ ws'[ad'[b].socket].owner = b
                        /\ ws'[ad'[b].socket].url = ad'[b].login
      BY DEF SocketFollowsLogin
    <2>1. b \notin A /\ SameSocket(ad'[b], ad[b]) OBVIOUS
    <2>2. /\ ad[b].socket \in Sockets
          /\ ws[ad[b].socket].readyState # "closed"
          /\ ws[ad[b].socket].owner = b
          /\ ws[ad[b].socket].url = ad[b].login
      BY <2>1 DEF IInv, TypeOK, Adapter, SocketFollowsLogin, SameSocket
    <2>3. \A a \in A : ad[a].socket # ad[b].socket
      BY <2>1, <2>2, NoneIsNoObject DEF IInv, SocketFollowsLogin
    <2>4. QED BY <1>1, <2>1, <2>2, <2>3 DEF SameSocket
  <1>5. QED BY <1>2, <1>3, <1>4

LEMMA RunFrame ==
  ASSUME IInv, UNCHANGED <<sessions, task>>
  PROVE  RunInv'
  BY DEF IInv, TypeOK, RunInv, SessionsOfRun, OneSession

LEMMA SpendKeeps ==
  ASSUME IInv, NEW d, Spend(d)
  PROVE  left' \in Nat
  BY DEF Spend, IInv, TypeOK

\* The parts of IInv, as the steps below establish them.
LEMMA Together ==
  ASSUME printers' \in [Printers -> [status: Status, login: Nat]],
         store' \in [Printers -> Adapters \cup {None}],
         ad' \in [Adapters -> Adapter],
         ws' \in [Sockets -> Websocket],
         restore' \in [awaiting: BOOLEAN, todo: SUBSET Adapters],
         eventsCached' \in SUBSET Printers,
         left' \in Nat,
         StoredIsEnabled', OnlyStoredEmits', DeletedStaysForgotten',
         SocketsOwned', SocketFollowsLogin', RunInv'
  PROVE  IInv'
  BY DEF IInv, TypeOK, RunInv

---------------------------------------------------------------------------
(* The reconnect task                                                      *)

LEMMA ReconnectTickKeeps ==
  ASSUME IInv, ReconnectTick
  PROVE  IInv'
  <1> DEFINE expired == {a \in Stored : ad[a].reauthRequired}
  <1>1. /\ task = "idle"
        /\ UNCHANGED <<printers, store, ws, restore, left>>
    BY DEF ReconnectTick
  <1>2. /\ ad' \in [Adapters -> Adapter]
        /\ \A a \in Adapters : SameOwner(ad'[a], ad[a]) /\ SameSocket(ad'[a], ad[a])
        /\ eventsCached' \subseteq eventsCached \cup Audible
        /\ RunInv'
    <2>1. ad \in [Adapters -> Adapter] BY DEF IInv, TypeOK
    <2>2. CASE expired = {}
      <3>1. OpenPhase(ad, {}) BY <2>2 DEF ReconnectTick
      <3>2. QED BY <2>1, <3>1, OpenPhaseStep
    <2>3. CASE expired # {}
      <3>1. expired \in SUBSET Adapters BY DEF Stored
      <3>2. /\ ad' = Started(ad, expired)
            /\ sessions' = NewSessions(expired, "reauth")
            /\ task' = "reauth"
            /\ eventsCached' = Emitted(expired)
        BY <2>3 DEF ReconnectTick
      <3> HIDE DEF expired
      <3>3. RunInv'
        <4>1. /\ sessions' \in SUBSET Session
              /\ \A s \in sessions' : s.kind = "reauth"
              /\ OneSession'
          BY <3>1, <3>2, NewSessionsAreApart DEF Kinds, OneSession
        <4>2. QED BY <3>2, <4>1 DEF RunInv, SessionsOfRun
      <3>4. QED BY <2>1, <3>1, <3>2, <3>3, StartedKeeps, HeardIsStored
    <2>4. QED BY <2>2, <2>3
  <1>3. QED
    <2>1. /\ StoredIsEnabled' /\ OnlyStoredEmits' /\ DeletedStaysForgotten'
          /\ eventsCached' \in SUBSET Printers
      BY <1>1, <1>2, OwnersFrame
    <2>2. SocketsOwned' /\ SocketFollowsLogin' BY <1>1, <1>2, SocketsFrame
    <2>3. QED BY <1>1, <1>2, <2>1, <2>2, Together DEF IInv, TypeOK

---------------------------------------------------------------------------
(* The answers of a session                                                *)

\* A step that keeps the websockets and hands the adapter of s a record r with
\* the owner and the socket it had.
LEMMA AnswerKeeps ==
  ASSUME IInv, NEW s \in sessions, NEW r \in Adapter,
         SessionFrame(s.adapter, r), RunInv',
         SameOwner(r, ad[s.adapter]), SameSocket(r, ad[s.adapter]),
         UNCHANGED <<printers, store, ws, restore>>, left' \in Nat
  PROVE  IInv'
  <1>1. s.adapter \in Adapters BY DEF IInv, TypeOK, Session
  <1>2. \A b \in Adapters : SameOwner(ad'[b], ad[b]) /\ SameSocket(ad'[b], ad[b])
    BY <1>1 DEF SessionFrame, SameOwner, SameSocket
  <1>3. ad' \in [Adapters -> Adapter] /\ eventsCached' \subseteq eventsCached \cup Audible
    BY DEF SessionFrame
  <1>4. /\ StoredIsEnabled' /\ OnlyStoredEmits' /\ DeletedStaysForgotten'
        /\ eventsCached' \in SUBSET Printers
    BY <1>2, <1>3, OwnersFrame
  <1>5. SocketsOwned' /\ SocketFollowsLogin' BY <1>2, SocketsFrame
  <1>6. QED BY <1>3, <1>4, <1>5, Together DEF IInv, TypeOK

LEMMA SameSelf == \A r : SameOwner(r, r) /\ SameSocket(r, r)
  BY DEF SameOwner, SameSocket

LEMMA SessionLoginKeeps ==
  ASSUME IInv, NEW s \in sessions, SessionLogin(s)
  PROVE  IInv'
  <1>1. s.login \in Nat /\ ad[s.adapter] \in Adapter BY DEF IInv, TypeOK, Session
  <1>2. UNCHANGED <<printers, store, ws, restore>> BY DEF SessionLogin
  <1>3. CASE Advance(s, "user", LoginAccepted(ad[s.adapter], s.login)) /\ left' = left
    <2>1. \E why : why \in LoginFailures BY DEF LoginFailures
    <2>2. /\ LoginAccepted(ad[s.adapter], s.login) \in Adapter
          /\ SameOwner(LoginAccepted(ad[s.adapter], s.login), ad[s.adapter])
          /\ SameSocket(LoginAccepted(ad[s.adapter], s.login), ad[s.adapter])
      BY <1>1, <2>1, SessionKeeps
    <2>3. left' \in Nat BY <1>3 DEF IInv, TypeOK
    <2>4. QED BY <1>2, <1>3, <2>2, <2>3, AdvanceStep, AnswerKeeps
  <1>4. ASSUME NEW why \in LoginFailures, Spend("httpFault"),
               Settle(s, LoginRejected(ad[s.adapter], why))
        PROVE  IInv'
    <2>1. /\ LoginRejected(ad[s.adapter], why) \in Adapter
          /\ SameOwner(LoginRejected(ad[s.adapter], why), ad[s.adapter])
          /\ SameSocket(LoginRejected(ad[s.adapter], why), ad[s.adapter])
      BY <1>1, SessionKeeps
    <2>2. QED BY <1>2, <1>4, <2>1, SettleStep, AnswerKeeps, SpendKeeps
  <1>5. QED BY <1>3, <1>4 DEF SessionLogin

LEMMA SessionUserKeeps ==
  ASSUME IInv, NEW s \in sessions, SessionUser(s)
  PROVE  IInv'
  <1>1. ad[s.adapter] \in Adapter BY DEF IInv, TypeOK, Session
  <1>2. UNCHANGED <<printers, store, ws, restore>> BY DEF SessionUser
  <1>3. CASE Advance(s, "current", ad[s.adapter]) /\ left' = left
    <2>1. left' \in Nat BY <1>3 DEF IInv, TypeOK
    <2>2. QED BY <1>1, <1>2, <1>3, <2>1, SameSelf, AdvanceStep, AnswerKeeps
  <1>4. CASE Spend("httpFault") /\ Settle(s, UserRejected(ad[s.adapter]))
    <2>1. 0 \in Nat /\ \E why : why \in LoginFailures BY DEF LoginFailures
    <2>2. /\ UserRejected(ad[s.adapter]) \in Adapter
          /\ SameOwner(UserRejected(ad[s.adapter]), ad[s.adapter])
          /\ SameSocket(UserRejected(ad[s.adapter]), ad[s.adapter])
      BY <1>1, <2>1, SessionKeeps
    <2>3. QED BY <1>2, <1>4, <2>2, SettleStep, AnswerKeeps, SpendKeeps
  <1>5. QED BY <1>3, <1>4 DEF SessionUser

LEMMA SessionAuthSentKeeps ==
  ASSUME IInv, NEW s \in sessions, SessionAuthSent(s)
  PROVE  IInv'
  <1>1. ad[s.adapter] \in Adapter BY DEF IInv, TypeOK, Session
  <1>2. UNCHANGED <<printers, store, ws, restore>> BY DEF SessionAuthSent
  <1> DEFINE r == [ad[s.adapter] EXCEPT !.reauthRequired = FALSE]
  <1>3. r \in Adapter /\ SameOwner(r, ad[s.adapter]) /\ SameSocket(r, ad[s.adapter])
    BY <1>1 DEF Adapter, SameOwner, SameSocket
  <1>4. CASE left' = left /\ Settle(s, r)
    <2> HIDE DEF r
    <2>1. left' \in Nat BY <1>4 DEF IInv, TypeOK
    <2>2. QED BY <1>2, <1>3, <1>4, <2>1, SettleStep, AnswerKeeps
  <1>5. CASE Spend("wsFault") /\ Settle(s, ad[s.adapter])
    BY <1>1, <1>2, <1>5, SameSelf, SettleStep, AnswerKeeps, SpendKeeps
  <1>6. QED BY <1>4, <1>5 DEF SessionAuthSent

\* open() takes a closed websocket, which no adapter refers to.
LEMMA OpenSocketKeeps ==
  ASSUME IInv, NEW s \in sessions, NEW r \in Adapter, OpenSocket(s, r),
         SameOwner(r, ad[s.adapter]), SameSocket(r, ad[s.adapter]),
         UNCHANGED <<printers, store, restore>>, left' \in Nat
  PROVE  IInv'
  <1>1. s.adapter \in Adapters BY DEF IInv, TypeOK, Session
  <1>2. CASE r.socket # None BY <1>2, SettleStep, AnswerKeeps DEF OpenSocket
  <1>3. CASE r.socket = None
    <2> DEFINE w == FreeSocket
               q == [r EXCEPT !.socket = w]
    <2>1. /\ \E v \in Sockets : ws[v].readyState = "closed"
          /\ ws' = [ws EXCEPT ![w] = Connecting(s.adapter, r.login)]
          /\ Settle(s, q)
      BY <1>3 DEF OpenSocket
    <2>2. w \in Sockets /\ ws[w].readyState = "closed" BY <2>1 DEF FreeSocket
    <2> HIDE DEF w
    <2>3. q \in Adapter /\ SameOwner(q, r) /\ q.socket = w /\ q.login = r.login
      BY <2>2 DEF Adapter, SameOwner
    <2>4. SessionFrame(s.adapter, q) /\ RunInv' BY <2>1, <2>3, SettleStep
    <2>5. /\ ad' \in [Adapters -> Adapter]
          /\ ad'[s.adapter].socket = w /\ ad'[s.adapter].login = r.login
          /\ \A b \in Adapters \ {s.adapter} : SameSocket(ad'[b], ad[b])
      BY <2>3, <2>4 DEF SessionFrame, SameSocket
    <2>6. \A b \in Adapters : SameOwner(ad'[b], ad[b])
      BY <1>1, <2>3, <2>4 DEF SessionFrame, SameOwner
    <2>7. /\ StoredIsEnabled' /\ OnlyStoredEmits' /\ DeletedStaysForgotten'
          /\ eventsCached' \in SUBSET Printers
      BY <2>4, <2>6, OwnersFrame DEF SessionFrame
    <2>8. Connecting(s.adapter, r.login) \in Websocket
      BY <1>1 DEF Connecting, Websocket, ReadyState, Adapter
    <2>9. /\ ws' \in [Sockets -> Websocket]
          /\ ws'[w] = Connecting(s.adapter, r.login)
          /\ \A v \in Sockets \ {w} : ws'[v] = ws[v]
      BY <2>1, <2>2, <2>8 DEF IInv, TypeOK
    <2>10. SocketsOwned' BY <1>1, <2>9 DEF IInv, SocketsOwned, Connecting
    <2>11. SocketFollowsLogin'
      <3> SUFFICES ASSUME NEW b \in Adapters, ad'[b].socket # None
                   PROVE  /\ ws'[ad'[b].socket].readyState # "closed"
                          /\ ws'[ad'[b].socket].owner = b
                          /\ ws'[ad'[b].socket].url = ad'[b].login
        BY DEF SocketFollowsLogin
      <3>1. CASE b = s.adapter BY <2>5, <2>9, <3>1 DEF Connecting
      <3>2. CASE b # s.adapter
        <4>1. /\ ad[b].socket = ad'[b].socket /\ ad[b].login = ad'[b].login
              /\ ad[b].socket \in Sockets
          BY <2>5, <3>2 DEF SameSocket, IInv, TypeOK, Adapter
        <4>2. ad[b].socket # w BY <2>2, <4>1 DEF IInv, SocketFollowsLogin
        <4>3. QED BY <2>9, <4>1, <4>2 DEF IInv, SocketFollowsLogin
      <3>3. QED BY <3>1, <3>2
    <2>12. QED BY <2>4, <2>5, <2>7, <2>9, <2>10, <2>11, Together DEF IInv, TypeOK
  <1>4. QED BY <1>2, <1>3

\* The auth message changes a websocket only in the session it was sent.
AuthOnly == /\ ws' \in [Sockets -> Websocket]
            /\ \A w \in Sockets : /\ ws'[w].owner = ws[w].owner
                                  /\ ws'[w].url = ws[w].url
                                  /\ ws'[w].readyState = "closed" <=> ws[w].readyState = "closed"

LEMMA AuthOnlyFrame ==
  ASSUME IInv, AuthOnly, \A b \in Adapters : SameSocket(ad'[b], ad[b])
  PROVE  SocketsOwned' /\ SocketFollowsLogin'
  <1>1. SocketsOwned' BY DEF IInv, AuthOnly, SocketsOwned
  <1>2. SocketFollowsLogin'
    <2> SUFFICES ASSUME NEW b \in Adapters, ad'[b].socket # None
                 PROVE  /\ ws'[ad'[b].socket].readyState # "closed"
                        /\ ws'[ad'[b].socket].owner = b
                        /\ ws'[ad'[b].socket].url = ad'[b].login
      BY DEF SocketFollowsLogin
    <2>1. /\ ad[b].socket = ad'[b].socket /\ ad[b].login = ad'[b].login
          /\ ad[b].socket \in Sockets
      BY DEF SameSocket, IInv, TypeOK, Adapter
    <2>2. QED BY <2>1 DEF IInv, SocketFollowsLogin, AuthOnly
  <1>3. QED BY <1>1, <1>2

LEMMA SendAuthKeeps ==
  ASSUME IInv, NEW s \in sessions, NEW r \in Adapter, SendAuth(s, r),
         SameOwner(r, ad[s.adapter]), SameSocket(r, ad[s.adapter]),
         UNCHANGED <<printers, store, restore>>, left' \in Nat
  PROVE  IInv'
  <1> DEFINE authenticating == [r EXCEPT !.socketState = "authenticating"]
             done == [authenticating EXCEPT !.reauthRequired = FALSE]
  <1>1. s.adapter \in Adapters BY DEF IInv, TypeOK, Session
  <1>2. /\ authenticating \in Adapter /\ done \in Adapter
        /\ SameOwner(authenticating, ad[s.adapter]) /\ SameSocket(authenticating, ad[s.adapter])
        /\ SameOwner(done, ad[s.adapter]) /\ SameSocket(done, ad[s.adapter])
    BY DEF Adapter, SocketState, SameOwner, SameSocket
  <1>3. CASE r.socket # None /\ ws[r.socket].readyState = "open"
    <2>1. /\ ws' = [ws EXCEPT ![r.socket].auth = r.sessionDto]
          /\ Advance(s, "auth", authenticating)
      BY <1>3 DEF SendAuth
    <2>2. AuthOnly
      <3>1. r.socket \in Sockets /\ r.sessionDto \in Nat \cup {None} BY <1>3 DEF Adapter
      <3>2. ws \in [Sockets -> Websocket] BY DEF IInv, TypeOK
      <3> DEFINE sent == [ws[r.socket] EXCEPT !.auth = r.sessionDto]
      <3>3. ws' = [ws EXCEPT ![r.socket] = sent] BY <2>1
      <3>4. /\ sent \in Websocket
            /\ sent.owner = ws[r.socket].owner
            /\ sent.url = ws[r.socket].url
            /\ sent.readyState = ws[r.socket].readyState
        BY <3>1, <3>2 DEF Websocket
      <3> HIDE DEF sent
      <3>5. QED BY <3>1, <3>2, <3>3, <3>4 DEF AuthOnly
    <2> HIDE DEF authenticating
    <2>3. SessionFrame(s.adapter, authenticating) /\ RunInv' BY <1>2, <2>1, AdvanceStep
    <2>4. /\ ad' \in [Adapters -> Adapter]
          /\ \A b \in Adapters : SameOwner(ad'[b], ad[b]) /\ SameSocket(ad'[b], ad[b])
          /\ eventsCached' \subseteq eventsCached \cup Audible
      BY <1>1, <1>2, <2>3 DEF SessionFrame, SameOwner, SameSocket
    <2>5. /\ StoredIsEnabled' /\ OnlyStoredEmits' /\ DeletedStaysForgotten'
          /\ eventsCached' \in SUBSET Printers
      BY <2>4, OwnersFrame
    <2>6. SocketsOwned' /\ SocketFollowsLogin' BY <2>2, <2>4, AuthOnlyFrame
    <2>7. QED BY <2>2, <2>3, <2>4, <2>5, <2>6, Together DEF IInv, TypeOK, AuthOnly
  <1>4. CASE ~(r.socket # None /\ ws[r.socket].readyState = "open")
    <2>1. ws' = ws /\ Settle(s, done) BY <1>4 DEF SendAuth
    <2> HIDE DEF done
    <2>2. QED BY <1>2, <2>1, SettleStep, AnswerKeeps
  <1>5. QED BY <1>3, <1>4

LEMMA SessionCurrentKeeps ==
  ASSUME IInv, NEW s \in sessions, SessionCurrent(s)
  PROVE  IInv'
  <1>1. ad[s.adapter] \in Adapter BY DEF IInv, TypeOK, Session
  <1>2. PICK outcome \in RefreshOutcomes :
          LET r == ArmRefresh(UpdateCurrentState(ad[s.adapter], outcome)) IN
          /\ IF outcome = "failed" THEN Spend("httpFault") ELSE left' = left
          /\ IF s.kind = "setup" THEN OpenSocket(s, r) ELSE SendAuth(s, r)
    BY DEF SessionCurrent
  <1> DEFINE q == UpdateCurrentState(ad[s.adapter], outcome)
             r == ArmRefresh(q)
  <1>3. q \in Adapter /\ SameOwner(q, ad[s.adapter]) /\ SameSocket(q, ad[s.adapter])
    BY <1>1, UpdateKeeps
  <1>4. r \in Adapter /\ SameOwner(r, ad[s.adapter]) /\ SameSocket(r, ad[s.adapter])
    <2> HIDE DEF q
    <2>1. QED BY <1>3 DEF ArmRefresh, Adapter, SameOwner, SameSocket
  <1>5. left' \in Nat BY <1>2, SpendKeeps DEF IInv, TypeOK
  <1>6. UNCHANGED <<printers, store, restore>> BY DEF SessionCurrent
  <1>7. OpenSocket(s, r) \/ SendAuth(s, r) BY <1>2
  <1> HIDE DEF r
  <1>8. QED BY <1>4, <1>5, <1>6, <1>7, OpenSocketKeeps, SendAuthKeeps

---------------------------------------------------------------------------
(* The restore task and the state refresh                                  *)

LEMMA WasConnectingIsBoolean == \A a \in Adapters : WasConnecting(a) \in BOOLEAN
  BY DEF WasConnecting

LEMMA RunRestoreKeeps ==
  ASSUME IInv, NEW todo \in SUBSET Adapters, RunRestore(todo),
         UNCHANGED <<printers, store, sessions, task, left>>
  PROVE  IInv'
  <1>1. PICK seen \in SUBSET todo :
          /\ Visit(seen)
          /\ \/ seen = todo /\ restore' = [awaiting |-> FALSE, todo |-> {}]
             \/ \E silent \in todo \ seen :
                  restore' = [awaiting |-> TRUE, todo |-> todo \ (seen \cup {silent})]
    BY DEF RunRestore
  <1>2. restore' \in [awaiting: BOOLEAN, todo: SUBSET Adapters]
    <2>1. CASE restore' = [awaiting |-> FALSE, todo |-> {}] BY <2>1
    <2>2. ASSUME NEW silent \in todo \ seen,
                 restore' = [awaiting |-> TRUE, todo |-> todo \ (seen \cup {silent})]
          PROVE  restore' \in [awaiting: BOOLEAN, todo: SUBSET Adapters]
      <3>1. todo \ (seen \cup {silent}) \in SUBSET Adapters OBVIOUS
      <3>2. QED BY <2>2, <3>1
    <2>3. QED BY <1>1, <2>1, <2>2
  <1> DEFINE reset == {a \in seen : IsClosedOrAborted(ad[a])}
  <1>3. reset \in SUBSET Adapters OBVIOUS
  <1>4. /\ ad' = [a \in Adapters |->
                    IF a \in reset THEN Closed(ResetSocketState(ad[a]), WasConnecting(a)) ELSE ad[a]]
        /\ ws' = SocketsShut(reset)
        /\ eventsCached' = Emitted(reset)
    BY <1>1 DEF Visit
  <1> HIDE DEF reset
  <1>5. ASSUME NEW a \in Adapters
        PROVE  /\ ad'[a] \in Adapter
               /\ SameOwner(ad'[a], ad[a])
               /\ a \in reset => ad'[a].socket = None
               /\ a \notin reset => SameSocket(ad'[a], ad[a])
    <2>1. ad[a] \in Adapter BY DEF IInv, TypeOK
    <2>2. CASE a \in reset
      <3> DEFINE r == ResetSocketState(ad[a])
                 q == Closed(r, WasConnecting(a))
      <3>1. r \in Adapter /\ SameOwner(r, ad[a]) BY <2>1, ResetKeeps
      <3>2. ad'[a] = q BY <1>4, <2>2
      <3> HIDE DEF r
      <3>3. q \in Adapter /\ SameOwner(q, r) /\ q.socket = None
        BY <3>1, ClosedKeeps, WasConnectingIsBoolean
      <3> HIDE DEF q
      <3>4. QED BY <2>2, <3>1, <3>2, <3>3 DEF SameOwner
    <2>3. CASE a \notin reset BY <1>4, <2>1, <2>3 DEF SameOwner, SameSocket
    <2>4. QED BY <2>2, <2>3
  <1>6. ad' \in [Adapters -> Adapter]
    <2>1. ad' = [a \in Adapters |-> ad'[a]] BY <1>4
    <2>2. QED BY <1>5, <2>1
  <1>7. eventsCached' \subseteq eventsCached \cup Audible BY <1>3, <1>4, HeardIsStored
  <1>8. /\ StoredIsEnabled' /\ OnlyStoredEmits' /\ DeletedStaysForgotten'
        /\ eventsCached' \in SUBSET Printers
    BY <1>5, <1>7, OwnersFrame
  <1>9. ws' \in [Sockets -> Websocket] /\ SocketsOwned' /\ SocketFollowsLogin'
    BY <1>3, <1>4, <1>5, ShutFrame
  <1>10. QED BY <1>2, <1>6, <1>8, <1>9, RunFrame, Together DEF IInv, TypeOK

LEMMA RestoreTickKeeps ==
  ASSUME IInv, RestoreTick
  PROVE  IInv'
  BY RunRestoreKeeps DEF RestoreTick, Stored

LEMMA RestoreResumeKeeps ==
  ASSUME IInv, RestoreResume
  PROVE  IInv'
  <1>1. CASE RunRestore(restore.todo) /\ left' = left
    <2>1. restore.todo \in SUBSET Adapters BY DEF IInv, TypeOK
    <2>2. QED BY <1>1, <2>1, RunRestoreKeeps DEF RestoreResume
  <1>2. CASE /\ Spend("httpFault")
             /\ restore' = [awaiting |-> FALSE, todo |-> {}]
             /\ UNCHANGED <<ad, ws, eventsCached>>
    <2>1. \A b \in Adapters : SameOwner(ad'[b], ad[b]) /\ SameSocket(ad'[b], ad[b])
      BY <1>2, SameSelf
    <2>2. /\ StoredIsEnabled' /\ OnlyStoredEmits' /\ DeletedStaysForgotten'
          /\ eventsCached' \in SUBSET Printers
      BY <1>2, <2>1, OwnersFrame DEF RestoreResume
    <2>3. SocketsOwned' /\ SocketFollowsLogin' BY <1>2, <2>1, SocketsFrame
    <2>4. RunInv' /\ left' \in Nat BY <1>2, RunFrame, SpendKeeps DEF RestoreResume
    <2>5. QED BY <1>2, <2>2, <2>3, <2>4, Together DEF RestoreResume, IInv, TypeOK
  <1>3. QED BY <1>1, <1>2 DEF RestoreResume

\* A step that gives adapter a the record r, with the owner and the socket it
\* had, and leaves the sessions and the websockets alone.
LEMMA OneAdapterKeeps ==
  ASSUME IInv, NEW a \in Adapters, NEW r \in Adapter,
         ad' = [ad EXCEPT ![a] = r], SameOwner(r, ad[a]), SameSocket(r, ad[a]),
         UNCHANGED <<printers, store, sessions, task, restore>>,
         eventsCached' \subseteq eventsCached \cup Audible,
         ws' = ws \/ AuthOnly, left' \in Nat
  PROVE  IInv'
  <1>1. /\ ad' \in [Adapters -> Adapter]
        /\ \A b \in Adapters : SameOwner(ad'[b], ad[b]) /\ SameSocket(ad'[b], ad[b])
    <2>1. ad' \in [Adapters -> Adapter] /\ ad'[a] = r /\ \A b \in Adapters \ {a} : ad'[b] = ad[b]
      BY DEF IInv, TypeOK
    <2>2. QED BY <2>1, SameSelf
  <1>2. /\ StoredIsEnabled' /\ OnlyStoredEmits' /\ DeletedStaysForgotten'
        /\ eventsCached' \in SUBSET Printers
    BY <1>1, OwnersFrame
  <1>3. SocketsOwned' /\ SocketFollowsLogin' /\ ws' \in [Sockets -> Websocket]
    BY <1>1, SocketsFrame, AuthOnlyFrame DEF AuthOnly, IInv, TypeOK
  <1>4. QED BY <1>1, <1>2, <1>3, RunFrame, Together DEF IInv, TypeOK

LEMMA RefreshKeeps ==
  ASSUME IInv, NEW a \in Adapters, RefreshTick(a) \/ RefreshAnswered(a)
  PROVE  IInv'
  <1>1. ad[a] \in Adapter BY DEF IInv, TypeOK
  <1>2. CASE RefreshTick(a)
    <2> DEFINE r == [ad[a] EXCEPT !.refreshing = TRUE]
    <2>1. r \in Adapter /\ SameOwner(r, ad[a]) /\ SameSocket(r, ad[a])
      BY <1>1 DEF Adapter, SameOwner, SameSocket
    <2>2. ad' = [ad EXCEPT ![a] = r] BY <1>2 DEF RefreshTick
    <2>3. left' \in Nat /\ eventsCached' \subseteq eventsCached \cup Audible
      BY <1>2 DEF RefreshTick, IInv, TypeOK
    <2> HIDE DEF r
    <2>4. QED BY <1>2, <2>1, <2>2, <2>3, OneAdapterKeeps DEF RefreshTick
  <1>3. CASE RefreshAnswered(a)
    <2>1. PICK outcome \in RefreshOutcomes :
            /\ IF outcome = "failed" THEN Spend("httpFault") ELSE left' = left
            /\ ad' = [ad EXCEPT ![a] = [UpdateCurrentState(@, outcome) EXCEPT !.refreshing = FALSE]]
      BY <1>3 DEF RefreshAnswered
    <2> DEFINE q == UpdateCurrentState(ad[a], outcome)
               r == [q EXCEPT !.refreshing = FALSE]
    <2>2. q \in Adapter /\ SameOwner(q, ad[a]) /\ SameSocket(q, ad[a]) BY <1>1, UpdateKeeps
    <2>3. ad' = [ad EXCEPT ![a] = r] BY <2>1
    <2> HIDE DEF q
    <2>4. r \in Adapter /\ SameOwner(r, ad[a]) /\ SameSocket(r, ad[a])
      BY <2>2 DEF Adapter, SameOwner, SameSocket
    <2>5. left' \in Nat BY <2>1, SpendKeeps DEF IInv, TypeOK
    <2>6. eventsCached' \subseteq eventsCached \cup Audible
      BY <1>3, HeardIsStored DEF RefreshAnswered
    <2> HIDE DEF r
    <2>7. QED BY <1>3, <2>3, <2>4, <2>5, <2>6, OneAdapterKeeps DEF RefreshAnswered
  <1>4. QED BY <1>2, <1>3

---------------------------------------------------------------------------
(* The events of the websockets                                            *)

LEMMA DeliverStep ==
  ASSUME IInv, NEW w \in Sockets, NEW r, ws[w].readyState # "closed", Deliver(w, r)
  PROVE  /\ ws[w].owner \in Adapters
         /\ ad[ws[w].owner] \in Adapter
         /\ ad' = [ad EXCEPT ![ws[w].owner] = r]
         /\ eventsCached' \subseteq eventsCached \cup Audible
         /\ UNCHANGED <<printers, store, sessions, task, restore>>
  <1>1. ws[w].owner \in Adapters BY DEF IInv, SocketsOwned
  <1>2. QED BY <1>1, HeardIsStored DEF Deliver, IInv, TypeOK

LEMMA WsOpenedKeeps ==
  ASSUME IInv, NEW w \in Sockets, WsOpened(w)
  PROVE  IInv'
  <1> DEFINE a == ws[w].owner
             r == ad[a]
             opened == [ws EXCEPT ![w].readyState = "open"]
  <1>1. ws[w].readyState = "connecting" /\ Deliver(w, AfterOpened(r)) /\ left' = left
    BY DEF WsOpened
  <1>2. /\ a \in Adapters /\ r \in Adapter
        /\ ad' = [ad EXCEPT ![a] = AfterOpened(r)]
        /\ eventsCached' \subseteq eventsCached \cup Audible
        /\ UNCHANGED <<printers, store, sessions, task, restore>>
    BY <1>1, DeliverStep
  <1>3. /\ AfterOpened(r) \in Adapter
        /\ SameOwner(AfterOpened(r), r) /\ SameSocket(AfterOpened(r), r)
    BY <1>2, EventKeeps
  <1>4. AuthOnly
    <2>1. ws \in [Sockets -> Websocket] BY DEF IInv, TypeOK
    <2>2. ws' = IF r.socket # None /\ opened[r.socket].readyState = "open"
                  THEN [opened EXCEPT ![r.socket].auth = r.sessionDto]
                  ELSE opened
      BY DEF WsOpened
    <2>3. /\ opened \in [Sockets -> Websocket]
          /\ \A v \in Sockets : /\ opened[v].owner = ws[v].owner
                                /\ opened[v].url = ws[v].url
                                /\ opened[v].readyState = "closed" <=> ws[v].readyState = "closed"
      <3> DEFINE x == [ws[w] EXCEPT !.readyState = "open"]
      <3>1. x \in Websocket /\ x.owner = ws[w].owner /\ x.url = ws[w].url /\ x.readyState = "open"
        BY <2>1 DEF Websocket, ReadyState
      <3>2. opened = [ws EXCEPT ![w] = x] OBVIOUS
      <3> HIDE DEF x, opened
      <3>3. QED BY <1>1, <2>1, <3>1, <3>2
    <2> HIDE DEF opened
    <2>4. CASE r.socket # None /\ opened[r.socket].readyState = "open"
      <3>1. r.socket \in Sockets /\ r.sessionDto \in Nat \cup {None}
        BY <1>2, <2>4 DEF Adapter
      <3> DEFINE x == [opened[r.socket] EXCEPT !.auth = r.sessionDto]
      <3>2. ws' = [opened EXCEPT ![r.socket] = x] BY <2>2, <2>4
      <3>3. /\ x \in Websocket
            /\ x.owner = opened[r.socket].owner
            /\ x.url = opened[r.socket].url
            /\ x.readyState = opened[r.socket].readyState
        BY <2>3, <3>1, SMTT(30) DEF Websocket
      <3> HIDE DEF x
      <3>4. QED BY <2>3, <3>1, <3>2, <3>3 DEF AuthOnly
    <2>5. CASE ~(r.socket # None /\ opened[r.socket].readyState = "open")
      BY <2>2, <2>3, <2>5 DEF AuthOnly
    <2>6. QED BY <2>4, <2>5
  <1>5. left' \in Nat BY <1>1 DEF IInv, TypeOK
  <1> HIDE DEF a, r
  <1>6. QED BY <1>2, <1>3, <1>4, <1>5, OneAdapterKeeps DEF r

LEMMA WsMessageKeeps ==
  ASSUME IInv, NEW w \in Sockets, WsMessage(w) \/ WsReauthRequired(w)
  PROVE  IInv'
  <1> DEFINE a == ws[w].owner
  <1>1. ws[w].readyState # "closed" /\ ws' = ws BY DEF WsMessage, WsReauthRequired
  <1>2. PICK reauth \in BOOLEAN : Deliver(w, OnMessage(ad[a], reauth))
    BY DEF WsMessage, WsReauthRequired
  <1>3. /\ a \in Adapters /\ ad[a] \in Adapter
        /\ ad' = [ad EXCEPT ![a] = OnMessage(ad[a], reauth)]
        /\ eventsCached' \subseteq eventsCached \cup Audible
        /\ UNCHANGED <<printers, store, sessions, task, restore>>
    BY <1>1, <1>2, DeliverStep
  <1>4. /\ OnMessage(ad[a], reauth) \in Adapter
        /\ SameOwner(OnMessage(ad[a], reauth), ad[a])
        /\ SameSocket(OnMessage(ad[a], reauth), ad[a])
    BY <1>3, EventKeeps
  <1>5. left' \in Nat BY SpendKeeps DEF WsMessage, WsReauthRequired, IInv, TypeOK
  <1> HIDE DEF a
  <1>6. QED BY <1>1, <1>3, <1>4, <1>5, OneAdapterKeeps

LEMMA WsFailedKeeps ==
  ASSUME IInv, NEW w \in Sockets, WsFailed(w)
  PROVE  IInv'
  <1> DEFINE a == ws[w].owner
             x == [ws[w] EXCEPT !.readyState = "closing"]
  <1>1. ws[w].readyState = "open" /\ Deliver(w, OnError(ad[a])) /\ Spend("wsError")
    BY DEF WsFailed
  <1>2. /\ a \in Adapters /\ ad[a] \in Adapter
        /\ ad' = [ad EXCEPT ![a] = OnError(ad[a])]
        /\ eventsCached' \subseteq eventsCached \cup Audible
        /\ UNCHANGED <<printers, store, sessions, task, restore>>
    BY <1>1, DeliverStep
  <1>3. TRUE \in BOOLEAN OBVIOUS
  <1>4. /\ OnError(ad[a]) \in Adapter
        /\ SameOwner(OnError(ad[a]), ad[a])
        /\ SameSocket(OnError(ad[a]), ad[a])
    BY <1>2, <1>3, EventKeeps
  <1>5. AuthOnly
    <2>1. ws \in [Sockets -> Websocket] /\ ws' = [ws EXCEPT ![w] = x]
      BY DEF IInv, TypeOK, WsFailed
    <2>2. x \in Websocket /\ x.owner = ws[w].owner /\ x.url = ws[w].url /\ x.readyState = "closing"
      BY <2>1 DEF Websocket, ReadyState
    <2> HIDE DEF x
    <2>3. QED BY <1>1, <2>1, <2>2 DEF AuthOnly
  <1>6. left' \in Nat BY <1>1, SpendKeeps
  <1> HIDE DEF a
  <1>7. QED BY <1>2, <1>4, <1>5, <1>6, OneAdapterKeeps

\* A websocket is gone and its adapter has no socket, whichever it referred to.
LEMMA GoneKeeps ==
  ASSUME IInv, NEW w \in Sockets, NEW r \in Adapter, ws[w].readyState # "closed",
         Deliver(w, r), ws' = [ws EXCEPT ![w] = ClosedSocket],
         SameOwner(r, ad[ws[w].owner]), r.socket = None, left' \in Nat
  PROVE  IInv'
  <1> DEFINE a == ws[w].owner
  <1>1. /\ a \in Adapters /\ ad[a] \in Adapter
        /\ ad' = [ad EXCEPT ![a] = r]
        /\ eventsCached' \subseteq eventsCached \cup Audible
        /\ UNCHANGED <<printers, store, sessions, task, restore>>
    BY DeliverStep
  <1>2. ad' \in [Adapters -> Adapter] /\ ad'[a] = r /\ \A b \in Adapters \ {a} : ad'[b] = ad[b]
    BY <1>1 DEF IInv, TypeOK
  <1>3. \A b \in Adapters : SameOwner(ad'[b], ad[b]) BY <1>2, SameSelf
  <1>4. /\ StoredIsEnabled' /\ OnlyStoredEmits' /\ DeletedStaysForgotten'
        /\ eventsCached' \in SUBSET Printers
    BY <1>1, <1>3, OwnersFrame
  <1>5. /\ ws' \in [Sockets -> Websocket]
        /\ ws'[w].readyState = "closed"
        /\ \A v \in Sockets \ {w} : ws'[v] = ws[v]
    BY DEF IInv, TypeOK, ClosedSocket, Websocket, ReadyState
  <1>6. SocketsOwned' BY <1>5 DEF IInv, SocketsOwned
  <1>7. SocketFollowsLogin'
    <2> SUFFICES ASSUME NEW b \in Adapters, ad'[b].socket # None
                 PROVE  /\ ws'[ad'[b].socket].readyState # "closed"
                        /\ ws'[ad'[b].socket].owner = b
                        /\ ws'[ad'[b].socket].url = ad'[b].login
      BY DEF SocketFollowsLogin
    <2>1. b # a /\ ad'[b] = ad[b] BY <1>2
    <2>2. ad[b].socket \in Sockets /\ ws[ad[b].socket].owner = b
      BY <2>1 DEF IInv, TypeOK, Adapter, SocketFollowsLogin
    <2>3. ad[b].socket # w BY <2>1, <2>2
    <2>4. QED BY <1>5, <2>1, <2>2, <2>3 DEF IInv, SocketFollowsLogin
  <1>8. QED BY <1>1, <1>2, <1>4, <1>5, <1>6, <1>7, RunFrame, Together DEF IInv, TypeOK

LEMMA WsGoneKeeps ==
  ASSUME IInv, NEW w \in Sockets, WsClosed(w) \/ WsConnectFailed(w)
  PROVE  IInv'
  <1> DEFINE r == ad[ws[w].owner]
  <1>1. ws[w].readyState # "closed" /\ ws' = [ws EXCEPT ![w] = ClosedSocket]
    BY DEF WsClosed, WsConnectFailed
  <1>2. r \in Adapter BY <1>1 DEF IInv, SocketsOwned, TypeOK
  <1>3. left' \in Nat BY SpendKeeps DEF WsClosed, WsConnectFailed, IInv, TypeOK
  <1>4. TRUE \in BOOLEAN OBVIOUS
  <1>5. CASE WsClosed(w)
    <2>1. AfterClosed(r) \in Adapter /\ SameOwner(AfterClosed(r), r) /\ AfterClosed(r).socket = None
      BY <1>2, <1>4, EventKeeps
    <2>2. Deliver(w, AfterClosed(r)) BY <1>5 DEF WsClosed
    <2>3. QED BY <1>1, <1>3, <2>1, <2>2, GoneKeeps
  <1>6. CASE WsConnectFailed(w)
    <2> DEFINE q == OnError(r)
    <2>1. q \in Adapter /\ SameOwner(q, r) BY <1>2, <1>4, EventKeeps
    <2>2. Deliver(w, AfterClosed(q)) BY <1>6 DEF WsConnectFailed
    <2> HIDE DEF q
    <2>3. AfterClosed(q) \in Adapter /\ SameOwner(AfterClosed(q), q) /\ AfterClosed(q).socket = None
      BY <1>4, <2>1, EventKeeps
    <2>4. SameOwner(AfterClosed(q), r) BY <2>1, <2>3 DEF SameOwner
    <2>5. QED BY <1>1, <1>3, <2>2, <2>3, <2>4, GoneKeeps
  <1>7. QED BY <1>5, <1>6

---------------------------------------------------------------------------
(* Printer events and requests of the user                                 *)

LEMMA PrinterCreatedKeeps ==
  ASSUME IInv, NEW p \in Printers, NEW a \in Adapters, PrinterCreated(p, a)
  PROVE  IInv'
  <1> DEFINE n == NewAdapter(p)
             l == printers[p].login
             c == RegisterCredentials(n, l)
             r == ResetSocketState(c)
  <1>1. /\ store[p] = None /\ ad[a].printerId = None
        /\ printers[p].status \in {"new", "disabled"}
        /\ printers' = [printers EXCEPT ![p].status = "enabled"]
        /\ store' = [store EXCEPT ![p] = a]
        /\ ad' = [ad EXCEPT ![a] = r]
        /\ eventsCached' = eventsCached \cup {p}
        /\ UNCHANGED <<ws, sessions, task, restore>>
        /\ left' \in Nat
    BY SpendKeeps DEF PrinterCreated
  <1>2. /\ printers \in [Printers -> [status: Status, login: Nat]]
        /\ store \in [Printers -> Adapters \cup {None}]
        /\ ad \in [Adapters -> Adapter]
    BY DEF IInv, TypeOK
  <1>3. l \in Nat BY <1>2
  <1>4. /\ n \in Adapter /\ n.printerId = p
        /\ n.eventEmittingAllowed = TRUE /\ n.socket = None
    BY DEF NewAdapter, Unconstructed, Adapter, SocketState, ApiState
  <1> HIDE DEF n, l
  <1>5. /\ c \in Adapter /\ c.printerId = p
        /\ c.eventEmittingAllowed = TRUE /\ c.socket = None
    BY <1>3, <1>4 DEF RegisterCredentials, Adapter
  <1> HIDE DEF c
  <1>6. /\ r \in Adapter /\ r.printerId = p
        /\ r.eventEmittingAllowed = TRUE /\ r.socket = None
    BY <1>5, ResetKeeps DEF SameOwner, SameSocket
  <1> HIDE DEF r
  <1>7. /\ ad' \in [Adapters -> Adapter] /\ ad'[a] = r
        /\ \A b \in Adapters \ {a} : ad'[b] = ad[b]
        /\ store' \in [Printers -> Adapters \cup {None}] /\ store'[p] = a
        /\ \A q \in Printers \ {p} : store'[q] = store[q]
    BY <1>1, <1>2, <1>6
  <1>8. /\ printers' \in [Printers -> [status: Status, login: Nat]]
        /\ printers'[p].status = "enabled"
        /\ \A q \in Printers \ {p} : printers'[q] = printers[q]
    BY <1>1, <1>2 DEF Status
  <1>9. StoredIsEnabled' BY <1>7, <1>8 DEF IInv, StoredIsEnabled
  <1>10. OnlyStoredEmits'
    <2> SUFFICES ASSUME NEW b \in Adapters, ad'[b].eventEmittingAllowed
                 PROVE  ad'[b].printerId \in Printers /\ store'[ad'[b].printerId] = b
      BY DEF OnlyStoredEmits
    <2>1. CASE b = a BY <1>6, <1>7, <2>1
    <2>2. CASE b # a
      <3>1. ad[b].printerId \in Printers /\ store[ad[b].printerId] = b
        BY <1>7, <2>2 DEF IInv, OnlyStoredEmits
      <3>2. ad[b].printerId # p BY <1>1, <3>1, NoneIsNoObject
      <3>3. QED BY <1>7, <2>2, <3>1, <3>2
    <2>3. QED BY <2>1, <2>2
  <1>11. DeletedStaysForgotten' /\ eventsCached' \in SUBSET Printers
    BY <1>1, <1>8 DEF IInv, TypeOK, DeletedStaysForgotten
  <1>12. SocketsOwned' /\ SocketFollowsLogin'
    BY <1>1, <1>6, <1>7 DEF IInv, SocketsOwned, SocketFollowsLogin
  <1>13. QED
    BY <1>1, <1>7, <1>8, <1>9, <1>10, <1>11, <1>12, RunFrame, Together DEF IInv, TypeOK

\* A step that closes the socket of the adapter in the store for p and gives it
\* the record r: a printer is updated or refreshed.
LEMMA ReconnectKeeps ==
  ASSUME IInv, NEW p \in Printers, NEW a \in Adapters, store[p] = a, NEW r \in Adapter,
         NEW c \in BOOLEAN, SameOwner(r, ad[a]),
         ad' = [ad EXCEPT ![a] = Closed(r, c)],
         ws' = SocketsShut({a}), eventsCached' = Emitted({a}),
         printers' \in [Printers -> [status: Status, login: Nat]],
         \A q \in Printers : printers'[q].status = printers[q].status,
         UNCHANGED <<store, sessions, task, restore>>, left' \in Nat
  PROVE  IInv'
  <1> DEFINE q == Closed(r, c)
  <1>1. q \in Adapter /\ SameOwner(q, r) /\ q.socket = None BY ClosedKeeps
  <1> HIDE DEF q
  <1>2. /\ ad' \in [Adapters -> Adapter] /\ ad'[a] = q
        /\ \A b \in Adapters \ {a} : ad'[b] = ad[b]
    BY <1>1 DEF IInv, TypeOK, q
  <1>3. \A b \in Adapters : SameOwner(ad'[b], ad[b]) BY <1>1, <1>2, SameSelf DEF SameOwner
  <1>4. eventsCached' \subseteq eventsCached \cup Audible BY HeardIsStored
  <1>5. StoredIsEnabled' /\ OnlyStoredEmits'
    BY <1>3 DEF IInv, StoredIsEnabled, OnlyStoredEmits, SameOwner
  <1>6. DeletedStaysForgotten' /\ eventsCached' \in SUBSET Printers
    BY <1>4, HeardIsStored DEF IInv, TypeOK, DeletedStaysForgotten
  <1>7. \A b \in Adapters \ {a} : SameSocket(ad'[b], ad[b]) BY <1>2, SameSelf
  <1>8. ws' \in [Sockets -> Websocket] /\ SocketsOwned' /\ SocketFollowsLogin'
    <2>1. {a} \in SUBSET Adapters /\ \A b \in {a} : ad'[b].socket = None BY <1>1, <1>2
    <2>2. \A b \in Adapters \ {a} : SameSocket(ad'[b], ad[b]) BY <1>7
    <2>3. QED BY <2>1, <2>2, ShutFrame
  <1>9. QED BY <1>2, <1>5, <1>6, <1>8, RunFrame, Together DEF IInv, TypeOK

LEMMA StoredAdapter ==
  ASSUME IInv, NEW p \in Printers, store[p] # None
  PROVE  store[p] \in Adapters /\ ad[store[p]] \in Adapter
  BY DEF IInv, TypeOK

LEMMA PrinterUpdatedKeeps ==
  ASSUME IInv, NEW p \in Printers, NEW l, PrinterUpdated(p, l)
  PROVE  IInv'
  <1> DEFINE a == store[p]
             g == RegisterCredentials(ad[a], l)
             r == ResetSocketState(g)
  <1>1. a \in Adapters /\ ad[a] \in Adapter BY StoredAdapter DEF PrinterUpdated
  <1>2. printers \in [Printers -> [status: Status, login: Nat]] BY DEF IInv, TypeOK
  <1>3. l \in Nat BY <1>2 DEF PrinterUpdated
  <1>4. g \in Adapter /\ SameOwner(g, ad[a])
    BY <1>1, <1>3 DEF RegisterCredentials, Adapter, SameOwner
  <1>5. ad' = [ad EXCEPT ![a] = Closed(r, WasConnecting(a))] BY DEF PrinterUpdated
  <1> HIDE DEF g
  <1>6. r \in Adapter /\ SameOwner(r, ad[a]) BY <1>4, ResetKeeps DEF SameOwner
  <1> HIDE DEF r
  <1>7. /\ printers' \in [Printers -> [status: Status, login: Nat]]
        /\ \A q \in Printers : printers'[q].status = printers[q].status
    BY <1>2, <1>3 DEF PrinterUpdated
  <1>8. left' \in Nat BY SpendKeeps DEF PrinterUpdated
  <1>9. /\ ws' = SocketsShut({a}) /\ eventsCached' = Emitted({a})
        /\ UNCHANGED <<store, sessions, task, restore>>
    BY DEF PrinterUpdated
  <1>10. QED BY <1>1, <1>5, <1>6, <1>7, <1>8, <1>9, ReconnectKeeps, WasConnectingIsBoolean

LEMMA RefreshPrinterSocketKeeps ==
  ASSUME IInv, NEW p \in Printers, RefreshPrinterSocket(p)
  PROVE  IInv'
  <1> DEFINE a == store[p]
             r == ResetSocketState(ad[a])
  <1>1. a \in Adapters /\ ad[a] \in Adapter
    BY StoredAdapter DEF RefreshPrinterSocket, ReconnectOctoPrint
  <1>2. r \in Adapter /\ SameOwner(r, ad[a]) BY <1>1, ResetKeeps
  <1>3. ad' = [ad EXCEPT ![a] = Closed(r, WasConnecting(a))]
    BY DEF RefreshPrinterSocket, ReconnectOctoPrint
  <1> HIDE DEF r
  <1>4. left' \in Nat BY SpendKeeps DEF RefreshPrinterSocket, ReconnectOctoPrint
  <1>5. /\ ws' = SocketsShut({a}) /\ eventsCached' = Emitted({a})
        /\ UNCHANGED <<printers, store, sessions, task, restore>>
    BY DEF RefreshPrinterSocket, ReconnectOctoPrint
  <1>6. /\ printers' \in [Printers -> [status: Status, login: Nat]]
        /\ \A q \in Printers : printers'[q].status = printers[q].status
    BY <1>5 DEF IInv, TypeOK
  <1>7. QED BY <1>1, <1>2, <1>3, <1>4, <1>5, <1>6, ReconnectKeeps, WasConnectingIsBoolean

\* deleteSocket: the adapter leaves the store silenced and without a socket.
LEMMA DeleteSocketStep ==
  ASSUME IInv, NEW p \in Printers, DeleteSocket(p)
  PROVE  /\ store' \in [Printers -> Adapters \cup {None}]
         /\ store'[p] = None
         /\ \A q \in Printers \ {p} : store'[q] = store[q]
         /\ ad' \in [Adapters -> Adapter]
         /\ OnlyStoredEmits'
         /\ ws' \in [Sockets -> Websocket]
         /\ SocketsOwned'
         /\ SocketFollowsLogin'
  <1>1. /\ store' \in [Printers -> Adapters \cup {None}]
        /\ store'[p] = None
        /\ \A q \in Printers \ {p} : store'[q] = store[q]
    BY DEF DeleteSocket, IInv, TypeOK
  <1>2. CASE store[p] = None
    <2>1. UNCHANGED <<ad, ws>> BY <1>2 DEF DeleteSocket
    <2>2. OnlyStoredEmits' BY <1>1, <1>2, <2>1, NoneIsNoObject DEF IInv, OnlyStoredEmits
    <2>3. QED BY <1>1, <2>1, <2>2, SocketsFrame, SameSelf DEF IInv, TypeOK
  <1>3. CASE store[p] # None
    <2> DEFINE a == store[p]
               m == [ad[a] EXCEPT !.eventEmittingAllowed = FALSE]
               q == Closed(m, WasConnecting(a))
    <2>1. a \in Adapters /\ ad[a] \in Adapter BY <1>3, StoredAdapter
    <2>2. m \in Adapter /\ m.eventEmittingAllowed = FALSE BY <2>1 DEF Adapter
    <2>3. ad' = [ad EXCEPT ![a] = q] /\ ws' = SocketsShut({a})
      BY <1>3 DEF DeleteSocket, Purged
    <2> HIDE DEF m
    <2>4. q \in Adapter /\ q.eventEmittingAllowed = FALSE /\ q.socket = None
      BY <2>1, <2>2, ClosedKeeps, WasConnectingIsBoolean DEF SameOwner
    <2> HIDE DEF q
    <2>5. /\ ad' \in [Adapters -> Adapter] /\ ad'[a] = q
          /\ \A b \in Adapters \ {a} : ad'[b] = ad[b]
      BY <2>1, <2>3, <2>4 DEF IInv, TypeOK
    <2>6. OnlyStoredEmits'
      <3> SUFFICES ASSUME NEW b \in Adapters, ad'[b].eventEmittingAllowed
                   PROVE  ad'[b].printerId \in Printers /\ store'[ad'[b].printerId] = b
        BY DEF OnlyStoredEmits
      <3>1. b # a /\ ad'[b] = ad[b] BY <2>4, <2>5
      <3>2. ad[b].printerId \in Printers /\ store[ad[b].printerId] = b
        BY <3>1 DEF IInv, OnlyStoredEmits
      <3>3. ad[b].printerId # p BY <3>1, <3>2
      <3>4. QED BY <1>1, <3>1, <3>2, <3>3
    <2>7. \A b \in Adapters \ {a} : SameSocket(ad'[b], ad[b]) BY <2>5, SameSelf
    <2>8. {a} \in SUBSET Adapters /\ \A b \in {a} : ad'[b].socket = None BY <2>1, <2>4, <2>5
    <2>9. ws' \in [Sockets -> Websocket] /\ SocketsOwned' /\ SocketFollowsLogin'
      BY <2>3, <2>7, <2>8, ShutFrame
    <2>10. QED BY <1>1, <2>5, <2>6, <2>9
  <1>4. QED BY <1>2, <1>3

LEMMA PrinterRemovedKeeps ==
  ASSUME IInv, NEW p \in Printers, PrinterDisabled(p) \/ PrintersDeleted(p)
  PROVE  IInv'
  <1>1. /\ DeleteSocket(p)
        /\ UNCHANGED <<sessions, task, restore>>
        /\ left' \in Nat
    BY SpendKeeps DEF PrinterDisabled, PrintersDeleted
  <1>2. printers \in [Printers -> [status: Status, login: Nat]] BY DEF IInv, TypeOK
  <1>3. PICK status \in {"disabled", "deleted"} :
          /\ printers' = [printers EXCEPT ![p].status = status]
          /\ status = "disabled" => eventsCached' = eventsCached
          /\ status = "deleted" => eventsCached' = eventsCached \ {p}
    BY DEF PrinterDisabled, PrintersDeleted
  <1>4. /\ printers' \in [Printers -> [status: Status, login: Nat]]
        /\ printers'[p].status = status
        /\ \A q \in Printers \ {p} : printers'[q] = printers[q]
    BY <1>2, <1>3 DEF Status
  <1>5. StoredIsEnabled' BY <1>1, <1>4, DeleteSocketStep DEF IInv, StoredIsEnabled
  <1>6. DeletedStaysForgotten' /\ eventsCached' \in SUBSET Printers
    BY <1>3, <1>4 DEF IInv, TypeOK, DeletedStaysForgotten
  <1>7. QED BY <1>1, <1>4, <1>5, <1>6, DeleteSocketStep, RunFrame, Together DEF IInv, TypeOK

---------------------------------------------------------------------------
(* The theorems                                                            *)

LEMMA InitEstablishes == Init => IInv
  <1> SUFFICES ASSUME Init PROVE IInv OBVIOUS
  <1>1. Unconstructed \in Adapter /\ ClosedSocket \in Websocket
    BY DEF Unconstructed, Adapter, SocketState, ApiState, ClosedSocket, Websocket, ReadyState
  <1>2. TypeOK BY <1>1, BudgetIsCount DEF Init, TypeOK, Status
  <1>3. StoredIsEnabled /\ OnlyStoredEmits /\ DeletedStaysForgotten
    BY DEF Init, StoredIsEnabled, OnlyStoredEmits, DeletedStaysForgotten, Unconstructed
  <1>4. SocketsOwned /\ SocketFollowsLogin
    BY DEF Init, SocketsOwned, SocketFollowsLogin, Unconstructed, ClosedSocket
  <1>5. SessionsOfRun /\ OneSession BY DEF Init, SessionsOfRun, OneSession
  <1>6. QED BY <1>2, <1>3, <1>4, <1>5 DEF IInv

LEMMA NextPreserves == IInv /\ [Next]_vars => IInv'
  <1> SUFFICES ASSUME IInv, [Next]_vars PROVE IInv' OBVIOUS
  <1>1. CASE UserStep
    BY <1>1, PrinterCreatedKeeps, PrinterUpdatedKeeps, PrinterRemovedKeeps,
       RefreshPrinterSocketKeeps DEF UserStep
  <1>2. CASE TaskStep
    BY <1>2, ReconnectTickKeeps, RestoreTickKeeps, RestoreResumeKeeps DEF TaskStep
  <1>3. CASE SessionStep
    BY <1>3, SessionLoginKeeps, SessionUserKeeps, SessionCurrentKeeps, SessionAuthSentKeeps
    DEF SessionStep
  <1>4. CASE AdapterStep BY <1>4, RefreshKeeps DEF AdapterStep
  <1>5. CASE WsStep
    BY <1>5, WsOpenedKeeps, WsMessageKeeps, WsFailedKeeps, WsGoneKeeps DEF WsStep
  <1>6. CASE UNCHANGED vars
    BY <1>6 DEF vars, IInv, TypeOK, StoredIsEnabled, OnlyStoredEmits, DeletedStaysForgotten,
                SocketsOwned, SocketFollowsLogin, SessionsOfRun, OneSession
  <1>7. QED BY <1>1, <1>2, <1>3, <1>4, <1>5, <1>6 DEF Next

\* The inductive invariant holds throughout.
THEOREM Invariance == Spec => []IInv
  BY InitEstablishes, NextPreserves, PTL DEF Spec

\* Type correctness of the adapters, the websockets, the sessions and the rest.
THEOREM TypeCorrect == Spec => []TypeOK
  <1>1. IInv => TypeOK BY DEF IInv
  <1>2. QED BY <1>1, Invariance, PTL

\* reconnectPrinterSockets never runs setupSocketSession twice at a time for an
\* adapter, whatever is purged, refreshed or updated while it waits.
THEOREM SessionsAreExclusive == Spec => []OneSession
  <1>1. IInv => OneSession BY DEF IInv
  <1>2. QED BY <1>1, Invariance, PTL

\* deleteSocket silences an adapter for good: only the adapter in the store
\* emits for a printer.
THEOREM PurgedIsSilent == Spec => []OnlyStoredEmits
  <1>1. IInv => OnlyStoredEmits BY DEF IInv
  <1>2. QED BY <1>1, Invariance, PTL

\* The printer events cache never regains a printer that was deleted.
THEOREM DeletedIsForgotten == Spec => []DeletedStaysForgotten
  <1>1. IInv => DeletedStaysForgotten BY DEF IInv
  <1>2. QED BY <1>1, Invariance, PTL

\* An adapter that was purged neither emits nor leaves its printer in the events cache.
THEOREM PurgedStaysGone == Spec => []PurgedIsGone
  <1>1. OnlyStoredEmits /\ DeletedStaysForgotten => PurgedIsGone BY DEF PurgedIsGone
  <1>2. QED BY <1>1, PurgedIsSilent, DeletedIsForgotten, PTL

\* The socket an adapter refers to is live, its own, and to the URL registered.
THEOREM SocketIsCurrent == Spec => []SocketFollowsLogin
  <1>1. IInv => SocketFollowsLogin BY DEF IInv
  <1>2. QED BY <1>1, Invariance, PTL

---------------------------------------------------------------------------
(* PrinterSockets implements TaskRounds                                    *)

\* The adapters of the sessions pending.
Pending == {s.adapter : s \in sessions}

LEMMA NewPending ==
  ASSUME NEW A, NEW kind
  PROVE  {s.adapter : s \in NewSessions(A, kind)} = A
  <1>1. ASSUME NEW a \in A
        PROVE  a \in {s.adapter : s \in NewSessions(A, kind)}
    <2> DEFINE s == [adapter |-> a, kind |-> kind, pc |-> "login", login |-> ad[a].login]
    <2>1. s \in NewSessions(A, kind) /\ s.adapter = a BY DEF NewSessions
    <2>2. QED BY <2>1
  <1>2. \A s \in NewSessions(A, kind) : s.adapter \in A BY DEF NewSessions
  <1>3. QED BY <1>1, <1>2

\* The second batch of a run, or a run that has only that.
LEMMA OpenPhasePending ==
  ASSUME IInv, NEW adapters, NEW emitters, OpenPhase(adapters, emitters)
  PROVE  \E batch \in SUBSET Adapters :
           Pending' = batch /\ task' = IF batch = {} THEN "idle" ELSE "open"
  <1> DEFINE down == {a \in Stored : NeedsSetup(adapters[a]) \/ NeedsReopen(adapters[a])}
  <1>1. /\ down \in SUBSET Adapters
        /\ sessions' = NewSessions(down, "setup")
        /\ task' = IF down = {} THEN "idle" ELSE "open"
    BY DEF OpenPhase, Stored
  <1> HIDE DEF down
  <1>2. Pending' = down BY <1>1, NewPending DEF Pending
  <1>3. QED BY <1>1, <1>2

LEMMA SettleRound ==
  ASSUME IInv, NEW s \in sessions, NEW r, Settle(s, r)
  PROVE  Rounds!Next
  <1> DEFINE rest == sessions \ {s}
  <1>1. s.adapter \in Adapters /\ s.adapter \in Pending
    BY DEF IInv, TypeOK, Session, Pending
  <1>2. \A t \in rest : t.adapter \in Pending /\ t.adapter # s.adapter
    BY DEF IInv, OneSession, Pending
  <1>3. CASE rest = {} /\ task = "reauth"
    <2>1. Pending = {s.adapter} BY <1>3 DEF Pending
    <2>2. PICK batch \in SUBSET Adapters :
            Pending' = batch /\ task' = IF batch = {} THEN "idle" ELSE "open"
      BY <1>3, OpenPhasePending DEF Settle
    <2>3. Rounds!SettleLastReauth(batch)
      BY <1>1, <1>3, <2>1, <2>2 DEF Rounds!SettleLastReauth, Pending
    <2>4. QED BY <2>3 DEF Rounds!Next
  <1>4. CASE rest = {} /\ task # "reauth"
    <2>1. Pending = {s.adapter} /\ task = "open" BY <1>4 DEF Pending, IInv, SessionsOfRun
    <2>2. sessions' = {} /\ task' = "idle" BY <1>4 DEF Settle
    <2>3. Pending' = {} BY <2>2 DEF Pending
    <2>4. Rounds!SettleLastOpen BY <1>1, <2>1, <2>2, <2>3 DEF Rounds!SettleLastOpen, Pending
    <2>5. QED BY <2>4 DEF Rounds!Next
  <1>5. CASE rest # {}
    <2>1. sessions' = rest /\ task' = task BY <1>5 DEF Settle
    <2>2. Pending' = Pending \ {s.adapter} BY <1>2, <2>1 DEF Pending
    <2>3. Pending # {s.adapter} BY <1>2, <1>5
    <2>4. Rounds!Settle(s.adapter) BY <1>1, <2>1, <2>2, <2>3 DEF Rounds!Settle, Pending
    <2>5. QED BY <1>1, <2>4 DEF Rounds!Next
  <1>6. QED BY <1>3, <1>4, <1>5

LEMMA AdvanceRound ==
  ASSUME IInv, NEW s \in sessions, NEW pc, NEW r, Advance(s, pc, r)
  PROVE  UNCHANGED <<task, Pending>>
  <1> DEFINE moved == [s EXCEPT !.pc = pc]
  <1>1. s \in Session BY DEF IInv, TypeOK
  <1>2. moved.adapter = s.adapter BY <1>1 DEF Session
  <1>3. sessions' = (sessions \ {s}) \cup {moved} /\ task' = task BY DEF Advance
  <1> HIDE DEF moved
  <1>4. Pending' = Pending BY <1>2, <1>3 DEF Pending
  <1>5. QED BY <1>3, <1>4

LEMMA SessionRound ==
  ASSUME IInv, SessionStep
  PROVE  Rounds!Next \/ UNCHANGED <<task, Pending>>
  <1>1. PICK s \in sessions :
          SessionLogin(s) \/ SessionUser(s) \/ SessionCurrent(s) \/ SessionAuthSent(s)
    BY DEF SessionStep
  <1>2. \/ \E r : Settle(s, r)
        \/ \E pc, r : Advance(s, pc, r)
    <2>1. CASE SessionLogin(s) BY <2>1 DEF SessionLogin
    <2>2. CASE SessionUser(s) BY <2>2 DEF SessionUser
    <2>3. CASE SessionCurrent(s)
      <3>1. PICK outcome \in RefreshOutcomes :
              LET r == ArmRefresh(UpdateCurrentState(ad[s.adapter], outcome))
              IN  IF s.kind = "setup" THEN OpenSocket(s, r) ELSE SendAuth(s, r)
        BY <2>3 DEF SessionCurrent
      <3>2. PICK r : OpenSocket(s, r) \/ SendAuth(s, r) BY <3>1
      <3>3. QED BY <3>2 DEF OpenSocket, SendAuth
    <2>4. CASE SessionAuthSent(s) BY <2>4 DEF SessionAuthSent
    <2>5. QED BY <1>1, <2>1, <2>2, <2>3, <2>4
  <1>3. QED BY <1>2, SettleRound, AdvanceRound

LEMMA ReconnectRound ==
  ASSUME IInv, ReconnectTick
  PROVE  Rounds!Next \/ UNCHANGED <<task, Pending>>
  <1> DEFINE expired == {a \in Stored : ad[a].reauthRequired}
  <1>1. task = "idle" /\ sessions = {} BY DEF ReconnectTick, IInv, SessionsOfRun
  <1>2. CASE expired = {}
    <2>1. PICK batch \in SUBSET Adapters :
            Pending' = batch /\ task' = IF batch = {} THEN "idle" ELSE "open"
      BY <1>2, OpenPhasePending DEF ReconnectTick
    <2>2. CASE batch = {} BY <1>1, <2>1, <2>2 DEF Pending
    <2>3. CASE batch # {}
      <3>1. Rounds!StartOpen(batch) BY <1>1, <2>1, <2>3 DEF Rounds!StartOpen, Pending
      <3>2. QED BY <3>1 DEF Rounds!Next
    <2>4. QED BY <2>2, <2>3
  <1>3. CASE expired # {}
    <2>1. PICK batch \in SUBSET Adapters :
            /\ batch # {}
            /\ sessions' = NewSessions(batch, "reauth")
            /\ task' = "reauth"
      BY <1>3 DEF ReconnectTick, Stored
    <2>2. Pending' = batch BY <2>1, NewPending DEF Pending
    <2>3. Rounds!StartReauth(batch) BY <1>1, <2>1, <2>2 DEF Rounds!StartReauth, Pending
    <2>4. QED BY <2>1, <2>3 DEF Rounds!Next
  <1>4. QED BY <1>2, <1>3

\* Sessions come in the rounds of the abstract specification: every step of the
\* store, the tasks and the adapters is a step of TaskRounds or changes nothing.
THEOREM RoundsImplemented == Spec => ImplementsRounds
  <1>1. Init => Rounds!Init BY DEF Init, Rounds!Init
  <1>2. IInv /\ [Next]_vars => [Rounds!Next]_<<task, Pending>>
    <2> SUFFICES ASSUME IInv, [Next]_vars
                 PROVE  Rounds!Next \/ UNCHANGED <<task, Pending>>
      OBVIOUS
    <2>1. CASE UserStep
      <3>1. UNCHANGED <<sessions, task>>
        BY <2>1 DEF UserStep, PrinterCreated, PrinterUpdated, PrinterDisabled,
                    PrintersDeleted, RefreshPrinterSocket, ReconnectOctoPrint
      <3>2. QED BY <3>1 DEF Pending
    <2>2. CASE TaskStep
      <3>1. ReconnectTick \/ UNCHANGED <<sessions, task>>
        BY <2>2 DEF TaskStep, RestoreTick, RestoreResume
      <3>2. QED BY <3>1, ReconnectRound DEF Pending
    <2>3. CASE SessionStep BY <2>3, SessionRound
    <2>4. CASE AdapterStep BY <2>4 DEF AdapterStep, RefreshTick, RefreshAnswered, Pending
    <2>5. CASE WsStep
      <3>1. UNCHANGED <<sessions, task>>
        BY <2>5 DEF WsStep, WsOpened, WsConnectFailed, WsMessage, WsReauthRequired,
                    WsFailed, WsClosed, Deliver
      <3>2. QED BY <3>1 DEF Pending
    <2>6. CASE UNCHANGED vars BY <2>6 DEF vars, Pending
    <2>7. QED BY <2>1, <2>2, <2>3, <2>4, <2>5, <2>6 DEF Next
  <1>3. QED BY <1>1, <1>2, Invariance, PTL DEF Spec, ImplementsRounds, Rounds!Spec, Pending
=============================================================================
