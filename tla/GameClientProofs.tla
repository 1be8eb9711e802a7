-------------------------- MODULE GameClientProofs --------------------------
(***************************************************************************)
(* The page never forgets a live socket, tells its user only of commands   *)
(* that were carried out, and a session loses its connection only with its *)
(* socket, for any number of sockets, commands and faults.                 *)
(*                                                                         *)
(* The attempt number is what the first rests on: of the session checks    *)
(* under way at most one has the present number, and while it is under way *)
(* there is no live socket and the page is signed in (Attempts).           *)
(***************************************************************************)
EXTENDS GameClient, TLAPS

Live == {"connecting", "open"}
MessageTypes == {"connected", "room_state", "game_state", "spectator_state",
                 "spectating_ended", "action_result", "left_room",
                 "social_error", "error", "reset", "close", "resume"}
Messages == [type : MessageTypes, phase : Phases, ver : 0 .. MaxEvents,
             req : Requests \cup {0}]

(* An answer that reports success is to a command that was carried out. *)
Answers(done) ==
  {m \in Messages : m.type = "action_result" => m.req \in done \cup {0}}
Writes(done) == [to : Sockets \cup {0}, msg : Answers(done)]

Ups == {u \in [cmd : Commands \cup {"connect"}, req : Requests \cup {0}] :
          u.cmd # "connect" => u.req \in Requests}
SocketStates ==
  [client : {"none", "closed"} \cup Live, server : {"none", "open", "closed"},
   link : BOOLEAN, up : Seq(Ups)]
Stores ==
  [status : {"idle", "disconnected", "connecting", "connected"},
   room : Phases \cup {"none"}, game : 0 .. MaxEvents,
   completed : 0 .. MaxEvents, spectating : BOOLEAN, lastError : BOOLEAN]
Refs ==
  [socket : Sockets \cup {0}, attempt : Nat, inFlight : BOOLEAN, timer : BOOLEAN]
Envs ==
  [signedIn : BOOLEAN, cookie : {"valid", "expired", "revoked"}, faults : Nat]
Outcomes == {"unsent", "sent", "waiting", "resolved", "rejected"}

ClientTypes ==
  /\ store \in Stores
  /\ refs \in Refs
  /\ pending \subseteq Requests
  /\ authCalls \subseteq [attempt : Nat, good : BOOLEAN]
  /\ outcome \in [Requests -> Outcomes]
  /\ env \in Envs

Lobbies ==
  [conn : Sockets \cup {0}, seat : BOOLEAN, watcher : Sockets \cup {0},
   phase : Phases, ver : 0 .. MaxEvents]

ServerTypes ==
  /\ lobby \in Lobbies
  /\ outbox \in [Sockets \cup {0} -> Seq(Writes(applied))]
  /\ applied \subseteq Requests

SocketTypes == socks \in [Sockets -> SocketStates]

Attempts ==
  /\ \A a \in authCalls : a.attempt <= refs.attempt
  /\ \A a, b \in authCalls : a.attempt = b.attempt => a = b
  /\ \A a \in authCalls : a.attempt = refs.attempt =>
       ~SocketIs(refs.socket, Live) /\ env.signedIn
  /\ refs.timer => env.signedIn

(* The session's socket has been accepted by the server. *)
Accepted == lobby.conn # 0 => socks[lobby.conn].server # "none"

(* The inductive invariant. *)
ClientInv ==
  /\ ClientTypes /\ ServerTypes /\ SocketTypes
  /\ OneLiveSocket /\ Attempts /\ Accepted /\ ResolvedWasApplied

-----------------------------------------------------------------------------
(***************************************************************************)
(* Lemmas about messages and answers.                                      *)
(***************************************************************************)
\* The numbers of sockets and commands do not include 0.
LEMMA Numbers ==
  /\ MaxEvents \in Nat /\ 1 \in 0 .. MaxEvents /\ 0 \in 0 .. MaxEvents
  /\ Sockets \subseteq Nat /\ 0 \notin Sockets
  /\ Requests \subseteq Nat /\ 0 \notin Requests
  BY BoundsAssumption DEF Sockets, Requests

\* What may be written stays so when more commands have been carried out.
LEMMA WritesGrow ==
  ASSUME NEW done, NEW more, done \subseteq more
  PROVE  Seq(Writes(done)) \subseteq Seq(Writes(more))
<1>1. Writes(done) \subseteq Writes(more)
  BY DEF Writes, Answers
<1> QED BY <1>1

\* A batch of answers is a sequence of writes.
LEMMA BatchType ==
  ASSUME NEW done, NEW s \in Sockets \cup {0}, NEW msgs \in Seq(Answers(done))
  PROVE  Batch(s, msgs) \in Seq(Writes(done))
<1>1. DOMAIN msgs = 1 .. Len(msgs) /\ Len(msgs) \in Nat
      /\ \A i \in 1 .. Len(msgs) : msgs[i] \in Answers(done)
  OBVIOUS
<1>2. \A i \in 1 .. Len(msgs) : [to |-> s, msg |-> msgs[i]] \in Writes(done)
  BY <1>1 DEF Writes
<1>3. [i \in 1 .. Len(msgs) |-> [to |-> s, msg |-> msgs[i]]] \in [1 .. Len(msgs) -> Writes(done)]
  BY <1>2
<1> QED BY <1>1, <1>3 DEF Batch

\* So is a broadcast, whoever gets it.
LEMMA BroadcastType ==
  ASSUME ServerTypes, NEW done, NEW msgs \in Seq(Answers(done))
  PROVE  Broadcast(msgs) \in Seq(Writes(done))
<1>1. lobby.conn \in Sockets \cup {0} /\ peer \in Sockets \cup {0}
  BY DEF ServerTypes, Lobbies, peer
<1>2. Batch(lobby.conn, msgs) \in Seq(Writes(done))
  BY <1>1, BatchType
<1>3. Batch(peer, msgs) \in Seq(Writes(done))
  BY <1>1, BatchType
<1>4. <<>> \in Seq(Writes(done))
  OBVIOUS
<1> QED BY <1>2, <1>3, <1>4 DEF Broadcast

\* A message that is no report of success may always be written.
LEMMA PlainAnswers ==
  ASSUME NEW done, NEW type \in MessageTypes \ {"action_result"},
         NEW phase \in Phases, NEW ver \in 0 .. MaxEvents, NEW req \in Requests \cup {0}
  PROVE  Message(type, phase, ver, req) \in Answers(done)
  BY DEF Message, Answers, Messages

\* A report of success may be written once the command has been carried out.
LEMMA ResultAnswers ==
  ASSUME NEW done \in SUBSET Requests, NEW phase \in Phases,
         NEW ver \in 0 .. MaxEvents, NEW req \in done \cup {0}
  PROVE  Message("action_result", phase, ver, req) \in Answers(done)
  BY DEF Message, Answers, Messages, MessageTypes

\* Every message that reaches the page leaves a store.
LEMMA ReduceType ==
  ASSUME NEW st \in Stores, NEW m \in Messages, m.type \notin {"reset", "close", "resume"}
  PROVE  reduceIncomingMessage(st, m) \in Stores
<1>1. /\ clearError(st) \in Stores /\ withError(st) \in Stores
      /\ m.phase \in Phases /\ m.ver \in 0 .. MaxEvents
  BY DEF clearError, withError, Stores, Messages
<1>2. reduceRoomState(st, m) \in Stores
  BY <1>1, Numbers DEF reduceRoomState, Stores
<1>3. reduceGameState(st, m) \in Stores
  BY <1>1, Numbers DEF reduceGameState, Stores
<1>4. m.type \in {"connected", "room_state", "game_state", "spectator_state",
                 "spectating_ended", "action_result", "left_room",
                 "social_error", "error"}
  BY DEF Messages, MessageTypes
<1>5. CASE m.type = "connected"
  BY <1>1, <1>5 DEF reduceIncomingMessage, Stores
<1>6. CASE m.type = "room_state"
  BY <1>2, <1>6 DEF reduceIncomingMessage
<1>7. CASE m.type \in {"game_state", "spectator_state"}
  BY <1>3, <1>7 DEF reduceIncomingMessage
<1>8. CASE m.type = "spectating_ended"
  BY <1>1, <1>8, Numbers DEF reduceIncomingMessage, Stores
<1>9. CASE m.type \in {"action_result", "social_error"}
  BY <1>1, <1>9 DEF reduceIncomingMessage
<1>10. CASE m.type = "left_room"
  BY <1>1, <1>10, Numbers DEF reduceIncomingMessage, Stores
<1>11. CASE m.type = "error"
  BY <1>1, <1>11 DEF reduceIncomingMessage, Stores
<1> QED BY <1>4, <1>5, <1>6, <1>7, <1>8, <1>9, <1>10, <1>11

(* What the end of some promises leaves. *)
Promises ==
  pending \subseteq Requests /\ outcome \in [Requests -> Outcomes] /\ ResolvedWasApplied

\* A promise may be rejected at any time.
LEMMA RejectKeeps ==
  ASSUME Promises, NEW ids, rejectPendingActions(ids), applied \subseteq applied'
  PROVE  Promises'
  BY DEF Promises, rejectPendingActions, settle, ResolvedWasApplied, Outcomes

\* A message that reaches the page resolves only what was carried out.
LEMMA EmitKeeps ==
  ASSUME Promises, store \in Stores, NEW s, NEW m \in Answers(applied),
         m.type \notin {"reset", "close", "resume"}, emitEvent(s, m), applied' = applied
  PROVE  Promises' /\ store' \in Stores
<1>1. m \in Messages
  BY DEF Answers
<1>2. CASE UNCHANGED <<store, pending, outcome>>
  BY <1>2 DEF Promises, ResolvedWasApplied
<1>3. CASE applyIncomingMessage(m)
  <2>1. store' \in Stores
    BY <1>1, <1>3, ReduceType DEF applyIncomingMessage
  <2>2. CASE m.type = "action_result" /\ resolvePendingAction(m)
    <3>1. m.req \in applied \cup {0}
      BY <2>2 DEF Answers
    <3> QED BY <2>1, <2>2, <3>1, Numbers
            DEF Promises, resolvePendingAction, settle, ResolvedWasApplied, Outcomes
  <2>3. CASE rejectPendingActions({m.req})
    BY <2>1, <2>3, RejectKeeps
  <2>4. CASE UNCHANGED <<pending, outcome>>
    BY <2>1, <2>4 DEF Promises, ResolvedWasApplied
  <2> QED BY <1>3, <2>2, <2>3, <2>4 DEF applyIncomingMessage
<1> QED BY <1>2, <1>3 DEF emitEvent

-----------------------------------------------------------------------------
(***************************************************************************)
(* The client's steps.                                                     *)
(***************************************************************************)
\* A page is loaded with nothing under way.
LEMMA InitClient == Init => ClientInv
<1> SUFFICES ASSUME Init PROVE ClientInv
  OBVIOUS
<1>1. ClientTypes
  BY Numbers DEF Init, ClientTypes, initialState, initialRefs, Stores, Outcomes, Refs, Envs
<1>2. SocketTypes
  BY DEF Init, SocketTypes, SocketStates, noSocket
<1>3. ServerTypes
  BY Numbers DEF Init, ServerTypes, Lobbies, Phases, peer
<1>4. OneLiveSocket /\ Accepted
  BY DEF Init, OneLiveSocket, SocketIs, Accepted, noSocket
<1>5. Attempts /\ ResolvedWasApplied
  BY DEF Init, Attempts, ResolvedWasApplied, initialRefs
<1> QED BY <1>1, <1>2, <1>3, <1>4, <1>5 DEF ClientInv

\* A new attempt makes every session check under way an old one.
LEMMA ConnectStep ==
  ASSUME ClientInv, connect, env.signedIn,
         UNCHANGED <<pending, socks, outcome, env, serverVars>>
  PROVE  ClientInv'
<1>1. /\ ClientTypes /\ ServerTypes /\ SocketTypes /\ OneLiveSocket /\ Attempts
      /\ Accepted /\ ResolvedWasApplied
      /\ UNCHANGED <<pending, socks, outcome, env, lobby, outbox, applied>>
  BY DEF ClientInv, serverVars
<1>2. ServerTypes' /\ SocketTypes' /\ Accepted' /\ ResolvedWasApplied'
  BY <1>1 DEF ServerTypes, SocketTypes, Accepted, ResolvedWasApplied
<1>3. CASE refs.inFlight \/ SocketIs(refs.socket, {"connecting", "open"})
  <2>1. refs' = [refs EXCEPT !.timer = FALSE] /\ UNCHANGED <<store, authCalls>>
    BY <1>3 DEF connect
  <2>2. refs'.socket = refs.socket /\ refs'.attempt = refs.attempt /\ ~refs'.timer
    BY <1>1, <2>1 DEF ClientTypes, Refs
  <2>3. ClientTypes'
    BY <1>1, <2>1 DEF ClientTypes, Refs
  <2>4. OneLiveSocket' /\ Attempts'
    BY <1>1, <2>1, <2>2 DEF OneLiveSocket, Attempts, SocketIs
  <2> QED BY <1>2, <2>3, <2>4 DEF ClientInv
<1>4. CASE ~(refs.inFlight \/ SocketIs(refs.socket, {"connecting", "open"}))
  <2> DEFINE new == [attempt |-> refs.attempt + 1, good |-> env.cookie = "valid"]
  <2>1. /\ refs' = [refs EXCEPT !.timer = FALSE, !.attempt = @ + 1, !.inFlight = TRUE]
        /\ store' = [clearError(store) EXCEPT
                       !.status = IF @ = "disconnected" THEN @ ELSE "connecting"]
        /\ authCalls' = authCalls \cup {new}
    BY <1>4 DEF connect
  <2>2. /\ refs'.socket = refs.socket /\ refs'.attempt = refs.attempt + 1 /\ ~refs'.timer
        /\ refs.attempt \in Nat /\ \A a \in authCalls : a.attempt \in Nat
    BY <1>1, <2>1 DEF ClientTypes, Refs
  <2>3. store' \in Stores
    BY <1>1, <2>1 DEF ClientTypes, clearError, Stores
  <2>4. new \in [attempt : Nat, good : BOOLEAN]
    BY <2>2
  <2>5. refs' \in Refs
    <3>1. refs \in Refs
      BY <1>1 DEF ClientTypes
    <3>2. refs' = [refs EXCEPT !.timer = FALSE, !.attempt = refs.attempt + 1, !.inFlight = TRUE]
      BY <2>1
    <3>3. refs.attempt + 1 \in Nat
      BY <2>2
    <3> QED BY <3>1, <3>2, <3>3 DEF Refs
  <2>6. ClientTypes'
    BY <1>1, <2>1, <2>3, <2>4, <2>5 DEF ClientTypes
  <2>7. OneLiveSocket'
    BY <1>1, <2>2 DEF OneLiveSocket, SocketIs
  <2>8. \A a \in authCalls : a.attempt <= refs.attempt /\ a.attempt # refs.attempt + 1
    BY <1>1, <2>2 DEF Attempts
  <2>9. new.attempt = refs.attempt + 1
    OBVIOUS
  <2>10. ~SocketIs(refs.socket, Live)
    BY <1>4 DEF Live
  <2> HIDE DEF new
  <2>11. Attempts'
    <3>1. \A a \in authCalls' : a.attempt <= refs'.attempt
      BY <2>1, <2>2, <2>8, <2>9
    <3>2. \A a, b \in authCalls' : a.attempt = b.attempt => a = b
      BY <1>1, <2>1, <2>8, <2>9 DEF Attempts
    <3>3. ~SocketIs(refs.socket, Live)'
      BY <1>1, <2>2, <2>10 DEF SocketIs
    <3> QED BY <1>1, <2>2, <3>1, <3>2, <3>3 DEF Attempts
  <2> QED BY <1>2, <2>6, <2>7, <2>11 DEF ClientInv
<1> QED BY <1>3, <1>4

\* A session check ends without a socket.
LEMMA AuthEndsStep ==
  ASSUME ClientInv, NEW a \in authCalls, StaleAuth(a) \/ AuthUnavailable(a) \/ AuthRequired(a)
  PROVE  ClientInv'
<1>1. /\ ClientTypes /\ ServerTypes /\ SocketTypes /\ OneLiveSocket /\ Attempts
      /\ Accepted /\ ResolvedWasApplied
  BY DEF ClientInv
<1>2. /\ UNCHANGED <<pending, socks, outcome, lobby, outbox, applied>>
      /\ authCalls' = authCalls \ {a}
      /\ env' = env \/ env' = [env EXCEPT !.faults = @ + 1]
      /\ \/ refs' = [refs EXCEPT !.inFlight = FALSE]
         \/ /\ refs' = [[refs EXCEPT !.inFlight = FALSE] EXCEPT !.timer = TRUE]
            /\ a.attempt = refs.attempt
      /\ store' \in {store, [store EXCEPT !.status = "disconnected"],
                     [withError(store) EXCEPT !.status = "disconnected"]}
  BY DEF StaleAuth, AuthUnavailable, AuthRequired, scheduleReconnect, serverVars
<1>3. /\ refs'.socket = refs.socket /\ refs'.attempt = refs.attempt
      /\ (refs'.timer => refs.timer \/ a.attempt = refs.attempt)
      /\ (env'.signedIn <=> env.signedIn)
  BY <1>1, <1>2 DEF ClientTypes, Refs, Envs
<1>4. store' \in Stores
  BY <1>1, <1>2 DEF ClientTypes, withError, Stores
<1>5. ClientTypes'
  <2>1. refs \in Refs /\ env \in Envs
    BY <1>1 DEF ClientTypes
  <2>2. refs' \in Refs
    BY <1>2, <2>1 DEF Refs
  <2>3. env' \in Envs
    BY <1>2, <2>1 DEF Envs
  <2> QED BY <1>1, <1>2, <1>4, <2>2, <2>3 DEF ClientTypes
<1>6. ServerTypes' /\ SocketTypes' /\ Accepted' /\ ResolvedWasApplied'
  BY <1>1, <1>2 DEF ServerTypes, SocketTypes, Accepted, ResolvedWasApplied
<1>7. OneLiveSocket' /\ Attempts'
  BY <1>1, <1>2, <1>3 DEF OneLiveSocket, Attempts, SocketIs
<1> QED BY <1>5, <1>6, <1>7 DEF ClientInv

\* The session check of the present attempt opens the only socket.
LEMMA AuthResolvedStep ==
  ASSUME ClientInv, NEW a \in authCalls, AuthResolved(a)
  PROVE  ClientInv'
<1>1. /\ ClientTypes /\ ServerTypes /\ SocketTypes /\ OneLiveSocket /\ Attempts
      /\ Accepted /\ ResolvedWasApplied
  BY DEF ClientInv
<1>2. PICK s \in Sockets :
        /\ socks' = [socks EXCEPT ![s].client = "connecting"]
        /\ refs' = [refs EXCEPT !.socket = s]
  BY DEF AuthResolved
<1>3. /\ a.attempt = refs.attempt /\ authCalls' = authCalls \ {a}
      /\ UNCHANGED <<store, pending, outcome, env, lobby, outbox, applied>>
  BY DEF AuthResolved, serverVars
<1>4. env.signedIn /\ \A x \in Sockets : ~SocketIs(x, Live)
  BY <1>1, <1>3 DEF Attempts, OneLiveSocket, Live
<1>5. /\ socks'[s].client = "connecting" /\ \A x \in Sockets \ {s} : socks'[x] = socks[x]
      /\ \A x \in Sockets : socks'[x].server = socks[x].server
      /\ socks' \in [Sockets -> SocketStates]
  BY <1>1, <1>2 DEF SocketTypes, SocketStates, Live
<1>6. refs'.socket = s /\ refs'.attempt = refs.attempt /\ (refs'.timer <=> refs.timer)
  BY <1>1, <1>2 DEF ClientTypes, Refs
<1>7. ClientTypes' /\ SocketTypes'
  BY <1>1, <1>2, <1>3, <1>5 DEF ClientTypes, SocketTypes, Refs
<1>8. ServerTypes' /\ Accepted' /\ ResolvedWasApplied'
  BY <1>1, <1>3, <1>5 DEF ServerTypes, Lobbies, Accepted, ResolvedWasApplied
<1>9. OneLiveSocket'
  BY <1>3, <1>4, <1>5, <1>6 DEF OneLiveSocket, SocketIs, Live
<1>10. Attempts'
  BY <1>1, <1>3, <1>4, <1>6 DEF Attempts
<1> QED BY <1>7, <1>8, <1>9, <1>10 DEF ClientInv

\* A socket that opens stays the page's socket.
LEMMA OpenStep ==
  ASSUME ClientInv, NEW s \in Sockets, OnOpen(s)
  PROVE  ClientInv'
<1>1. /\ ClientTypes /\ ServerTypes /\ SocketTypes /\ OneLiveSocket /\ Attempts
      /\ Accepted /\ ResolvedWasApplied
  BY DEF ClientInv
<1>2. /\ socks[s].client = "connecting"
      /\ socks' = [socks EXCEPT ![s].client = "open", ![s].server = "open", ![s].link = TRUE,
                                ![s].up = <<[cmd |-> "connect", req |-> 0]>>]
      /\ refs' = [refs EXCEPT !.inFlight = FALSE]
      /\ UNCHANGED <<store, pending, authCalls, outcome, env, lobby, outbox, applied>>
  BY DEF OnOpen, serverVars
<1>3. [cmd |-> "connect", req |-> 0] \in Ups
  BY DEF Ups
<1>4. /\ socks' \in [Sockets -> SocketStates] /\ socks'[s].client = "open"
      /\ socks'[s].server = "open" /\ \A x \in Sockets \ {s} : socks'[x] = socks[x]
  <2> DEFINE q == [socks[s] EXCEPT !.client = "open", !.server = "open", !.link = TRUE,
                                   !.up = <<[cmd |-> "connect", req |-> 0]>>]
  <2>1. socks \in [Sockets -> SocketStates] /\ socks[s] \in SocketStates
    BY <1>1 DEF SocketTypes
  <2>2. <<[cmd |-> "connect", req |-> 0]>> \in Seq(Ups)
    BY <1>3
  <2>3. q \in SocketStates /\ q.client = "open" /\ q.server = "open"
    BY <2>1, <2>2 DEF SocketStates, Live
  <2>4. socks' = [socks EXCEPT ![s] = q]
    BY <1>2, <2>1
  <2> HIDE DEF q
  <2> QED BY <2>1, <2>3, <2>4
<1>5. refs'.socket = refs.socket /\ refs'.attempt = refs.attempt /\ (refs'.timer <=> refs.timer)
  BY <1>1, <1>2 DEF ClientTypes, Refs
<1>6. ClientTypes' /\ SocketTypes' /\ ServerTypes' /\ ResolvedWasApplied'
  BY <1>1, <1>2, <1>4 DEF ClientTypes, SocketTypes, ServerTypes, ResolvedWasApplied, Refs
<1>7. s = refs.socket /\ s # 0
  BY <1>1, <1>2, Numbers DEF OneLiveSocket, SocketIs
<1>8. OneLiveSocket' /\ Accepted'
  BY <1>1, <1>2, <1>4, <1>5, <1>7 DEF OneLiveSocket, SocketIs, Accepted, ServerTypes, Lobbies
<1>9. Attempts'
  BY <1>1, <1>2, <1>5, <1>7 DEF Attempts, SocketIs, Live
<1> QED BY <1>6, <1>8, <1>9 DEF ClientInv

\* What closing the page's end of a socket leaves.
LEMMA CloseFields ==
  ASSUME SocketTypes, NEW s \in Sockets \cup {0}, socks' = closeClient(s)
  PROVE  /\ socks' \in [Sockets -> SocketStates]
         /\ \A x \in Sockets : /\ socks'[x].server = socks[x].server
                               /\ x = s => socks'[x].client = "closed"
                               /\ x # s => socks'[x] = socks[x]
<1>1. CASE s = 0
  BY <1>1, Numbers DEF SocketTypes, closeClient
<1>2. CASE s \in Sockets
  BY <1>2, Numbers DEF SocketTypes, closeClient, SocketStates
<1> QED BY <1>1, <1>2

\* A socket closes; if it was the page's, a page that is signed in tries again.
LEMMA CloseStep ==
  ASSUME ClientInv, NEW s \in Sockets, OnClose(s)
  PROVE  ClientInv'
<1>1. /\ ClientTypes /\ ServerTypes /\ SocketTypes /\ OneLiveSocket /\ Attempts
      /\ Accepted /\ ResolvedWasApplied
  BY DEF ClientInv
<1>2. /\ socks[s].client \in {"open", "connecting"}
      /\ env' = env \/ env' = [env EXCEPT !.faults = @ + 1]
      /\ socks' = closeClient(s) /\ handleConnectionLoss(s)
      /\ UNCHANGED <<authCalls, lobby, outbox, applied>>
  BY DEF OnClose, serverVars
<1>3. /\ socks' \in [Sockets -> SocketStates]
      /\ \A x \in Sockets : /\ socks'[x].server = socks[x].server
                            /\ x = s => socks'[x].client = "closed"
                            /\ x # s => socks'[x] = socks[x]
  BY <1>1, <1>2, CloseFields
<1>4. s = refs.socket /\ env.signedIn
  BY <1>1, <1>2, Numbers DEF OneLiveSocket, SocketIs
<1>5. /\ refs' = [[refs EXCEPT !.socket = 0, !.inFlight = FALSE] EXCEPT !.timer = TRUE]
      /\ store' = [store EXCEPT !.status = "disconnected"]
      /\ rejectPendingActions(pending)
  BY <1>2, <1>4 DEF handleConnectionLoss, scheduleReconnect
<1>6. Promises'
  BY <1>1, <1>2, <1>5, RejectKeeps DEF Promises, ClientTypes
<1>7. env \in Envs /\ refs \in Refs /\ store \in Stores
  BY <1>1 DEF ClientTypes
<1>8. env' \in Envs /\ (env'.signedIn <=> env.signedIn)
  BY <1>2, <1>7 DEF Envs
<1>9. refs' \in Refs /\ refs'.socket = 0 /\ refs'.attempt = refs.attempt
  BY <1>5, <1>7 DEF Refs
<1>10. store' \in Stores
  BY <1>5, <1>7 DEF Stores
<1>11. ClientTypes' /\ ResolvedWasApplied'
  BY <1>1, <1>2, <1>6, <1>8, <1>9, <1>10 DEF ClientTypes, Promises
<1>12. SocketTypes' /\ ServerTypes' /\ Accepted'
  BY <1>1, <1>2, <1>3 DEF SocketTypes, ServerTypes, Lobbies, Accepted
<1>13. OneLiveSocket'
  BY <1>1, <1>3, <1>4 DEF OneLiveSocket, SocketIs
<1>14. Attempts'
  BY <1>1, <1>2, <1>4, <1>8, <1>9 DEF Attempts, SocketIs
<1> QED BY <1>11, <1>12, <1>13, <1>14 DEF ClientInv

\* A sign-out closes the socket and makes the session checks under way old ones.
LEMMA DisconnectStep ==
  ASSUME ClientInv, disconnect
  PROVE  ClientInv'
<1>1. /\ ClientTypes /\ ServerTypes /\ SocketTypes /\ OneLiveSocket /\ Attempts
      /\ Accepted /\ ResolvedWasApplied
  BY DEF ClientInv
<1>2. /\ env' = [env EXCEPT !.signedIn = FALSE]
      /\ socks' = closeClient(refs.socket)
      /\ refs' = [refs EXCEPT !.socket = 0, !.attempt = @ + 1, !.inFlight = FALSE,
                              !.timer = FALSE]
      /\ rejectPendingActions(pending)
      /\ store' = [store EXCEPT !.status = "disconnected", !.room = "none",
                                !.game = 0, !.spectating = FALSE]
      /\ UNCHANGED <<authCalls, lobby, outbox, applied>>
  BY DEF disconnect, cancelPendingConnect, serverVars
<1>3. env \in Envs /\ refs \in Refs /\ store \in Stores /\ refs.socket \in Sockets \cup {0}
  BY <1>1 DEF ClientTypes, Refs
<1>4. /\ socks' \in [Sockets -> SocketStates]
      /\ \A x \in Sockets : /\ socks'[x].server = socks[x].server
                            /\ x = refs.socket => socks'[x].client = "closed"
                            /\ x # refs.socket => socks'[x] = socks[x]
  BY <1>1, <1>2, <1>3, CloseFields
<1>5. Promises'
  BY <1>1, <1>2, RejectKeeps DEF Promises, ClientTypes
<1>6. env' \in Envs
  BY <1>2, <1>3 DEF Envs
<1>7. refs.attempt \in Nat /\ refs' \in Refs /\ refs'.attempt = refs.attempt + 1 /\ ~refs'.timer
  <2>1. refs.attempt \in Nat /\ refs.attempt + 1 \in Nat
    BY <1>3 DEF Refs
  <2> QED BY <1>2, <1>3, <2>1 DEF Refs
<1>8. store' \in Stores
  BY <1>2, <1>3, Numbers DEF Stores
<1>9. ClientTypes' /\ ResolvedWasApplied'
  BY <1>1, <1>2, <1>5, <1>6, <1>7, <1>8 DEF ClientTypes, Promises
<1>10. SocketTypes' /\ ServerTypes' /\ Accepted'
  BY <1>1, <1>2, <1>4 DEF SocketTypes, ServerTypes, Lobbies, Accepted
<1>11. OneLiveSocket'
  BY <1>1, <1>4 DEF OneLiveSocket, SocketIs
<1>12. Attempts'
  <2>1. \A a \in authCalls : a.attempt \in Nat /\ a.attempt <= refs.attempt
    BY <1>1 DEF Attempts, ClientTypes
  <2>2. \A a \in authCalls : a.attempt <= refs'.attempt /\ a.attempt # refs'.attempt
    BY <1>7, <2>1
  <2> QED BY <1>1, <1>2, <1>7, <2>2 DEF Attempts
<1> QED BY <1>9, <1>10, <1>11, <1>12 DEF ClientInv

\* A page that is loaded again has closed its socket and has forgotten every session check.
LEMMA LoadStep ==
  ASSUME ClientInv, LoadPage
  PROVE  ClientInv'
<1>1. /\ ClientTypes /\ ServerTypes /\ SocketTypes /\ OneLiveSocket /\ Attempts
      /\ Accepted /\ ResolvedWasApplied
  BY DEF ClientInv
<1>2. /\ env' = [signedIn |-> TRUE, cookie |-> "valid",
                 faults |-> IF env.cookie = "valid" THEN env.faults + 1 ELSE env.faults]
      /\ socks' = closeClient(refs.socket) /\ rejectPendingActions(pending)
      /\ refs' = initialRefs /\ store' = initialState /\ authCalls' = {}
      /\ UNCHANGED <<lobby, outbox, applied>>
  BY DEF LoadPage, serverVars
<1>3. env.faults \in Nat /\ refs.socket \in Sockets \cup {0}
  BY <1>1 DEF ClientTypes, Refs, Envs
<1>4. /\ socks' \in [Sockets -> SocketStates]
      /\ \A x \in Sockets : /\ socks'[x].server = socks[x].server
                            /\ x = refs.socket => socks'[x].client = "closed"
                            /\ x # refs.socket => socks'[x] = socks[x]
  BY <1>1, <1>2, <1>3, CloseFields
<1>5. Promises'
  BY <1>1, <1>2, RejectKeeps DEF Promises, ClientTypes
<1>6. env' \in Envs
  BY <1>2, <1>3 DEF Envs
<1>7. refs' \in Refs /\ ~refs'.timer /\ store' \in Stores
  BY <1>2, Numbers DEF Refs, Stores, initialRefs, initialState
<1>8. ClientTypes' /\ ResolvedWasApplied'
  BY <1>2, <1>5, <1>6, <1>7 DEF ClientTypes, Promises
<1>9. SocketTypes' /\ ServerTypes' /\ Accepted'
  BY <1>1, <1>2, <1>4 DEF SocketTypes, ServerTypes, Lobbies, Accepted
<1>10. OneLiveSocket'
  BY <1>1, <1>4 DEF OneLiveSocket, SocketIs
<1>11. Attempts'
  BY <1>2, <1>7 DEF Attempts
<1> QED BY <1>8, <1>9, <1>10, <1>11 DEF ClientInv

\* A command is sent over the page's open socket, or fails at once.
LEMMA SendStep ==
  ASSUME ClientInv, NEW r \in Requests,
         SendUnavailable(r) \/ \E c \in Commands : Send(r, c)
  PROVE  ClientInv'
<1>1. /\ ClientTypes /\ ServerTypes /\ SocketTypes /\ OneLiveSocket /\ Attempts
      /\ Accepted /\ ResolvedWasApplied
  BY DEF ClientInv
<1>2. /\ UNCHANGED <<refs, authCalls, env, lobby, outbox, applied>>
      /\ store' \in {withError(store), clearError(store)}
      /\ pending' \in {pending, pending \cup {r}}
      /\ \E how \in {"rejected", "waiting", "sent"} : outcome' = [outcome EXCEPT ![r] = how]
  BY DEF SendUnavailable, Send, serverVars
<1>3. store' \in Stores
  BY <1>1, <1>2 DEF ClientTypes, withError, clearError, Stores
<1>4. ClientTypes'
  BY <1>1, <1>2, <1>3 DEF ClientTypes, Outcomes
<1>5. ServerTypes' /\ ResolvedWasApplied'
  BY <1>1, <1>2 DEF ServerTypes, ClientTypes, ResolvedWasApplied
<1>6. /\ socks' \in [Sockets -> SocketStates]
      /\ \A x \in Sockets : /\ socks'[x].client = socks[x].client
                            /\ socks'[x].server = socks[x].server
  <2>1. CASE socks' = socks
    BY <1>1, <2>1 DEF SocketTypes
  <2>2. ASSUME NEW c \in Commands, Send(r, c)
        PROVE  /\ socks' \in [Sockets -> SocketStates]
               /\ \A x \in Sockets : /\ socks'[x].client = socks[x].client
                                     /\ socks'[x].server = socks[x].server
    <3> DEFINE s == refs.socket
               u == IF socks[s].link THEN Append(socks[s].up, [cmd |-> c, req |-> r])
                    ELSE socks[s].up
    <3>1. s \in Sockets /\ socks[s] \in SocketStates
      BY <1>1, <2>2 DEF Send, SocketIs, ClientTypes, Refs, SocketTypes
    <3>2. [cmd |-> c, req |-> r] \in Ups
      BY DEF Ups
    <3>3. socks' = [socks EXCEPT ![s].up = u]
      BY <2>2 DEF Send
    <3>4. u \in Seq(Ups)
      BY <3>1, <3>2 DEF SocketStates
    <3> HIDE DEF u
    <3> QED BY <1>1, <3>1, <3>3, <3>4 DEF SocketTypes, SocketStates
  <2> QED BY <2>1, <2>2 DEF SendUnavailable
<1>7. SocketTypes' /\ OneLiveSocket' /\ Attempts' /\ Accepted'
  BY <1>1, <1>2, <1>6 DEF SocketTypes, OneLiveSocket, Attempts, Accepted, SocketIs,
                         ClientTypes, Refs, ServerTypes, Lobbies
<1> QED BY <1>4, <1>5, <1>7 DEF ClientInv

\* Promises time out, results are dismissed, the cookie ends.
LEMMA SmallStep ==
  ASSUME ClientInv,
         \/ \E r \in Requests : CommandTimeout(r)
         \/ dismissCompletedGame \/ CookieEnds \/ UNCHANGED vars
  PROVE  ClientInv'
<1>1. /\ ClientTypes /\ ServerTypes /\ SocketTypes /\ OneLiveSocket /\ Attempts
      /\ Accepted /\ ResolvedWasApplied
  BY DEF ClientInv
<1>2. /\ UNCHANGED <<refs, authCalls, socks, lobby, outbox, applied>>
      /\ store' \in {store, [store EXCEPT !.completed = 0]}
      /\ \/ UNCHANGED <<pending, outcome>>
         \/ \E r \in Requests : rejectPendingActions({r})
      /\ \/ env' = env
         \/ \E how \in {"expired", "revoked"} :
              env' = [env EXCEPT !.cookie = how, !.faults = @ + 1]
  BY DEF CommandTimeout, dismissCompletedGame, CookieEnds, vars, serverVars, clientVars
<1>3. Promises'
  BY <1>1, <1>2, RejectKeeps DEF Promises, ClientTypes, ResolvedWasApplied
<1>4. store' \in Stores /\ env' \in Envs /\ (env'.signedIn <=> env.signedIn)
  <2>1. store \in Stores /\ env \in Envs
    BY <1>1 DEF ClientTypes
  <2>2. store' \in Stores
    BY <1>2, <2>1, Numbers DEF Stores
  <2>3. CASE env' = env
    BY <2>1, <2>2, <2>3
  <2>4. ASSUME NEW how \in {"expired", "revoked"},
               env' = [env EXCEPT !.cookie = how, !.faults = @ + 1]
        PROVE  env' \in Envs /\ (env'.signedIn <=> env.signedIn)
    <3>1. env.faults + 1 \in Nat
      BY <2>1 DEF Envs
    <3> QED BY <2>1, <2>4, <3>1 DEF Envs
  <2> QED BY <1>2, <2>2, <2>3, <2>4
<1>5. ClientTypes' /\ ResolvedWasApplied'
  BY <1>1, <1>2, <1>3, <1>4 DEF ClientTypes, Promises
<1>6. SocketTypes' /\ ServerTypes' /\ Accepted' /\ OneLiveSocket' /\ Attempts'
  BY <1>1, <1>2, <1>4 DEF SocketTypes, ServerTypes, Accepted, OneLiveSocket, Attempts, SocketIs
<1> QED BY <1>5, <1>6 DEF ClientInv

-----------------------------------------------------------------------------
(***************************************************************************)
(* The server's steps.                                                     *)
(***************************************************************************)
\* What a goroutine has to write once more commands may have been carried out.
LEMMA OutboxKept ==
  ASSUME ServerTypes, NEW h \in Sockets \cup {0}, applied \subseteq applied',
         NEW w \in Seq(Writes(applied')), outbox' = [outbox EXCEPT ![h] = w]
  PROVE  outbox' \in [Sockets \cup {0} -> Seq(Writes(applied'))]
<1>1. Seq(Writes(applied)) \subseteq Seq(Writes(applied'))
  BY WritesGrow
<1>2. outbox \in [Sockets \cup {0} -> Seq(Writes(applied'))]
  BY <1>1 DEF ServerTypes
<1> HIDE DEF Writes
<1> QED BY <1>2

\* The room and the game as the server sends them are messages.
LEMMA SnapshotAnswers ==
  ASSUME ServerTypes, NEW done
  PROVE  /\ room_state \in Answers(done)
         /\ [room_state EXCEPT !.type = "resume"] \in Answers(done)
         /\ [game_state EXCEPT !.type = "spectator_state"] \in Answers(done)
         /\ \A phase \in Phases : [game_state EXCEPT !.phase = phase] \in Answers(done)
         /\ \A type \in MessageTypes \ {"action_result"} : plain(type) \in Answers(done)
<1>1. lobby.phase \in Phases /\ lobby.ver \in 0 .. MaxEvents /\ 0 \in Requests \cup {0}
      /\ 0 \in 0 .. MaxEvents /\ "lobby" \in Phases
  BY Numbers DEF ServerTypes, Lobbies, Phases
<1>2. room_state \in Answers(done)
  BY <1>1, PlainAnswers DEF room_state, MessageTypes
<1>3. Message("resume", lobby.phase, 0, 0) \in Answers(done)
  BY <1>1, PlainAnswers DEF MessageTypes
<1>4. Message("spectator_state", lobby.phase, lobby.ver, 0) \in Answers(done)
  BY <1>1, PlainAnswers DEF MessageTypes
<1>5. \A phase \in Phases : Message("game_state", phase, lobby.ver, 0) \in Answers(done)
  BY <1>1, PlainAnswers DEF MessageTypes
<1>6. \A type \in MessageTypes \ {"action_result"} : plain(type) \in Answers(done)
  BY <1>1, PlainAnswers DEF plain
<1>7. /\ [room_state EXCEPT !.type = "resume"] = Message("resume", lobby.phase, 0, 0)
      /\ [game_state EXCEPT !.type = "spectator_state"]
           = Message("spectator_state", lobby.phase, lobby.ver, 0)
      /\ \A phase \in Phases :
           [game_state EXCEPT !.phase = phase] = Message("game_state", phase, lobby.ver, 0)
  BY DEF Message, room_state, game_state
<1> QED BY <1>2, <1>3, <1>4, <1>5, <1>6, <1>7

\* What a successful action sends reports a command that was carried out.
LEMMA SuccessType ==
  ASSUME ServerTypes, NEW done \in SUBSET Requests, NEW req \in done \cup {0},
         NEW phase \in Phases, NEW ver \in 0 .. MaxEvents
  PROVE  broadcastActionSuccess(req, phase, ver) \in Seq(Writes(done))
<1>1. 0 \in Requests \cup {0} /\ 0 \in 0 .. MaxEvents /\ peer \in Sockets \cup {0}
  BY Numbers DEF peer
<1>2. Message("action_result", phase, ver, req) \in Answers(done)
  BY ResultAnswers
<1>3. Message("room_state", phase, 0, 0) \in Answers(done)
  BY <1>1, PlainAnswers DEF MessageTypes
<1>4. Message("game_state", phase, ver, 0) \in Answers(done)
  BY <1>1, PlainAnswers DEF MessageTypes
<1>5. plain("reset") \in Answers(done)
  BY SnapshotAnswers DEF MessageTypes
<1> DEFINE msgs == <<Message("action_result", phase, ver, req),
                     Message("room_state", phase, 0, 0),
                     Message("game_state", phase, ver, 0)>>
<1>6. msgs \in Seq(Answers(done)) /\ <<plain("reset")>> \in Seq(Answers(done))
  BY <1>2, <1>3, <1>4, <1>5
<1> HIDE DEF msgs
<1>7. Broadcast(msgs) \in Seq(Writes(done))
  BY <1>6, BroadcastType
<1>8. Batch(peer, <<plain("reset")>>) \in Seq(Writes(done))
  BY <1>1, <1>6, BatchType
<1> HIDE DEF Writes
<1>9. Broadcast(msgs) \o Batch(peer, <<plain("reset")>>) \in Seq(Writes(done))
      /\ Broadcast(msgs) \o <<>> \in Seq(Writes(done))
  BY <1>7, <1>8
<1> QED BY <1>9 DEF broadcastActionSuccess, msgs

\* An error may be written whatever has been carried out.
LEMMA ErrorType ==
  ASSUME NEW done, NEW s \in Sockets, NEW req \in Requests \cup {0}, NEW cmd
  PROVE  writeRequestError(s, req, cmd) \in Seq(Writes(done))
<1>1. 0 \in 0 .. MaxEvents /\ "lobby" \in Phases
  BY Numbers DEF Phases
<1>2. /\ Message("error", "lobby", 0, req) \in Answers(done)
      /\ Message("social_error", "lobby", 0, req) \in Answers(done)
  BY <1>1, PlainAnswers DEF MessageTypes
<1>3. <<Message(IF cmd \in {"spectate_game", "stop_spectating"}
                THEN "social_error" ELSE "error", "lobby", 0, req)>> \in Seq(Answers(done))
  BY <1>2
<1> QED BY <1>3, BatchType DEF writeRequestError

\* A command that is carried out leaves a lobby and reports of what was carried out.
LEMMA CommandStep ==
  ASSUME ClientTypes, ServerTypes, NEW s \in Sockets, NEW cmd, NEW req \in Requests,
         handleCommand(s, cmd, req), applied' = applied \cup {req}
  PROVE  /\ lobby' \in Lobbies /\ lobby'.conn = lobby.conn
         /\ \E w \in Seq(Writes(applied')) : outbox' = [outbox EXCEPT ![s] = w]
<1> DEFINE done == applied'
<1>1. done \in SUBSET Requests /\ req \in done \cup {0} /\ lobby \in Lobbies
  BY DEF ServerTypes
<1>2. 0 \in 0 .. MaxEvents /\ {"lobby", "in_progress", "game_over"} = Phases
  BY Numbers DEF Phases
<1>3. /\ room_state \in Answers(done)
      /\ [game_state EXCEPT !.type = "spectator_state"] \in Answers(done)
      /\ plain("left_room") \in Answers(done)
      /\ plain("spectating_ended") \in Answers(done)
      /\ Message("action_result", "lobby", 0, req) \in Answers(done)
  BY <1>1, <1>2, SnapshotAnswers, ResultAnswers DEF MessageTypes
<1> HIDE DEF done
<1>4. CASE handleJoinRoom(s)
  <2>1. <<room_state>> \in Seq(Answers(done))
    BY <1>3
  <2>2. Batch(s, <<room_state>>) \in Seq(Writes(done))
    BY <2>1, BatchType
  <2>3. lobby' \in Lobbies /\ lobby'.conn = lobby.conn
    BY <1>1, <1>4 DEF handleJoinRoom, Lobbies
  <2> QED BY <1>4, <2>2, <2>3 DEF handleJoinRoom, done
<1>5. CASE handleLeaveRoom(s)
  <2>1. <<plain("left_room")>> \in Seq(Answers(done))
    BY <1>3
  <2>2. Batch(s, <<plain("left_room")>>) \in Seq(Writes(done))
    BY <2>1, BatchType
  <2>3. lobby' \in Lobbies /\ lobby'.conn = lobby.conn
    BY <1>1, <1>5 DEF handleLeaveRoom, Lobbies
  <2> QED BY <1>5, <2>2, <2>3 DEF handleLeaveRoom, done
<1>6. CASE handlePlay(s, req)
  <2>1. PICK phase \in {"in_progress", "game_over"} :
          /\ lobby' = [lobby EXCEPT !.phase = phase, !.ver = @ + 1]
          /\ outbox' = [outbox EXCEPT
                          ![s] = broadcastActionSuccess(req, phase, lobby.ver + 1)]
    BY <1>6 DEF handlePlay
  <2>2. lobby.ver + 1 \in 0 .. MaxEvents
    BY <1>1, <1>6, Numbers DEF handlePlay, BudgetLeft, Lobbies, ClientTypes, Envs
  <2>3. broadcastActionSuccess(req, phase, lobby.ver + 1) \in Seq(Writes(done))
    BY <1>1, <1>2, <2>2, SuccessType
  <2>4. lobby' = [lobby EXCEPT !.phase = phase, !.ver = lobby.ver + 1]
    BY <2>1
  <2>5. lobby' \in Lobbies /\ lobby'.conn = lobby.conn
    BY <1>1, <1>2, <2>2, <2>4 DEF Lobbies
  <2> QED BY <2>1, <2>3, <2>5 DEF done
<1>7. CASE handleSpectateGame(s, req)
  <2> DEFINE msgs == <<room_state, [game_state EXCEPT !.type = "spectator_state"],
                       Message("action_result", "lobby", 0, req)>>
  <2>1. msgs \in Seq(Answers(done))
    BY <1>3
  <2> HIDE DEF msgs
  <2>2. Batch(s, msgs) \in Seq(Writes(done))
    BY <2>1, BatchType
  <2>3. lobby' \in Lobbies /\ lobby'.conn = lobby.conn
    BY <1>1, <1>7 DEF handleSpectateGame, Lobbies
  <2> QED BY <1>7, <2>2, <2>3 DEF handleSpectateGame, done, msgs
<1>8. CASE handleStopSpectating(s, req)
  <2> DEFINE msgs == <<plain("spectating_ended"), Message("action_result", "lobby", 0, req)>>
  <2>1. msgs \in Seq(Answers(done))
    BY <1>3
  <2> HIDE DEF msgs
  <2>2. Batch(s, msgs) \in Seq(Writes(done))
    BY <2>1, BatchType
  <2>3. lobby' \in Lobbies /\ lobby'.conn = lobby.conn
    BY <1>1, <1>8 DEF handleStopSpectating, Lobbies
  <2> QED BY <1>8, <2>2, <2>3 DEF handleStopSpectating, done, msgs
<1> QED BY <1>4, <1>5, <1>6, <1>7, <1>8 DEF handleCommand

\* A step that leaves the page's sockets alone keeps what is known of the page.
LEMMA ServerSide ==
  ASSUME ClientInv, UNCHANGED <<refs, authCalls>>, store' \in Stores, Promises',
         env' \in Envs, env'.signedIn <=> env.signedIn,
         socks' \in [Sockets -> SocketStates],
         \A x \in Sockets : socks'[x].client = socks[x].client,
         ServerTypes', Accepted'
  PROVE  ClientInv'
<1>1. ClientTypes /\ OneLiveSocket /\ Attempts
  BY DEF ClientInv
<1>2. ClientTypes' /\ SocketTypes' /\ ResolvedWasApplied'
  BY <1>1 DEF ClientTypes, SocketTypes, Promises
<1>3. OneLiveSocket'
  BY <1>1 DEF OneLiveSocket, SocketIs
<1>4. refs.socket \in Sockets \cup {0}
  BY <1>1 DEF ClientTypes, Refs
<1>5. Attempts'
  BY <1>1, <1>4 DEF Attempts, SocketIs
<1> QED BY <1>2, <1>3, <1>5 DEF ClientInv

\* A fault is counted.
LEMMA FaultCounted ==
  ASSUME env \in Envs, env' = [env EXCEPT !.faults = @ + 1]
  PROVE  env' \in Envs /\ (env'.signedIn <=> env.signedIn)
<1>1. env.faults + 1 \in Nat
  BY DEF Envs
<1> QED BY <1>1 DEF Envs

\* What the end of the server's side of a socket leaves.
LEMMA CloseServerFields ==
  ASSUME SocketTypes, NEW s \in Sockets \cup {0}
  PROVE  /\ closeServer(s) \in [Sockets -> SocketStates]
         /\ \A x \in Sockets :
              /\ closeServer(s)[x].client = socks[x].client
              /\ x = s => closeServer(s)[x].server = "closed"
              /\ x # s => closeServer(s)[x] = socks[x]
<1>1. socks \in [Sockets -> SocketStates]
  BY DEF SocketTypes
<1>2. CASE s \in Sockets
  <2> DEFINE q == [socks[s] EXCEPT !.server = "closed", !.link = FALSE, !.up = <<>>]
  <2>1. <<>> \in Seq(Ups)
    OBVIOUS
  <2>2. q \in SocketStates /\ q.server = "closed" /\ q.client = socks[s].client
    BY <1>1, <1>2, <2>1 DEF SocketStates
  <2>3. closeServer(s) = [socks EXCEPT ![s] = q]
    BY <1>1, <1>2 DEF closeServer
  <2> HIDE DEF q
  <2> QED BY <1>1, <1>2, <2>2, <2>3
<1>3. CASE s = 0
  <2>1. closeServer(s) = socks
    BY <1>1, <1>3, Numbers DEF closeServer
  <2> QED BY <1>1, <1>3, <2>1, Numbers
<1> QED BY <1>2, <1>3

\* The session's connection is cleared only by the end of its own socket.
LEMMA DisconnectFields ==
  ASSUME ServerTypes, NEW s \in Sockets \cup {0}
  PROVE  /\ disconnectWithEmitter(s) \in Lobbies
         /\ disconnectWithEmitter(s).conn = IF lobby.conn = s THEN 0 ELSE lobby.conn
<1>1. lobby \in Lobbies
  BY DEF ServerTypes
<1> QED BY <1>1 DEF disconnectWithEmitter, Lobbies

\* A goroutine takes a message: the lobby changes and the answers are prepared.
LEMMA ReadsStep ==
  ASSUME ClientInv, NEW s \in Sockets, ServerReads(s)
  PROVE  ClientInv'
<1>1. /\ ClientTypes /\ ServerTypes /\ SocketTypes /\ Accepted /\ ResolvedWasApplied
      /\ lobby \in Lobbies /\ env \in Envs /\ store \in Stores
  BY DEF ClientInv, ServerTypes, ClientTypes
<1> DEFINE m == Head(socks[s].up)
<1>2. /\ socks[s].server = "open" /\ socks[s].up # <<>>
      /\ \/ m.cmd = "connect" /\ handleConnect(s)
         \/ /\ outbox' = [outbox EXCEPT
                 ![s] = writeRequestError(s, m.req, m.cmd)
                        \o (IF lobby.conn = s THEN Batch(s, <<plain("close")>>) ELSE <<>>)]
            /\ UNCHANGED <<lobby, applied>>
         \/ /\ outbox' = [outbox EXCEPT ![s] = writeRequestError(s, m.req, m.cmd)]
            /\ UNCHANGED <<lobby, applied>>
         \/ /\ m.cmd # "connect" /\ handleCommand(s, m.cmd, m.req)
            /\ applied' = applied \cup {m.req}
      /\ socks' = [socks EXCEPT ![s].up = Tail(@)]
      /\ UNCHANGED <<store, refs, pending, authCalls, outcome, env>>
  BY DEF ServerReads, clientVars
<1>3. socks[s].up \in Seq(Ups) /\ socks \in [Sockets -> SocketStates]
  BY <1>1 DEF SocketTypes, SocketStates
<1>4. m \in Ups /\ Tail(socks[s].up) \in Seq(Ups)
  <2> DEFINE up == socks[s].up
  <2>1. up \in Seq(Ups) /\ up # <<>>
    BY <1>2, <1>3
  <2> HIDE DEF Ups, up
  <2>2. Head(up) \in Ups /\ Tail(up) \in Seq(Ups)
    BY ONLY <2>1
  <2> QED BY <2>2 DEF up
<1>5. m.req \in Requests \cup {0} /\ (m.cmd # "connect" => m.req \in Requests)
  BY <1>4 DEF Ups
<1>6. /\ socks' \in [Sockets -> SocketStates]
      /\ \A x \in Sockets : /\ socks'[x].client = socks[x].client
                            /\ socks'[x].server = socks[x].server
  <2> DEFINE t == Tail(socks[s].up)
  <2>1. socks' = [socks EXCEPT ![s].up = t]
    BY <1>2
  <2> HIDE DEF t
  <2> QED BY <1>3, <1>4, <2>1 DEF SocketStates, t
<1> HIDE DEF m
<1>7. /\ lobby' \in Lobbies /\ lobby'.conn \in {lobby.conn, s}
      /\ applied \subseteq applied' /\ applied' \subseteq Requests
      /\ \E w \in Seq(Writes(applied')) : outbox' = [outbox EXCEPT ![s] = w]
  <2>1. plain("error") \in Answers(applied) /\ plain("close") \in Answers(applied)
        /\ plain("connected") \in Answers(applied) /\ room_state \in Answers(applied)
        /\ [room_state EXCEPT !.type = "resume"] \in Answers(applied)
    BY <1>1, SnapshotAnswers DEF MessageTypes
  <2>2. Batch(s, <<plain("error"), plain("close")>>) \in Seq(Writes(applied))
    <3>1. <<plain("error"), plain("close")>> \in Seq(Answers(applied))
      BY <2>1
    <3> QED BY <3>1, BatchType
  <2>3. Batch(s, <<plain("close")>>) \in Seq(Writes(applied))
    <3>1. <<plain("close")>> \in Seq(Answers(applied))
      BY <2>1
    <3> QED BY <3>1, BatchType
  <2>4. Batch(s, <<plain("connected")>>) \in Seq(Writes(applied))
    <3>1. <<plain("connected")>> \in Seq(Answers(applied))
      BY <2>1
    <3> QED BY <3>1, BatchType
  <2>5. Batch(s, <<room_state, [room_state EXCEPT !.type = "resume"]>>) \in Seq(Writes(applied))
    <3>1. <<room_state, [room_state EXCEPT !.type = "resume"]>> \in Seq(Answers(applied))
      BY <2>1
    <3> QED BY <3>1, BatchType
  <2>6. writeRequestError(s, m.req, m.cmd) \in Seq(Writes(applied))
    BY <1>5, ErrorType
  <2>7. applied \subseteq Requests
    BY <1>1 DEF ServerTypes
  <2> HIDE DEF Writes
  <2>8. CASE handleConnect(s)
    <3>1. applied' = applied
      BY <2>8 DEF handleConnect
    <3>2. lobby' \in Lobbies /\ lobby'.conn \in {lobby.conn, s}
      BY <1>1, <2>8 DEF handleConnect, Lobbies
    <3>3. \E w \in Seq(Writes(applied)) : outbox' = [outbox EXCEPT ![s] = w]
      <4> DEFINE tail == IF lobby.seat
                         THEN Batch(s, <<room_state, [room_state EXCEPT !.type = "resume"]>>)
                         ELSE <<>>
      <4>1. tail \in Seq(Writes(applied))
        BY <2>5
      <4>2. \/ outbox' = [outbox EXCEPT ![s] = Batch(s, <<plain("error"), plain("close")>>)]
            \/ outbox' = [outbox EXCEPT ![s] = Batch(s, <<plain("connected")>>) \o tail]
        BY <2>8 DEF handleConnect
      <4> HIDE DEF tail
      <4>3. Batch(s, <<plain("connected")>>) \o tail \in Seq(Writes(applied))
        BY <2>4, <4>1
      <4> QED BY <2>2, <4>2, <4>3
    <3> QED BY <2>7, <3>1, <3>2, <3>3
  <2>9. CASE /\ outbox' = [outbox EXCEPT
                 ![s] = writeRequestError(s, m.req, m.cmd)
                        \o (IF lobby.conn = s THEN Batch(s, <<plain("close")>>) ELSE <<>>)]
             /\ UNCHANGED <<lobby, applied>>
    <3> DEFINE tail == IF lobby.conn = s THEN Batch(s, <<plain("close")>>) ELSE <<>>
    <3>1. tail \in Seq(Writes(applied))
      BY <2>3
    <3> HIDE DEF tail
    <3>2. writeRequestError(s, m.req, m.cmd) \o tail \in Seq(Writes(applied))
      BY <2>6, <3>1
    <3> QED BY <1>1, <2>7, <2>9, <3>2 DEF tail
  <2>10. CASE /\ outbox' = [outbox EXCEPT ![s] = writeRequestError(s, m.req, m.cmd)]
              /\ UNCHANGED <<lobby, applied>>
    BY <1>1, <2>6, <2>7, <2>10
  <2>11. CASE /\ m.cmd # "connect" /\ handleCommand(s, m.cmd, m.req)
              /\ applied' = applied \cup {m.req}
    BY <1>1, <1>5, <2>7, <2>11, CommandStep
  <2> QED BY <1>2, <2>8, <2>9, <2>10, <2>11
<1>8. ServerTypes'
  BY <1>1, <1>7, OutboxKept DEF ServerTypes
<1>9. Accepted'
  BY <1>1, <1>2, <1>6, <1>7 DEF Accepted, Lobbies
<1>10. Promises'
  BY <1>1, <1>2, <1>7 DEF ClientTypes, Promises, ResolvedWasApplied
<1> QED BY <1>1, <1>2, <1>6, <1>8, <1>9, <1>10, ServerSide

\* A goroutine ends and takes only its own connection from the session.
LEMMA HangsUpStep ==
  ASSUME ClientInv, NEW s \in Sockets, ServerHangsUp(s)
  PROVE  ClientInv'
<1>1. /\ ClientTypes /\ ServerTypes /\ SocketTypes /\ Accepted /\ ResolvedWasApplied
      /\ env \in Envs /\ store \in Stores /\ lobby \in Lobbies
  BY DEF ClientInv, ClientTypes, ServerTypes
<1>2. /\ socks' = closeServer(s) /\ lobby' = disconnectWithEmitter(s)
      /\ UNCHANGED <<store, refs, pending, authCalls, outcome, outbox, applied, env>>
  BY DEF ServerHangsUp, clientVars
<1>3. /\ socks' \in [Sockets -> SocketStates]
      /\ \A x \in Sockets : /\ socks'[x].client = socks[x].client
                            /\ x = s => socks'[x].server = "closed"
                            /\ x # s => socks'[x] = socks[x]
  BY <1>1, <1>2, CloseServerFields
<1>4. lobby' \in Lobbies /\ lobby'.conn \in {lobby.conn, 0}
  BY <1>1, <1>2, DisconnectFields
<1>5. ServerTypes' /\ Promises'
  BY <1>1, <1>2, <1>4 DEF ServerTypes, Promises, ClientTypes, ResolvedWasApplied
<1>6. Accepted'
  BY <1>1, <1>3, <1>4 DEF Accepted, Lobbies
<1> QED BY <1>1, <1>2, <1>3, <1>5, <1>6, ServerSide

\* The other player acts.
LEMMA PeerStep ==
  ASSUME ClientInv, PeerActs
  PROVE  ClientInv'
<1>1. /\ ClientTypes /\ ServerTypes /\ SocketTypes /\ Accepted /\ ResolvedWasApplied
      /\ env \in Envs /\ store \in Stores /\ lobby \in Lobbies
  BY DEF ClientInv, ClientTypes, ServerTypes
<1>2. PICK phase \in {"in_progress", "game_over"} :
        /\ lobby' = [lobby EXCEPT !.phase = phase, !.ver = @ + 1]
        /\ outbox' = [outbox EXCEPT
             ![peer] = broadcastActionSuccess(0, phase, lobby.ver + 1)]
  BY DEF PeerActs
<1>3. /\ UNCHANGED <<store, refs, pending, authCalls, outcome, socks, applied, env>>
      /\ lobby.ver + 1 \in 0 .. MaxEvents
  BY <1>1, Numbers DEF PeerActs, clientVars, BudgetLeft, Envs, Lobbies
<1>4. lobby' = [lobby EXCEPT !.phase = phase, !.ver = lobby.ver + 1]
  BY <1>2
<1>5. lobby' \in Lobbies /\ lobby'.conn = lobby.conn
  BY <1>1, <1>3, <1>4 DEF Lobbies, Phases
<1>6. broadcastActionSuccess(0, phase, lobby.ver + 1) \in Seq(Writes(applied))
  BY <1>1, <1>3, SuccessType DEF ServerTypes, Phases
<1>7. outbox' \in [Sockets \cup {0} -> Seq(Writes(applied'))]
  BY <1>1, <1>2, <1>3, <1>6, OutboxKept DEF peer
<1>8. ServerTypes' /\ Promises'
  BY <1>1, <1>3, <1>5, <1>7 DEF ServerTypes, Promises, ClientTypes, ResolvedWasApplied
<1>9. socks' \in [Sockets -> SocketStates] /\ Accepted'
  BY <1>1, <1>3, <1>5 DEF SocketTypes, Accepted
<1> QED BY <1>1, <1>3, <1>8, <1>9, ServerSide

\* A goroutine writes its next message, and the page reduces it if it arrives.
LEMMA WritesStep ==
  ASSUME ClientInv, NEW h \in Sockets \cup {0}, ServerWrites(h)
  PROVE  ClientInv'
<1>1. /\ ClientTypes /\ ServerTypes /\ SocketTypes /\ Accepted /\ ResolvedWasApplied
      /\ env \in Envs /\ store \in Stores /\ lobby \in Lobbies /\ Promises
      /\ socks \in [Sockets -> SocketStates]
  BY DEF ClientInv, ClientTypes, ServerTypes, SocketTypes, Promises
<1> DEFINE w == Head(outbox[h])
<1>2. outbox[h] # <<>> /\ outbox[h] \in Seq(Writes(applied))
  BY <1>1 DEF ServerTypes, ServerWrites
<1>3. w \in Writes(applied) /\ Tail(outbox[h]) \in Seq(Writes(applied))
  <2> HIDE DEF Writes
  <2> QED BY <1>2
<1>4. w.to \in Sockets \cup {0} /\ w.msg \in Answers(applied) /\ w.msg.phase \in Phases
  BY <1>3 DEF Writes, Answers, Messages
<1>5. UNCHANGED <<refs, authCalls, applied, env>>
  BY DEF ServerWrites
<1>6. CASE /\ w.msg.type = "reset"
           /\ lobby' = [lobby EXCEPT !.watcher = 0,
                !.phase = IF @ = "game_over" THEN "lobby" ELSE @]
           /\ outbox' = [outbox EXCEPT ![h] =
                IF lobby.watcher # 0
                THEN Batch(lobby.watcher, <<plain("spectating_ended")>>)
                ELSE Broadcast(<<plain("room_state")>>)]
           /\ UNCHANGED <<socks, store, pending, outcome>>
  <2>1. lobby' \in Lobbies /\ lobby'.conn = lobby.conn /\ lobby.watcher \in Sockets \cup {0}
    BY <1>1, <1>6 DEF Lobbies, Phases
  <2>2. plain("spectating_ended") \in Answers(applied) /\ plain("room_state") \in Answers(applied)
    BY <1>1, SnapshotAnswers DEF MessageTypes
  <2>3. <<plain("spectating_ended")>> \in Seq(Answers(applied))
        /\ <<plain("room_state")>> \in Seq(Answers(applied))
    BY <2>2
  <2>4. Batch(lobby.watcher, <<plain("spectating_ended")>>) \in Seq(Writes(applied))
    BY <2>1, <2>3, BatchType
  <2>5. Broadcast(<<plain("room_state")>>) \in Seq(Writes(applied))
    BY <1>1, <2>3, BroadcastType
  <2>6. outbox' \in [Sockets \cup {0} -> Seq(Writes(applied'))]
    BY <1>1, <1>5, <1>6, <2>4, <2>5, OutboxKept
  <2>7. ServerTypes' /\ Promises'
    BY <1>1, <1>5, <1>6, <2>1, <2>6 DEF ServerTypes, Promises, ResolvedWasApplied
  <2>8. Accepted'
    BY <1>1, <1>6, <2>1 DEF Accepted
  <2> QED BY <1>1, <1>5, <1>6, <2>7, <2>8, ServerSide
<1>7. CASE /\ w.msg.type = "close"
           /\ socks' = closeServer(h)
           /\ lobby' = disconnectWithEmitter(h)
           /\ outbox' = [outbox EXCEPT ![h] = <<>>]
           /\ UNCHANGED <<store, pending, outcome>>
  <2>1. /\ socks' \in [Sockets -> SocketStates]
        /\ \A x \in Sockets : /\ socks'[x].client = socks[x].client
                              /\ x = h => socks'[x].server = "closed"
                              /\ x # h => socks'[x] = socks[x]
    BY <1>1, <1>7, CloseServerFields
  <2>2. lobby' \in Lobbies /\ lobby'.conn \in {lobby.conn, 0}
    BY <1>1, <1>7, DisconnectFields
  <2>3. <<>> \in Seq(Writes(applied))
    OBVIOUS
  <2>4. outbox' \in [Sockets \cup {0} -> Seq(Writes(applied'))]
    BY <1>1, <1>5, <1>7, <2>3, OutboxKept
  <2>5. ServerTypes' /\ Promises'
    BY <1>1, <1>5, <1>7, <2>2, <2>4 DEF ServerTypes, Promises, ResolvedWasApplied
  <2>6. Accepted'
    BY <1>1, <2>1, <2>2 DEF Accepted, Lobbies
  <2> QED BY <1>1, <1>5, <1>7, <2>1, <2>5, <2>6, ServerSide
<1>8. CASE /\ w.msg.type \notin {"reset", "close"}
           /\ outbox' = [outbox EXCEPT ![h] = Tail(outbox[h])]
           /\ UNCHANGED <<lobby, socks>>
           /\ \/ UNCHANGED <<store, pending, outcome>>
              \/ emitEvent(w.to, [game_state EXCEPT !.phase = w.msg.phase])
              \/ emitEvent(lobby.watcher, [game_state EXCEPT !.type = "spectator_state"])
              \/ w.msg.type # "resume" /\ emitEvent(lobby.watcher, w.msg)
              \/ w.msg.type # "resume" /\ emitEvent(w.to, w.msg)
  <2>1. outbox' \in [Sockets \cup {0} -> Seq(Writes(applied'))]
    BY <1>1, <1>3, <1>5, <1>8, OutboxKept
  <2>2. ServerTypes' /\ Accepted'
    BY <1>1, <1>5, <1>8, <2>1 DEF ServerTypes, Accepted
  <2>3. Promises' /\ store' \in Stores
    <3>1. CASE UNCHANGED <<store, pending, outcome>>
      BY <1>1, <1>5, <3>1 DEF Promises, ResolvedWasApplied
    <3>2. CASE emitEvent(w.to, [game_state EXCEPT !.phase = w.msg.phase])
      <4>1. [game_state EXCEPT !.phase = w.msg.phase] \in Answers(applied)
        BY <1>1, <1>4, SnapshotAnswers
      <4>2. [game_state EXCEPT !.phase = w.msg.phase].type = "game_state"
        BY DEF game_state, Message
      <4> QED BY <1>1, <1>5, <3>2, <4>1, <4>2, EmitKeeps
    <3>3. CASE emitEvent(lobby.watcher, [game_state EXCEPT !.type = "spectator_state"])
      <4>1. [game_state EXCEPT !.type = "spectator_state"] \in Answers(applied)
        BY <1>1, SnapshotAnswers
      <4>2. [game_state EXCEPT !.type = "spectator_state"].type = "spectator_state"
        BY DEF game_state, Message
      <4> QED BY <1>1, <1>5, <3>3, <4>1, <4>2, EmitKeeps
    <3>4. CASE w.msg.type # "resume" /\ emitEvent(lobby.watcher, w.msg)
      BY <1>1, <1>4, <1>5, <1>8, <3>4, EmitKeeps
    <3>5. CASE w.msg.type # "resume" /\ emitEvent(w.to, w.msg)
      BY <1>1, <1>4, <1>5, <1>8, <3>5, EmitKeeps
    <3> QED BY <1>8, <3>1, <3>2, <3>3, <3>4, <3>5
  <2> QED BY <1>1, <1>5, <1>8, <2>2, <2>3, ServerSide
<1> QED BY <1>6, <1>7, <1>8 DEF ServerWrites

\* A link that dies keeps or loses what was on the way to the server.
LEMMA LinkStep ==
  ASSUME ClientInv, NEW s \in Sockets, LinkDies(s)
  PROVE  ClientInv'
<1>1. /\ ClientTypes /\ ServerTypes /\ SocketTypes /\ Accepted /\ ResolvedWasApplied
      /\ env \in Envs /\ store \in Stores /\ lobby \in Lobbies
      /\ socks \in [Sockets -> SocketStates]
  BY DEF ClientInv, ClientTypes, ServerTypes, SocketTypes
<1>2. PICK kept \in {<<>>, socks[s].up} :
        socks' = [socks EXCEPT ![s].link = FALSE, ![s].up = kept]
  BY DEF LinkDies
<1>3. /\ env' = [env EXCEPT !.faults = @ + 1]
      /\ UNCHANGED <<store, refs, pending, authCalls, outcome, lobby, outbox, applied>>
  BY DEF LinkDies, clientVars, serverVars
<1>4. env' \in Envs /\ (env'.signedIn <=> env.signedIn)
  BY <1>1, <1>3, FaultCounted
<1>5. /\ socks' \in [Sockets -> SocketStates]
      /\ \A x \in Sockets : /\ socks'[x].client = socks[x].client
                            /\ socks'[x].server = socks[x].server
  <2> DEFINE q == [socks[s] EXCEPT !.link = FALSE, !.up = kept]
  <2>1. kept \in Seq(Ups)
    <3>1. <<>> \in Seq(Ups) /\ socks[s].up \in Seq(Ups)
      BY <1>1 DEF SocketStates
    <3> QED BY <1>2, <3>1
  <2>2. q \in SocketStates /\ q.server = socks[s].server /\ q.client = socks[s].client
    BY <1>1, <2>1 DEF SocketStates
  <2>3. socks' = [socks EXCEPT ![s] = q]
    BY <1>1, <1>2
  <2> HIDE DEF q
  <2> QED BY <1>1, <2>2, <2>3
<1>6. ServerTypes' /\ Promises' /\ Accepted'
  BY <1>1, <1>3, <1>5 DEF ServerTypes, Promises, ClientTypes, ResolvedWasApplied, Accepted, Lobbies
<1> QED BY <1>1, <1>3, <1>4, <1>5, <1>6, ServerSide

\* A restarted server has no connection, and every socket it had is closed.
LEMMA RestartStep ==
  ASSUME ClientInv, ServerRestarts
  PROVE  ClientInv'
<1>1. /\ ClientTypes /\ ServerTypes /\ SocketTypes /\ Accepted /\ ResolvedWasApplied
      /\ env \in Envs /\ store \in Stores /\ lobby \in Lobbies
      /\ socks \in [Sockets -> SocketStates]
  BY DEF ClientInv, ClientTypes, ServerTypes, SocketTypes
<1>2. /\ env' = [env EXCEPT !.faults = @ + 1]
      /\ socks' = [s \in Sockets |->
           IF socks[s].server = "open" THEN closeServer(s)[s] ELSE socks[s]]
      /\ lobby' = [lobby EXCEPT !.conn = 0, !.watcher = 0]
      /\ outbox' = [h \in DOMAIN outbox |-> <<>>]
      /\ UNCHANGED <<store, refs, pending, authCalls, outcome, applied>>
  BY DEF ServerRestarts, clientVars
<1>3. env' \in Envs /\ (env'.signedIn <=> env.signedIn)
  BY <1>1, <1>2, FaultCounted
<1>4. \A s \in Sockets : closeServer(s)[s] \in SocketStates
                        /\ closeServer(s)[s].client = socks[s].client
  BY <1>1, CloseServerFields
<1>5. /\ socks' \in [Sockets -> SocketStates]
      /\ \A x \in Sockets : socks'[x].client = socks[x].client
  <2> HIDE DEF SocketStates
  <2> QED BY <1>1, <1>2, <1>4
<1>6. lobby' \in Lobbies /\ lobby'.conn = 0
  BY <1>1, <1>2 DEF Lobbies
<1>7. ServerTypes' /\ Promises' /\ Accepted'
  BY <1>1, <1>2, <1>6 DEF ServerTypes, Promises, ClientTypes, ResolvedWasApplied, Accepted
<1> QED BY <1>1, <1>2, <1>3, <1>5, <1>7, ServerSide

\* Every step keeps the invariant.
LEMMA NextClient ==
  ASSUME ClientInv, [Next]_vars
  PROVE  ClientInv'
<1>1. /\ DOMAIN outbox = Sockets \cup {0}
      /\ refs.timer => env.signedIn
  BY DEF ClientInv, ServerTypes, Attempts
<1>2. CASE AutoConnectWebSocket \/ ReconnectTimer
  BY <1>1, <1>2, ConnectStep DEF AutoConnectWebSocket, ReconnectTimer
<1>3. CASE disconnect
  BY <1>3, DisconnectStep
<1>4. CASE \E a \in authCalls : StaleAuth(a) \/ AuthUnavailable(a) \/ AuthRequired(a)
  BY <1>4, AuthEndsStep
<1>5. CASE \E a \in authCalls : AuthResolved(a)
  BY <1>5, AuthResolvedStep
<1>6. CASE \E s \in Sockets : OnOpen(s) \/ OnClose(s)
  BY <1>6, OpenStep, CloseStep
<1>7. CASE ServerStep
  BY <1>7, ReadsStep, HangsUpStep DEF ServerStep
<1>8. CASE \E h \in DOMAIN outbox : ServerWrites(h)
  BY <1>1, <1>8, WritesStep
<1>9. CASE \E r \in Requests : SendUnavailable(r) \/ \E c \in Commands : Send(r, c)
  BY <1>9, SendStep
<1>10. CASE LoadPage
  BY <1>10, LoadStep
<1>11. CASE \/ \E r \in Requests : CommandTimeout(r)
            \/ dismissCompletedGame \/ CookieEnds \/ UNCHANGED vars
  BY <1>11, SmallStep
<1>12. CASE PeerActs \/ ServerRestarts
  BY <1>12, PeerStep, RestartStep
<1>13. CASE \E s \in Sockets : LinkDies(s)
  BY <1>13, LinkStep
<1> QED BY <1>2, <1>3, <1>4, <1>5, <1>6, <1>7, <1>8, <1>9, <1>10, <1>11, <1>12, <1>13
        DEF Next, ClientStep, UserStep

-----------------------------------------------------------------------------
(***************************************************************************)
(* The theorems.                                                           *)
(***************************************************************************)
\* The inductive invariant holds in every state of the page and the server.
THEOREM ClientCorrect == Spec => []ClientInv
<1>1. Init => ClientInv
  BY InitClient
<1>2. ClientInv /\ [Next]_vars => ClientInv'
  BY NextClient
<1> QED BY <1>1, <1>2, PTL DEF Spec

\* Store, refs, promises, sockets and lobby keep their types: no message of
\* the server leads reduceIncomingMessage out of the store's states.
THEOREM ClientTypeCorrect == Spec => []TypeOK
<1>1. ClientInv => TypeOK
  <2> SUFFICES ASSUME ClientInv PROVE TypeOK
    OBVIOUS
  <2>1. ClientTypes /\ ServerTypes /\ SocketTypes
    BY DEF ClientInv
  <2>2. store \in Stores /\ refs \in Refs /\ pending \subseteq Requests
        /\ applied \subseteq Requests /\ lobby \in Lobbies
    BY <2>1 DEF ClientTypes, ServerTypes
  <2>3. \A s \in Sockets : /\ socks[s].client \in {"none", "connecting", "open", "closed"}
                           /\ socks[s].server \in {"none", "open", "closed"}
    BY <2>1 DEF SocketTypes, SocketStates, Live
  <2> QED BY <2>2, <2>3 DEF TypeOK, Stores, Refs, Lobbies
<1> QED BY <1>1, ClientCorrect, PTL

\* Every socket of the page that connects or is open is the one of
\* socketRef, and a page that has signed out has none, however many
\* connects, sign-outs, reloads and late session checks overlap.
THEOREM NoForgottenSocket == Spec => []OneLiveSocket
<1>1. ClientInv => OneLiveSocket
  BY DEF ClientInv
<1> QED BY <1>1, ClientCorrect, PTL

\* A promise of an awaited command resolves only if the server carried that
\* command out, whatever answers, timeouts and reconnects come in between.
THEOREM PromisesAreHonest == Spec => []ResolvedWasApplied
<1>1. ClientInv => ResolvedWasApplied
  BY DEF ClientInv
<1> QED BY <1>1, ClientCorrect, PTL

\* The session loses its connection only with the socket it had: the late
\* end of an older socket's goroutine leaves the newer connection alone.
THEOREM ConnectionLostWithSocket == Spec => SessionLostWithItsSocket
<1> DEFINE Kept == lobby.conn # 0 /\ lobby'.conn = 0 => socks'[lobby.conn].server = "closed"
<1>1. ASSUME ClientInv, [Next]_vars
      PROVE  [Kept]_vars
  <2>1. /\ ServerTypes /\ SocketTypes /\ Accepted /\ lobby \in Lobbies
        /\ lobby.conn \in Sockets \cup {0} /\ DOMAIN outbox = Sockets \cup {0}
        /\ socks \in [Sockets -> SocketStates] /\ ClientTypes
    BY <1>1 DEF ClientInv, ServerTypes, SocketTypes, Lobbies
  <2>2. CASE lobby'.conn = lobby.conn
    BY <2>2
  <2>3. ASSUME NEW h \in Sockets \cup {0}, socks' = closeServer(h),
               lobby' = disconnectWithEmitter(h)
        PROVE  Kept
    BY <2>1, <2>3, CloseServerFields, DisconnectFields
  <2>4. CASE \E s \in Sockets : ServerReads(s)
    <3>1. PICK s \in Sockets : ServerReads(s)
      BY <2>4
    <3>2. lobby'.conn = lobby.conn \/ lobby'.conn = s
      <4> DEFINE m == Head(socks[s].up)
      <4>1. \/ handleConnect(s) \/ UNCHANGED lobby
            \/ handleCommand(s, m.cmd, m.req)
        BY <3>1 DEF ServerReads
      <4> QED BY <2>1, <4>1
              DEF handleConnect, handleCommand, handleJoinRoom, handleLeaveRoom, handlePlay,
                  handleSpectateGame, handleStopSpectating, Lobbies
    <3> QED BY <3>2, Numbers
  <2>5. CASE \E s \in Sockets : ServerHangsUp(s)
    BY <2>3, <2>5 DEF ServerHangsUp
  <2>6. CASE \E h \in DOMAIN outbox : ServerWrites(h)
    <3>1. PICK h \in Sockets \cup {0} : ServerWrites(h)
      BY <2>1, <2>6
    <3>2. \/ lobby' = [lobby EXCEPT !.watcher = 0,
                !.phase = IF @ = "game_over" THEN "lobby" ELSE @]
          \/ socks' = closeServer(h) /\ lobby' = disconnectWithEmitter(h)
          \/ UNCHANGED lobby
      BY <3>1 DEF ServerWrites
    <3>3. lobby'.conn = lobby.conn \/ (socks' = closeServer(h) /\ lobby' = disconnectWithEmitter(h))
      BY <2>1, <3>2 DEF Lobbies
    <3> QED BY <2>3, <3>3
  <2>7. CASE ServerRestarts
    <3>1. /\ socks' = [s \in Sockets |->
               IF socks[s].server = "open" THEN closeServer(s)[s] ELSE socks[s]]
      BY <2>7 DEF ServerRestarts
    <3>2. SUFFICES ASSUME lobby.conn # 0
                   PROVE  socks'[lobby.conn].server = "closed"
      OBVIOUS
    <3>3. lobby.conn \in Sockets /\ socks[lobby.conn].server # "none"
      BY <2>1, <3>2 DEF Accepted
    <3>4. socks[lobby.conn].server \in {"open", "closed"}
      BY <2>1, <3>3 DEF SocketStates
    <3>5. closeServer(lobby.conn)[lobby.conn].server = "closed"
      BY <2>1, <3>3, CloseServerFields
    <3> QED BY <3>1, <3>3, <3>4, <3>5
  <2>8. CASE PeerActs
    <3>1. lobby'.conn = lobby.conn
      BY <2>1, <2>8 DEF PeerActs, Lobbies
    <3> QED BY <2>2, <3>1
  <2>9. CASE \/ ClientStep \/ UserStep \/ CookieEnds
             \/ \E s \in Sockets : OnClose(s) \/ LinkDies(s)
             \/ \E a \in authCalls : AuthUnavailable(a)
             \/ \E r \in Requests : CommandTimeout(r)
    <3>1. UNCHANGED lobby
      BY <2>9 DEF ClientStep, UserStep, CookieEnds, OnClose, LinkDies, AuthUnavailable,
          CommandTimeout, AutoConnectWebSocket, ReconnectTimer, disconnect, StaleAuth,
          AuthRequired, AuthResolved, OnOpen, SendUnavailable, Send, dismissCompletedGame,
          LoadPage, serverVars
    <3> QED BY <2>2, <3>1
  <2>10. CASE UNCHANGED vars
    BY <2>10
  <2> QED BY <1>1, <2>4, <2>5, <2>6, <2>7, <2>8, <2>9, <2>10 DEF Next, ServerStep
<1> QED BY <1>1, ClientCorrect, PTL DEF Spec, SessionLostWithItsSocket
=============================================================================
