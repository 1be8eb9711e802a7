----------------------------- MODULE GameClient -----------------------------
(***************************************************************************)
(* One browser tab, its WebSockets and the server's end of them.           *)
(*                                                                         *)
(* The client is the controller of game-websocket-provider.tsx: a store    *)
(* that incoming messages are reduced into, refs that survive renders (the *)
(* socket, the attempt number, the retry timer), the promises of awaited   *)
(* commands, and connect(), which suspends on the session check before it  *)
(* opens a socket.  The server is one goroutine per socket: it takes one   *)
(* message, changes the lobby under its lock, and only then, with the lock *)
(* released, writes the answers one by one.  Another player's goroutine    *)
(* (number 0) writes to this client's socket in between.                   *)
(*                                                                         *)
(* The room and its game are reduced to a phase and a version that every   *)
(* action raises; GameState and Room say what the actions do.  The server  *)
(* finds a player by the authenticated user, so session ids are left out,  *)
(* and so is the friends list (social_state), which nothing here reads.    *)
(***************************************************************************)
EXTENDS Naturals, Sequences, FiniteSets

CONSTANTS
  MaxEvents,    \* bound on faults (lost links, failed handshakes, expired
                \* cookies, reloads...) and game actions, taken together
  MaxRequests,  \* bound on commands the user sends
  Commands      \* the commands the user may send

ASSUME BoundsAssumption ==
  /\ MaxEvents \in Nat \ {0} /\ MaxRequests \in Nat
  /\ Commands \subseteq {"join_room", "leave_room", "play",
                         "spectate_game", "stop_spectating"}

VARIABLES
  store,      \* gameWebSocketStore
  refs,       \* the controller's refs
  pending,    \* pendingActionsRef: the commands a promise waits for
  authCalls,  \* session checks under way: the attempt that made each and
              \* whether the cookie was good then
  socks,      \* every socket of the tab, both ends
  lobby,      \* the server's session, room and spectators
  outbox,     \* what each handler goroutine has still to write
  outcome,    \* how each command ended for the user
  applied,    \* the commands the server has carried out
  env         \* the cookie, the route's session and the faults so far

vars == <<store, refs, pending, authCalls, socks, lobby, outbox, outcome,
          applied, env>>

Sockets == 1 .. MaxEvents   \* each needs a fault, but the first
Requests == 1 .. MaxRequests
Phases == {"lobby", "in_progress", "game_over"}
(* The game starts at version 1; every fault and every move is an event. *)
BudgetLeft == env.faults + lobby.ver < MaxEvents

peer == 0   \* the goroutine that serves the other player

(* Everything the server writes, in one shape. *)
Message(type, phase, ver, req) ==
  [type |-> type, phase |-> phase, ver |-> ver, req |-> req]

plain(type) == Message(type, "lobby", 0, 0)
room_state == Message("room_state", lobby.phase, 0, 0)
game_state == Message("game_state", lobby.phase, lobby.ver, 0)

----------------------------------------------------------------------------
(* The store. *)

initialState ==
  [status |-> "idle", room |-> "none", game |-> 0, completed |-> 0,
   spectating |-> FALSE, lastError |-> FALSE]

initialRefs ==
  [socket |-> 0, attempt |-> 0, inFlight |-> FALSE, timer |-> FALSE]

withError(current) == [current EXCEPT !.lastError = TRUE]
clearError(current) == [current EXCEPT !.lastError = FALSE]

(* room_state: with a finished game the last snapshot seen becomes the     *)
(* result, and a room back in the lobby has no game.                       *)
reduceRoomState(current, m) ==
  [clearError(current) EXCEPT
     !.room = m.phase,
     !.game = IF m.phase = "lobby" THEN 0 ELSE @,
     !.completed = IF m.phase = "game_over" /\ current.game # 0
                   THEN current.game ELSE @]

reduceGameState(current, m) ==
  [clearError(current) EXCEPT
     !.room = m.phase,
     !.game = m.ver,
     !.spectating = (m.type = "spectator_state"),
     !.completed = IF m.phase = "game_over" THEN m.ver
                   ELSE IF m.phase = "in_progress" THEN 0 ELSE @]

reduceIncomingMessage(current, m) ==
  CASE m.type = "connected" ->
         [clearError(current) EXCEPT !.status = "connected",
                                     !.spectating = FALSE]
    [] m.type = "room_state" -> reduceRoomState(current, m)
    [] m.type \in {"game_state", "spectator_state"} ->
         reduceGameState(current, m)
    [] m.type = "spectating_ended" ->
         [clearError(current) EXCEPT !.room = "none", !.game = 0,
                                     !.spectating = FALSE]
    [] m.type = "action_result" -> clearError(current)
    [] m.type = "left_room" ->
         [clearError(current) EXCEPT !.room = "none", !.game = 0,
                                     !.completed = 0, !.spectating = FALSE]
    [] m.type = "social_error" -> clearError(current)
    [] m.type = "error" ->
         [withError(current) EXCEPT
            !.status = IF @ = "connecting" THEN "disconnected" ELSE @]

----------------------------------------------------------------------------
(* Helpers of the controller. *)

(* The promises of `ids` end with `how`. *)
settle(ids, how) ==
  /\ pending' = pending \ ids
  /\ outcome' = [r \in Requests |-> IF r \in ids THEN how ELSE outcome[r]]

(* A slip: every answer ends whatever is pending. *)
resolvePendingActionSlip(m) ==
  settle(IF m.req \in pending THEN {m.req} ELSE pending, "resolved")

(* A slip: what was pending is forgotten without an end. *)
rejectPendingActionsSlip(ids) ==
  /\ pending' = pending \ ids
  /\ UNCHANGED outcome

rejectPendingActions(ids) == settle(ids \cap pending, "rejected")

(* resolvePendingAction: only the promise with the answer's request id. *)
resolvePendingAction(m) == settle({m.req} \cap pending, "resolved")

(* A timer is set at most once; the delay grows up to five seconds, which  *)
(* only says that it ends.                                                 *)
scheduleReconnect(r) == [r EXCEPT !.timer = TRUE]

closeClient(s) ==
  IF s = 0 THEN socks
  ELSE [socks EXCEPT ![s].client = "closed"]

(* cancelPendingConnect: what leaving the page, unmounting and             *)
(* disconnect() have in common.                                            *)
cancelPendingConnect ==
  /\ socks' = closeClient(refs.socket)
  /\ refs' = [refs EXCEPT !.socket = 0, !.attempt = @ + 1,
                          !.inFlight = FALSE, !.timer = FALSE]
  /\ rejectPendingActions(pending)

(* A slip: a socket that fails is not tried again. *)
handleConnectionLossSlip(s) ==
  IF refs.socket # s
  THEN UNCHANGED <<refs, store, pending, outcome>>
  ELSE /\ refs' = [refs EXCEPT !.socket = 0, !.inFlight = FALSE]
       /\ store' = [store EXCEPT !.status = "disconnected"]
       /\ rejectPendingActions(pending)

(* handleConnectionLoss: only the current socket's loss counts. *)
handleConnectionLoss(s) ==
  IF refs.socket # s
  THEN UNCHANGED <<refs, store, pending, outcome>>
  ELSE /\ refs' = scheduleReconnect([refs EXCEPT !.socket = 0,
                                                 !.inFlight = FALSE])
       /\ store' = [store EXCEPT !.status = "disconnected"]
       /\ rejectPendingActions(pending)

SocketIs(s, states) == s # 0 /\ socks[s].client \in states

----------------------------------------------------------------------------
(* The client's steps. *)

serverVars == <<lobby, outbox, applied>>

(* connect: past its early returns it takes a new attempt number and asks  *)
(* for the session; a page that is reconnecting keeps saying so.           *)
connect ==
  IF refs.inFlight \/ SocketIs(refs.socket, {"connecting", "open"})
  THEN /\ refs' = [refs EXCEPT !.timer = FALSE]
       /\ UNCHANGED <<store, authCalls>>
  ELSE /\ refs' = [refs EXCEPT !.timer = FALSE, !.attempt = @ + 1,
                               !.inFlight = TRUE]
       /\ store' = [clearError(store) EXCEPT
                      !.status = IF @ = "disconnected" THEN @
                                 ELSE "connecting"]
       /\ authCalls' = authCalls \cup
            {[attempt |-> refs.attempt + 1, good |-> env.cookie = "valid"]}

(* AutoConnectWebSocket: its effect runs once the route has a session. *)
AutoConnectWebSocket ==
  /\ env.signedIn /\ store.status = "idle"
  /\ connect
  /\ UNCHANGED <<pending, socks, outcome, env, serverVars>>

ReconnectTimer ==
  /\ refs.timer
  /\ connect
  /\ UNCHANGED <<pending, socks, outcome, env, serverVars>>

(* A session check returns; an overtaken one is dropped.  The answer is    *)
(* that of some moment since it was asked for.                             *)
StaleAuth(a) ==
  /\ a \in authCalls /\ a.attempt # refs.attempt
  /\ authCalls' = authCalls \ {a}
  /\ refs' = [refs EXCEPT !.inFlight = FALSE]
  /\ UNCHANGED <<store, pending, socks, outcome, env, serverVars>>

AuthUnavailable(a) ==
  /\ a \in authCalls /\ a.attempt = refs.attempt /\ BudgetLeft
  /\ env' = [env EXCEPT !.faults = @ + 1]
  /\ authCalls' = authCalls \ {a}
  /\ refs' = scheduleReconnect([refs EXCEPT !.inFlight = FALSE])
  /\ store' = [store EXCEPT !.status = "disconnected"]
  /\ UNCHANGED <<pending, socks, outcome, serverVars>>

AuthRequired(a) ==
  /\ a \in authCalls /\ a.attempt = refs.attempt /\ env.cookie # "valid"
  /\ authCalls' = authCalls \ {a}
  /\ refs' = [refs EXCEPT !.inFlight = FALSE]
  /\ store' = [withError(store) EXCEPT
                 !.status = "disconnected"]
  /\ UNCHANGED <<pending, socks, outcome, env, serverVars>>

(* A slip: a session check that was overtaken still opens its socket. *)
AuthResolvedSlip(a) ==
  /\ a \in authCalls
  /\ a.good \/ env.cookie = "valid"
  /\ authCalls' = authCalls \ {a}
  /\ \E s \in Sockets :
       /\ \A t \in Sockets : socks[t].client = "none" <=> t >= s
       /\ socks' = [socks EXCEPT ![s].client = "connecting"]
       /\ refs' = [refs EXCEPT !.socket = s]
  /\ UNCHANGED <<store, pending, outcome, env, serverVars>>

AuthResolved(a) ==
  /\ a \in authCalls /\ a.attempt = refs.attempt
  /\ a.good \/ env.cookie = "valid"
  /\ authCalls' = authCalls \ {a}
  /\ \E s \in Sockets :
       /\ \A t \in Sockets : socks[t].client = "none" <=> t >= s
       /\ socks' = [socks EXCEPT ![s].client = "connecting"]
       /\ refs' = [refs EXCEPT !.socket = s]
  /\ UNCHANGED <<store, pending, outcome, env, serverVars>>

(* onopen: the server has accepted; the first message names the session.   *)
(* A socket that was closed meanwhile never opens.                         *)
OnOpen(s) ==
  /\ socks[s].client = "connecting"
  /\ socks' = [socks EXCEPT ![s].client = "open", ![s].server = "open",
                            ![s].link = TRUE,
                            ![s].up = <<[cmd |-> "connect", req |-> 0]>>]
  /\ refs' = [refs EXCEPT !.inFlight = FALSE]
  /\ UNCHANGED <<store, pending, authCalls, outcome, env, serverVars>>

(* onmessage, with applyIncomingMessage. *)
applyIncomingMessage(m) ==
  /\ \/ m.type = "action_result" /\ resolvePendingAction(m)
     \/ m.type \in {"error", "social_error"} /\ rejectPendingActions({m.req})
     \/ m.type \notin {"action_result", "error", "social_error"}
          /\ UNCHANGED <<pending, outcome>>
  /\ store' = reduceIncomingMessage(store, m)

(* onclose, or onerror when the socket never opened. *)
OnClose(s) ==
  /\ \/ socks[s].client = "open" /\ UNCHANGED env
          /\ (~socks[s].link \/ socks[s].server = "closed")
     \/ socks[s].client = "connecting" /\ BudgetLeft
          /\ env' = [env EXCEPT !.faults = @ + 1]
  /\ socks' = closeClient(s)
  /\ handleConnectionLoss(s)
  /\ UNCHANGED <<authCalls, serverVars>>

(* send: without an open socket the command fails at once. *)
awaited == {"play", "spectate_game", "stop_spectating"}
fresh(r) == \A q \in Requests : outcome[q] = "unsent" <=> q >= r

SendUnavailable(r) ==
  /\ fresh(r) /\ ~SocketIs(refs.socket, {"open"})
  /\ store' = withError(store)
  /\ outcome' = [outcome EXCEPT ![r] = "rejected"]
  /\ UNCHANGED <<refs, pending, authCalls, socks, env, serverVars>>

Send(r, cmd) ==
  /\ fresh(r) /\ SocketIs(refs.socket, {"open"})
  /\ pending' = IF cmd \in awaited THEN pending \cup {r} ELSE pending
  /\ outcome' = [outcome EXCEPT
                   ![r] = IF cmd \in awaited THEN "waiting" ELSE "sent"]
  /\ socks' = [socks EXCEPT ![refs.socket].up =
                 IF socks[refs.socket].link
                 THEN Append(@, [cmd |-> cmd, req |-> r]) ELSE @]
  /\ store' = clearError(store)
  /\ UNCHANGED <<refs, authCalls, env, serverVars>>

(* The twenty-second timer of an awaited command. *)
CommandTimeout(r) ==
  /\ r \in pending
  /\ rejectPendingActions({r})
  /\ UNCHANGED <<store, refs, authCalls, socks, env, serverVars>>

dismissCompletedGame ==
  /\ store.completed # 0
  /\ store' = [store EXCEPT !.completed = 0]
  /\ UNCHANGED <<refs, pending, authCalls, socks, outcome, env, serverVars>>

(* disconnect: the route lost its session after a sign-out. *)
disconnect ==
  /\ env.signedIn /\ env.cookie = "revoked"
  /\ env' = [env EXCEPT !.signedIn = FALSE]
  /\ cancelPendingConnect
  /\ store' = [store EXCEPT !.status = "disconnected", !.room = "none",
                            !.game = 0, !.spectating = FALSE]
  /\ UNCHANGED <<authCalls, serverVars>>

(* Leaving the page and loading it again, after signing in if need be.     *)
LoadPage ==
  /\ env.cookie # "valid" \/ BudgetLeft
  /\ env' = [signedIn |-> TRUE, cookie |-> "valid",
             faults |-> IF env.cookie = "valid" THEN env.faults + 1
                        ELSE env.faults]
  /\ socks' = closeClient(refs.socket)
  /\ rejectPendingActions(pending)
  /\ refs' = initialRefs /\ store' = initialState /\ authCalls' = {}
  /\ UNCHANGED serverVars

----------------------------------------------------------------------------
(* The server's steps. *)

clientVars == <<store, refs, pending, authCalls, outcome>>

Batch(to, msgs) == [i \in DOMAIN msgs |-> [to |-> to, msg |-> msgs[i]]]

(* A broadcast to the room as this client sees it: a player's connection   *)
(* is captured under the lock, watchers are looked up when it is written   *)
(* (the messages to `peer`), and anybody else gets nothing.                *)
Broadcast(msgs) ==
  IF lobby.seat /\ lobby.conn # 0 THEN Batch(lobby.conn, msgs)
  ELSE IF ~lobby.seat /\ lobby.watcher # 0 THEN Batch(peer, msgs)
  ELSE <<>>

(* broadcastActionSuccess: the answer, the room, the game and, when the    *)
(* game is over, the room's return to the lobby.                           *)
broadcastActionSuccess(req, phase, ver) ==
  Broadcast(<<Message("action_result", phase, ver, req),
              Message("room_state", phase, 0, 0),
              Message("game_state", phase, ver, 0)>>)
    \o (IF phase = "game_over" THEN Batch(peer, <<plain("reset")>>)
        ELSE <<>>)

writeRequestError(s, req, cmd) ==
  Batch(s, <<Message(IF cmd \in {"spectate_game", "stop_spectating"}
                     THEN "social_error" ELSE "error", "lobby", 0, req)>>)

(* handleConnect: the session takes the new connection whatever it had.    *)
handleConnect(s) ==
  IF env.cookie # "valid"
  THEN /\ outbox' = [outbox EXCEPT
            ![s] = Batch(s, <<plain("error"), plain("close")>>)]
       /\ UNCHANGED <<lobby, applied>>
  ELSE /\ lobby' = [lobby EXCEPT !.conn = s]
       /\ outbox' = [outbox EXCEPT
            ![s] = Batch(s, <<plain("connected")>>)
                   \o (IF lobby.seat
                       THEN Batch(s, <<room_state,
                                       [room_state EXCEPT !.type = "resume"]>>)
                       ELSE <<>>)]
       /\ UNCHANGED applied

(* decodeSessionRequest: a command counts only from the session's socket.  *)
refused(s) == lobby.conn # s \/ env.cookie # "valid"

handleJoinRoom(s) ==
  /\ ~lobby.seat /\ lobby.phase = "lobby"
  /\ lobby' = [lobby EXCEPT !.seat = TRUE]
  /\ outbox' = [outbox EXCEPT ![s] = Batch(s, <<room_state>>)]

handleLeaveRoom(s) ==
  /\ lobby.seat /\ lobby.phase = "lobby"
  /\ lobby' = [lobby EXCEPT !.seat = FALSE]
  /\ outbox' = [outbox EXCEPT ![s] = Batch(s, <<plain("left_room")>>)]

handlePlay(s, req) ==
  /\ lobby.seat /\ lobby.phase = "in_progress" /\ BudgetLeft
  /\ \E phase \in {"in_progress", "game_over"} :
       /\ lobby' = [lobby EXCEPT !.phase = phase, !.ver = @ + 1]
       /\ outbox' = [outbox EXCEPT
            ![s] = broadcastActionSuccess(req, phase, lobby.ver + 1)]

handleSpectateGame(s, req) ==
  /\ ~lobby.seat /\ lobby.phase = "in_progress"
  /\ lobby' = [lobby EXCEPT !.watcher = s]
  /\ outbox' = [outbox EXCEPT ![s] =
       Batch(s, <<room_state, [game_state EXCEPT !.type = "spectator_state"],
                  Message("action_result", "lobby", 0, req)>>)]

handleStopSpectating(s, req) ==
  /\ lobby' = [lobby EXCEPT !.watcher = IF @ = s THEN 0 ELSE @]
  /\ outbox' = [outbox EXCEPT ![s] =
       Batch(s, <<plain("spectating_ended"),
                  Message("action_result", "lobby", 0, req)>>)]

handleCommand(s, cmd, req) ==
  \/ cmd = "join_room" /\ handleJoinRoom(s)
  \/ cmd = "leave_room" /\ handleLeaveRoom(s)
  \/ cmd = "play" /\ handlePlay(s, req)
  \/ cmd = "spectate_game" /\ handleSpectateGame(s, req)
  \/ cmd = "stop_spectating" /\ handleStopSpectating(s, req)

(* What the lobby refuses, it refuses without a change. *)
inadmissible(cmd) ==
  \/ cmd = "join_room" /\ (lobby.seat \/ lobby.phase # "lobby")
  \/ cmd = "leave_room" /\ (~lobby.seat \/ lobby.phase # "lobby")
  \/ cmd = "play" /\ (~lobby.seat \/ lobby.phase # "in_progress"
                      \/ ~BudgetLeft)
  \/ cmd = "spectate_game" /\ (lobby.seat \/ lobby.phase # "in_progress")

(* handleConnectionWithRelease: the goroutine of `s` takes one message.    *)
ServerReads(s) ==
  /\ socks[s].server = "open" /\ socks[s].up # <<>> /\ outbox[s] = <<>>
  /\ LET m == Head(socks[s].up)
     IN  \/ m.cmd = "connect" /\ handleConnect(s)
         \/ /\ m.cmd # "connect" /\ refused(s)
            /\ outbox' = [outbox EXCEPT
                 ![s] = writeRequestError(s, m.req, m.cmd)
                        \o (IF lobby.conn = s
                            THEN Batch(s, <<plain("close")>>) ELSE <<>>)]
            /\ UNCHANGED <<lobby, applied>>
         \/ /\ m.cmd # "connect" /\ ~refused(s) /\ inadmissible(m.cmd)
            /\ outbox' = [outbox EXCEPT
                            ![s] = writeRequestError(s, m.req, m.cmd)]
            /\ UNCHANGED <<lobby, applied>>
         \/ /\ m.cmd # "connect" /\ ~refused(s)
            /\ handleCommand(s, m.cmd, m.req)
            /\ applied' = applied \cup {m.req}
  /\ socks' = [socks EXCEPT ![s].up = Tail(@)]
  /\ UNCHANGED <<clientVars, env>>

(* The other player starts a game or makes a move. *)
PeerActs ==
  /\ outbox[peer] = <<>> /\ BudgetLeft
  /\ lobby.phase # "game_over"
  /\ \E phase \in {"in_progress", "game_over"} :
       /\ lobby.phase = "lobby" => phase = "in_progress"
       /\ lobby' = [lobby EXCEPT !.phase = phase, !.ver = @ + 1]
       /\ outbox' = [outbox EXCEPT
            ![peer] = broadcastActionSuccess(0, phase, lobby.ver + 1)]
  /\ UNCHANGED <<clientVars, socks, applied, env>>

(* emitEvent: the write and the message's arrival are one step, the time   *)
(* in transit being part of the wait before the write; what is written to  *)
(* a socket that is gone is lost.                                          *)
emitEvent(s, m) ==
  IF s # 0 /\ socks[s].server = "open" /\ socks[s].link
     /\ socks[s].client = "open"
  THEN applyIncomingMessage(m)
  ELSE UNCHANGED <<store, pending, outcome>>

closeServer(s) ==
  [socks EXCEPT ![s].server = "closed", ![s].link = FALSE, ![s].up = <<>>]

(* A slip: whoever disconnects, the session has no connection. *)
disconnectWithEmitterSlip(s) ==
  [lobby EXCEPT !.conn = 0, !.watcher = IF @ = s THEN 0 ELSE @]

(* disconnectWithEmitter: only the session's own connection clears it. *)
disconnectWithEmitter(s) ==
  [lobby EXCEPT !.conn = IF @ = s THEN 0 ELSE @,
                !.watcher = IF @ = s THEN 0 ELSE @]

(* A goroutine writes its next message.  Watchers get the game as it is    *)
(* now; a resumed player gets it with the room snapshot taken on connect;  *)
(* resetRoomAfterGameOver runs after the results have been written.        *)
ServerWrites(h) ==
  /\ outbox[h] # <<>>
  /\ LET w == Head(outbox[h])
         rest == Tail(outbox[h])
     IN  \/ /\ w.msg.type = "reset"
            /\ lobby' = [lobby EXCEPT !.watcher = 0,
                 !.phase = IF @ = "game_over" THEN "lobby" ELSE @]
            /\ outbox' = [outbox EXCEPT ![h] =
                 IF lobby.watcher # 0
                 THEN Batch(lobby.watcher, <<plain("spectating_ended")>>)
                 ELSE Broadcast(<<plain("room_state")>>)]
            /\ UNCHANGED <<socks, store, pending, outcome>>
         \/ /\ w.msg.type = "close"
            /\ socks' = closeServer(h)
            /\ lobby' = disconnectWithEmitter(h)
            /\ outbox' = [outbox EXCEPT ![h] = <<>>]
            /\ UNCHANGED <<store, pending, outcome>>
         \/ /\ w.msg.type \notin {"reset", "close"}
            /\ outbox' = [outbox EXCEPT ![h] = rest]
            /\ UNCHANGED <<lobby, socks>>
            /\ \/ /\ w.msg.type = "resume" /\ lobby.phase # "lobby"
                  /\ emitEvent(w.to, [game_state EXCEPT !.phase = w.msg.phase])
               \/ /\ w.msg.type = "resume" /\ lobby.phase = "lobby"
                  /\ UNCHANGED <<store, pending, outcome>>
               \/ /\ w.to = peer /\ w.msg.type = "game_state"
                  /\ emitEvent(lobby.watcher,
                          [game_state EXCEPT !.type = "spectator_state"])
               \/ /\ w.to = peer /\ w.msg.type = "room_state"
                  /\ emitEvent(lobby.watcher, w.msg)
               \/ /\ w.to = peer /\ w.msg.type \notin {"game_state", "room_state"}
                  /\ UNCHANGED <<store, pending, outcome>>
               \/ /\ w.to # peer /\ w.msg.type # "resume"
                  /\ emitEvent(w.to, w.msg)
  /\ UNCHANGED <<refs, authCalls, applied, env>>

(* The read loop of `s` ends: the peer hung up, the link is dead, or the   *)
(* heartbeat found that the cookie is no longer good.                      *)
ServerHangsUp(s) ==
  /\ socks[s].server = "open" /\ outbox[s] = <<>>
  /\ \/ ~socks[s].link
     \/ socks[s].client = "closed" /\ socks[s].up = <<>>
     \/ env.cookie # "valid"
  /\ socks' = closeServer(s)
  /\ lobby' = disconnectWithEmitter(s)
  /\ UNCHANGED <<clientVars, outbox, applied, env>>

----------------------------------------------------------------------------
(* Faults. *)

LinkDies(s) ==
  /\ BudgetLeft /\ socks[s].link /\ socks[s].client = "open"
  /\ env' = [env EXCEPT !.faults = @ + 1]
  /\ \E kept \in {<<>>, socks[s].up} :   \* lost on the way, or already there
       socks' = [socks EXCEPT ![s].link = FALSE, ![s].up = kept]
  /\ UNCHANGED <<clientVars, serverVars>>

(* The process ends and restores what it had persisted, which is           *)
(* everything but connections and watchers.                                *)
ServerRestarts ==
  /\ BudgetLeft
  /\ env' = [env EXCEPT !.faults = @ + 1]
  /\ socks' = [s \in Sockets |->
       IF socks[s].server = "open"
       THEN closeServer(s)[s]
       ELSE socks[s]]
  /\ lobby' = [lobby EXCEPT !.conn = 0, !.watcher = 0]
  /\ outbox' = [h \in DOMAIN outbox |-> <<>>]
  /\ UNCHANGED <<clientVars, applied>>

CookieEnds ==
  /\ BudgetLeft /\ env.cookie = "valid"
  /\ \E how \in {"expired", "revoked"} :
       env' = [env EXCEPT !.cookie = how, !.faults = @ + 1]
  /\ UNCHANGED <<clientVars, socks, serverVars>>

----------------------------------------------------------------------------
noSocket == [client |-> "none", server |-> "none", link |-> FALSE,
             up |-> <<>>]

Init ==
  /\ store = initialState /\ refs = initialRefs
  /\ pending = {} /\ authCalls = {}
  /\ socks = [s \in Sockets |-> noSocket]
  /\ \E seat \in BOOLEAN, phase \in {"lobby", "in_progress"} :
       lobby = [conn |-> 0, seat |-> seat, watcher |-> 0,
                phase |-> phase, ver |-> 1]
  /\ outbox = [h \in Sockets \cup {peer} |-> <<>>]
  /\ outcome = [r \in Requests |-> "unsent"]
  /\ applied = {}
  /\ env = [signedIn |-> TRUE, cookie |-> "valid", faults |-> 0]

ClientStep ==
  \/ AutoConnectWebSocket \/ ReconnectTimer \/ disconnect
  \/ \E a \in authCalls : StaleAuth(a) \/ AuthRequired(a) \/ AuthResolved(a)
  \/ \E s \in Sockets : OnOpen(s)

ServerStep ==
  \E s \in Sockets : ServerReads(s) \/ ServerHangsUp(s)

UserStep ==
  \/ \E r \in Requests : SendUnavailable(r) \/ \E c \in Commands : Send(r, c)
  \/ dismissCompletedGame \/ LoadPage

Next ==
  \/ ClientStep
  \/ \E s \in Sockets : OnClose(s)
  \/ \E a \in authCalls : AuthUnavailable(a)
  \/ \E r \in Requests : CommandTimeout(r)
  \/ ServerStep
  \/ \E h \in DOMAIN outbox : ServerWrites(h)
  \/ UserStep
  \/ PeerActs
  \/ ServerRestarts \/ CookieEnds
  \/ \E s \in Sockets : LinkDies(s)

(* Timers fire, promises resolve and goroutines run; users, the other      *)
(* player and faults owe nothing.                                          *)
Fairness ==
  /\ WF_vars(AutoConnectWebSocket) /\ WF_vars(ReconnectTimer)
  /\ WF_vars(disconnect)
  /\ WF_vars(\E a \in authCalls :
               StaleAuth(a) \/ AuthRequired(a) \/ AuthResolved(a))
  /\ \A s \in Sockets :
       /\ WF_vars(OnOpen(s)) /\ WF_vars(OnClose(s))
       /\ WF_vars(ServerReads(s)) /\ WF_vars(ServerHangsUp(s))
  /\ \A h \in Sockets \cup {peer} : WF_vars(ServerWrites(h))
  /\ \A r \in Requests : WF_vars(CommandTimeout(r))

Spec == Init /\ [][Next]_vars /\ Fairness

----------------------------------------------------------------------------
(* Type invariant. *)
TypeOK ==
  /\ store \in [status : {"idle", "disconnected", "connecting", "connected"},
                room : Phases \cup {"none"}, game : 0 .. MaxEvents,
                completed : 0 .. MaxEvents, spectating : BOOLEAN,
                lastError : BOOLEAN]
  /\ refs \in [socket : Sockets \cup {0}, attempt : Nat,
               inFlight : BOOLEAN, timer : BOOLEAN]
  /\ pending \subseteq Requests /\ applied \subseteq Requests
  /\ lobby \in [conn : Sockets \cup {0}, seat : BOOLEAN,
                watcher : Sockets \cup {0}, phase : Phases,
                ver : 0 .. MaxEvents]
  /\ \A s \in Sockets :
       /\ socks[s].client \in {"none", "connecting", "open", "closed"}
       /\ socks[s].server \in {"none", "open", "closed"}

(* However connects, sign-outs, reloads and late session checks overlap,   *)
(* the page never holds a live socket it has forgotten: every socket that  *)
(* connects or is open is the one of socketRef, and a page that signed out *)
(* has none.                                                               *)
OneLiveSocket ==
  \A s \in Sockets :
    SocketIs(s, {"connecting", "open"}) => s = refs.socket /\ env.signedIn

(* A promise resolves only for the command it was made for: what the user  *)
(* is told has been done, the server has done, although answers, timeouts, *)
(* broadcasts of other commands and reconnects come in any order.          *)
ResolvedWasApplied ==
  \A r \in Requests : outcome[r] = "resolved" => r \in applied

(* While the page is loaded with a live session, a connection that is lost *)
(* comes back: there is always a socket, a session check or a timer that   *)
(* will lead to "connected".                                               *)
Reconnects ==
  (env.signedIn /\ env.cookie = "valid")
    ~> \/ store.status = "connected" /\ SocketIs(refs.socket, {"open"})
       \/ env.cookie # "valid"

(* Every awaited command ends for the user, whatever is lost. *)
ActionsSettle ==
  \A r \in Requests : (outcome[r] = "waiting") ~> (outcome[r] # "waiting")

(* The session loses its connection only together with the socket it had:  *)
(* a goroutine that notices late that its own socket is gone never takes   *)
(* the connection from the socket that replaced it.                        *)
SessionLostWithItsSocket ==
  [][lobby.conn # 0 /\ lobby'.conn = 0
       => socks'[lobby.conn].server = "closed"]_vars
============================================================================
