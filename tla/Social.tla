------------------------------- MODULE Social -------------------------------
(***************************************************************************)
(* Friends, friend requests and game invites: the tables, the presence of  *)
(* users over their connections, the handlers of the game server, and the  *)
(* social state that every open tab shows.                                 *)
(*                                                                         *)
(* Each connection has a goroutine of its own, which handles one command   *)
(* to its end: it changes the tables, reads the records of all the users   *)
(* that the change concerns, and for one user after the other makes an     *)
(* event, which looks at the presence of that moment, and writes it to one *)
(* of that user's connections after the other.  The steps of several       *)
(* goroutines interleave.  A written event is shown at once: a delay on    *)
(* the way to the client is a delay of the write.  Transactions and single *)
(* statements are one step.  A tab waits for the answer to a command       *)
(* before it sends the next one.                                           *)
(*                                                                         *)
(* The lobby is a model of its own: whether a user sits in a room that can *)
(* be joined, and whether joining succeeds, is left open here.  There is   *)
(* one room per inviter.  Names, active games and spectators are left out. *)
(***************************************************************************)
EXTENDS Integers, Sequences, FiniteSets, SequencesExt

CONSTANTS
  Users,
  Conns,        \* the connections there may be: the tabs
  UserOf,       \* whose connection it is
  MaxCommands,  \* bound on the commands sent
  MaxTrouble,   \* bound on connections closed, reads failed, invites expired
  MaxBusy       \* bound on the goroutines at work at the same time

ASSUME ParametersAssumption ==
  /\ IsFiniteSet(Users) /\ IsFiniteSet(Conns)
  /\ UserOf \in [Conns -> Users]
  /\ MaxCommands \in Nat /\ MaxTrouble \in Nat /\ MaxBusy \in Nat

Ids == 0 .. MaxCommands

VARIABLES
  friendships,  \* pairs of users
  requests,     \* friend requests: id, from, to
  invites,      \* game invites: id, from, to
  expired,      \* the ids of invites that have expired
  online,       \* the connections that are present
  task,         \* what the goroutine of each connection is doing
  shown,        \* the social state in each tab
  answers,      \* how many answers to each request were reported as a success
  behind,       \* tabs whose last event was overtaken, or not sent
  commands, trouble

tables == <<friendships, requests, invites, expired>>
bounds == <<commands, trouble>>
vars == <<tables, online, task, shown, answers, behind, bounds>>

Pair(u, v) == {u, v}
Idle == [at |-> "idle"]
NoEvent == [userId |-> "none"]

----------------------------------------------------------------------------
(* What a user is told. *)

isOnline(u) == \E c \in online : UserOf[c] = u

ListSocialSnapshots(u) ==
  [friends |-> {v \in Users \ {u} : Pair(u, v) \in friendships},
   incoming |-> {r \in requests : r.to = u},
   outgoing |-> {r.to : r \in {s \in requests : s.from = u}},
   invites |-> {i \in invites : i.to = u /\ i.id \notin expired}]

socialEventFromRecord(u, record) ==
  [userId |-> u,
   friends |-> record.friends,
   online |-> {v \in record.friends : isOnline(v)},
   incoming |-> record.incoming,
   outgoing |-> record.outgoing,
   invites |-> {i.id : i \in record.invites}]

----------------------------------------------------------------------------
(* Goroutines. *)

\* The users are unique, in the order given.  then says what follows: the
\* answer to a command, the friends of a user who has connected, or nothing.
refreshSocialUsers(users, then) ==
  IF users = <<>> THEN Idle
  ELSE [at |-> "refresh", users |-> users, then |-> then]

Answer(id) == [kind |-> "answer", id |-> id]
Success == [kind |-> "success"]
RefreshFriends == [kind |-> "friends"]
Nothing == [kind |-> "nothing"]

\* writeSocialActionSuccess: the tab is told.
Reported(then) ==
  IF then.kind = "answer"
  THEN answers' = [answers EXCEPT ![then.id] = @ + 1]
  ELSE UNCHANGED answers

Starts(c) ==
  /\ task[c] = Idle
  /\ Cardinality({d \in Conns : task[d] # Idle}) < MaxBusy

Goes(c, next) == task' = [task EXCEPT ![c] = next]

\* The command is refused: an error is written and nothing has changed.
Refused(c) ==
  /\ Goes(c, Idle)
  /\ UNCHANGED <<tables, online, shown, answers, behind, bounds>>

----------------------------------------------------------------------------
(* The tabs.  A button is enabled by what the tab shows. *)

Send(c, command) ==
  /\ c \in online /\ Starts(c)
  /\ commands < MaxCommands /\ commands' = commands + 1
  /\ Goes(c, command)
  /\ UNCHANGED <<tables, online, shown, answers, behind, trouble>>

addFriend(c, v) ==
  /\ v # UserOf[c]
  /\ v \notin shown[c].friends \cup shown[c].outgoing
  /\ \A r \in shown[c].incoming : r.from # v
  /\ Send(c, [at |-> "request", to |-> v, id |-> commands + 1])

respondFriendRequest(c, r, accept) ==
  /\ r \in shown[c].incoming
  /\ Send(c, [at |-> "respond", id |-> r.id, accept |-> accept])

unfriend(c, v) ==
  /\ v \in shown[c].friends
  /\ Send(c, [at |-> "remove", to |-> v])

\* Whether the tab's own room can be joined is left open.
inviteEnabled(c, v) == v \in shown[c].friends \cap shown[c].online

invite(c, v) ==
  /\ inviteEnabled(c, v)
  /\ Send(c, [at |-> "invite", to |-> v, id |-> commands + 1])

\* A tab drops the invites that have expired by itself.
gameInvites(c) == shown[c].invites \ expired

respondGameInvite(c, id, accept) ==
  /\ id \in gameInvites(c)
  /\ Send(c, [at |-> "answerInvite", id |-> id, accept |-> accept])

----------------------------------------------------------------------------
(* Handlers: the part up to the refresh. *)

\* The friendship is looked up first, in a statement of its own.
SendFriendRequest(c) ==
  /\ task[c].at = "request"
  /\ IF Pair(UserOf[c], task[c].to) \in friendships
     THEN Refused(c)
     ELSE /\ Goes(c, [task[c] EXCEPT !.at = "insert"])
          /\ UNCHANGED <<tables, online, shown, answers, behind, bounds>>

\* One request per pair, in whichever direction.
InsertFriendRequest(c) ==
  /\ task[c].at = "insert"
  /\ IF \E r \in requests : Pair(r.from, r.to) = Pair(UserOf[c], task[c].to)
     THEN Refused(c)
     ELSE /\ requests' = requests \cup
               {[id |-> task[c].id, from |-> UserOf[c], to |-> task[c].to]}
          /\ Goes(c, refreshSocialUsers(<<UserOf[c], task[c].to>>, Success))
          /\ UNCHANGED <<friendships, invites, expired, online, shown, answers,
                         behind, bounds>>

\* Slip: a request that is gone counts as answered.
RespondFriendRequestSlip(c) ==
  /\ task[c].at = "respond"
  /\ requests' = {s \in requests : s.id # task[c].id}
  /\ friendships' = friendships \cup
       {Pair(r.from, r.to) : r \in {s \in requests : s.id = task[c].id /\ task[c].accept}}
  /\ Goes(c, refreshSocialUsers(SetToSeq(Users), Answer(task[c].id)))
  /\ UNCHANGED <<invites, expired, online, shown, answers, behind, bounds>>

\* A transaction that locks the request.
RespondFriendRequest(c) ==
  /\ task[c].at = "respond"
  /\ \/ /\ \A r \in requests : ~(r.id = task[c].id /\ r.to = UserOf[c])
        /\ Refused(c)
     \/ \E r \in requests :
          /\ r.id = task[c].id /\ r.to = UserOf[c]
          /\ requests' = requests \ {r}
          /\ friendships' = IF task[c].accept
                            THEN friendships \cup {Pair(r.from, r.to)}
                            ELSE friendships
          /\ Goes(c, refreshSocialUsers(<<UserOf[c], r.from>>, Answer(r.id)))
          /\ UNCHANGED <<invites, expired, online, shown, answers, behind,
                         bounds>>

\* Slip: only the user who removes the friend is told.
RemoveFriendSlip(c) ==
  /\ task[c].at = "remove"
  /\ friendships' = friendships \ {Pair(UserOf[c], task[c].to)}
  /\ Goes(c, refreshSocialUsers(<<UserOf[c]>>, Success))
  /\ UNCHANGED <<requests, invites, expired, online, shown, answers, behind,
                 bounds>>

RemoveFriend(c) ==
  /\ task[c].at = "remove"
  /\ IF Pair(UserOf[c], task[c].to) \notin friendships
     THEN Refused(c)
     ELSE /\ friendships' = friendships \ {Pair(UserOf[c], task[c].to)}
          /\ Goes(c, refreshSocialUsers(<<UserOf[c], task[c].to>>, Success))
          /\ UNCHANGED <<requests, invites, expired, online, shown, answers,
                         behind, bounds>>

\* The friend must be present and the lobby must have a room to join.
handleSendGameInvite(c) ==
  /\ task[c].at = "invite"
  /\ \/ Refused(c)
     \/ /\ isOnline(task[c].to)
        /\ Goes(c, [task[c] EXCEPT !.at = "insertInvite"])
        /\ UNCHANGED <<tables, online, shown, answers, behind, bounds>>

\* A transaction: expired invites go, and the same invite is replaced.
SendGameInvite(c) ==
  /\ task[c].at = "insertInvite"
  /\ IF Pair(UserOf[c], task[c].to) \notin friendships
     THEN Refused(c)
     ELSE /\ invites' =
               {i \in invites : /\ i.id \notin expired
                                /\ ~(i.from = UserOf[c] /\ i.to = task[c].to)}
               \cup {[id |-> task[c].id, from |-> UserOf[c], to |-> task[c].to]}
          /\ Goes(c, refreshSocialUsers(<<task[c].to>>, Success))
          /\ UNCHANGED <<friendships, requests, expired, online, shown, answers,
                         behind, bounds>>

\* Accepting joins the room before the invite is deleted; the lobby may refuse.
GetGameInvite(c) ==
  /\ task[c].at = "answerInvite"
  /\ \/ Refused(c)
     \/ \E i \in invites :
          /\ i.id = task[c].id /\ i.to = UserOf[c] /\ i.id \notin expired
          /\ Goes(c, [at |-> "deleteInvite", id |-> i.id, from |-> i.from,
                      accept |-> task[c].accept])
          /\ UNCHANGED <<tables, online, shown, answers, behind, bounds>>

\* An invite that is gone is an error for a refusal, not for an acceptance.
DeleteGameInvite(c) ==
  /\ task[c].at = "deleteInvite"
  /\ LET gone == \A i \in invites : i.id # task[c].id IN
     IF gone /\ ~task[c].accept THEN Refused(c)
     ELSE /\ invites' = {i \in invites : i.id # task[c].id}
          /\ Goes(c, refreshSocialUsers(<<UserOf[c], task[c].from>>, Success))
          /\ UNCHANGED <<friendships, requests, expired, online, shown, answers,
                         behind, bounds>>

----------------------------------------------------------------------------
(* Connections. *)

\* A tab that reconnects keeps what it shows; one that is reloaded is empty.
socialConnected(c) ==
  /\ c \notin online /\ Starts(c)
  /\ online' = online \cup {c}
  /\ \E before \in {shown[c], NoEvent} : shown' = [shown EXCEPT ![c] = before]
  /\ Goes(c, refreshSocialUsers(<<UserOf[c]>>, RefreshFriends))
  /\ UNCHANGED <<tables, answers, behind, bounds>>

remove(c) ==
  [online |-> online \ {c},
   wentOffline |-> \A d \in online \ {c} : UserOf[d] # UserOf[c]]

\* The friends hear of it when the last connection of the user is gone.
\* What others still have to write to the connection is lost.
socialDisconnected(c) ==
  /\ c \in online /\ Starts(c)
  /\ trouble < MaxTrouble /\ trouble' = trouble + 1
  /\ online' = remove(c).online
  /\ task' = [d \in Conns |->
       IF d = c THEN (IF remove(c).wentOffline THEN [at |-> "leave"] ELSE Idle)
       ELSE IF task[d].at = "write" THEN [task[d] EXCEPT !.left = @ \ {c}]
       ELSE task[d]]
  /\ UNCHANGED <<tables, shown, answers, behind, commands>>

LoadFriends(c) ==
  /\ task[c].at = "leave"
  /\ Goes(c, refreshSocialUsers(
               SetToSeq(ListSocialSnapshots(UserOf[c]).friends), Nothing))
  /\ UNCHANGED <<tables, online, shown, answers, behind, bounds>>

----------------------------------------------------------------------------
(* The refresh. *)

\* All the records in one query.
ReadRecords(c) ==
  /\ task[c].at = "refresh"
  /\ Goes(c, [at |-> "emit", users |-> task[c].users, then |-> task[c].then,
              records |-> [u \in ToSet(task[c].users) |-> ListSocialSnapshots(u)],
              event |-> NoEvent, left |-> {}, passed |-> {}])
  /\ UNCHANGED <<tables, online, shown, answers, behind, bounds>>

userConnections(u) == {d \in online : UserOf[d] = u}

\* Other goroutines that have read their records are passed by in these tabs.
PassedBy(c, tabs, next) ==
  [d \in Conns |->
    IF d = c THEN next
    ELSE IF task[d].at \in {"emit", "write"}
    THEN [task[d] EXCEPT !.passed = @ \cup tabs]
    ELSE task[d]]

\* A read that fails is logged, and the command still succeeds; the friends of
\* a user who connects or leaves are not told.
ReadFails(c) ==
  /\ task[c].at = "leave" \/ task[c].at = "refresh"
  /\ trouble < MaxTrouble /\ trouble' = trouble + 1
  /\ LET ends == task[c].at = "refresh" /\ task[c].then # RefreshFriends
         untold == IF ends
                   THEN {d \in Conns : UserOf[d] \in ToSet(task[c].users)}
                   ELSE Conns IN
     /\ behind' = behind \cup untold
     /\ task' = PassedBy(c, untold, Idle)
     /\ IF ends THEN Reported(task[c].then) ELSE UNCHANGED answers
  /\ UNCHANGED <<tables, online, shown, commands>>

MakeEvent(c) ==
  /\ task[c].at = "emit" /\ task[c].event = NoEvent
  /\ LET u == Head(task[c].users) IN
     Goes(c, [task[c] EXCEPT !.event =
                socialEventFromRecord(u, task[c].records[u])])
  /\ UNCHANGED <<tables, online, shown, answers, behind, bounds>>

\* What follows when a user's event is written to all connections.
Continues(t) ==
  IF t.left # {} THEN [t EXCEPT !.at = "write"]
  ELSE IF Len(t.users) > 1
  THEN [t EXCEPT !.at = "emit", !.users = Tail(@), !.event = NoEvent]
  ELSE IF t.then = RefreshFriends
       THEN refreshSocialUsers(SetToSeq(t.event.friends), Nothing)
       ELSE Idle

\* The goroutine goes on, and an answer is written when it is through.
GoesOn(c, tabs, next) ==
  /\ task' = PassedBy(c, tabs, next)
  /\ IF next = Idle THEN Reported(task[c].then) ELSE UNCHANGED answers

\* The connections of the user that are to get the event.
emitSocialStateEvent(c) ==
  /\ task[c].at = "emit" /\ task[c].event # NoEvent
  /\ GoesOn(c, {}, Continues([task[c] EXCEPT
                   !.left = userConnections(task[c].event.userId)]))
  /\ UNCHANGED <<tables, online, shown, behind, bounds>>

\* The event reaches one of them.
WriteEvent(c, d) ==
  /\ task[c].at = "write" /\ d \in task[c].left
  /\ shown' = [shown EXCEPT ![d] = task[c].event]
  /\ behind' = IF d \in task[c].passed THEN behind \cup {d} ELSE behind \ {d}
  /\ GoesOn(c, {d}, Continues([task[c] EXCEPT !.left = @ \ {d}]))
  /\ UNCHANGED <<tables, online, bounds>>

\* The last write has failed: the connection is closed.
WriteFails(c) ==
  /\ task[c].at = "write" /\ task[c].left = {}
  /\ GoesOn(c, {}, Continues(task[c]))
  /\ UNCHANGED <<tables, online, shown, behind, bounds>>

\* Time passes: the server leaves an expired invite out, and so does a tab.
InviteExpires(i) ==
  /\ i \in invites /\ i.id \notin expired
  /\ trouble < MaxTrouble /\ trouble' = trouble + 1
  /\ expired' = expired \cup {i.id}
  /\ UNCHANGED <<friendships, requests, invites, online, task, shown, answers,
                 behind, commands>>

----------------------------------------------------------------------------
\* Nothing is under way and all the tabs are open; users may be friends
\* already, one of them may have invited another, or asked another.
Init ==
  /\ friendships \in SUBSET {Pair(u, v) : u, v \in Users}
  /\ \A p \in friendships : Cardinality(p) = 2
  /\ \/ requests = {} /\ invites = {}
     \/ \E u, v \in Users :
          LET first == {[id |-> 0, from |-> u, to |-> v]} IN
          /\ u # v
          /\ IF Pair(u, v) \in friendships
             THEN requests = {} /\ invites = first
             ELSE requests = first /\ invites = {}
  /\ expired = {}
  /\ online = Conns /\ task = [c \in Conns |-> Idle]
  /\ shown = [c \in Conns |->
       socialEventFromRecord(UserOf[c], ListSocialSnapshots(UserOf[c]))]
  /\ answers = [id \in Ids |-> 0] /\ behind = {}
  /\ commands = 0 /\ trouble = 0

\* Nothing can be pressed while the social state is loading.
Tab(c) ==
  /\ shown[c] # NoEvent
  /\ \/ \E v \in Users : addFriend(c, v) \/ unfriend(c, v) \/ invite(c, v)
     \/ \E accept \in BOOLEAN :
          \/ \E r \in shown[c].incoming : respondFriendRequest(c, r, accept)
          \/ \E id \in shown[c].invites : respondGameInvite(c, id, accept)

Handler(c) ==
  \/ SendFriendRequest(c) \/ InsertFriendRequest(c) \/ RespondFriendRequest(c)
  \/ RemoveFriend(c)
  \/ handleSendGameInvite(c) \/ SendGameInvite(c)
  \/ GetGameInvite(c) \/ DeleteGameInvite(c)
  \/ LoadFriends(c) \/ ReadRecords(c) \/ ReadFails(c)
  \/ MakeEvent(c) \/ emitSocialStateEvent(c)
  \/ WriteFails(c) \/ \E d \in Conns : WriteEvent(c, d)

Next ==
  \/ \E c \in Conns :
       Tab(c) \/ Handler(c) \/ socialConnected(c) \/ socialDisconnected(c)
  \/ \E i \in invites : InviteExpires(i)

Spec == Init /\ [][Next]_vars

----------------------------------------------------------------------------
Requests == [id : Ids, from : Users, to : Users]

Stages == {"idle", "request", "insert", "respond", "remove", "invite",
           "insertInvite", "answerInvite", "deleteInvite", "leave", "refresh",
           "emit", "write"}

\* The state has its shape: ids name one thing, a pair of users has at most
\* one request, and a tab shows the state of its own user.
TypeOK ==
  /\ friendships \subseteq {Pair(u, v) : u, v \in Users}
  /\ requests \subseteq Requests /\ invites \subseteq Requests
  /\ \A r, s \in requests : Pair(r.from, r.to) = Pair(s.from, s.to) => r = s
  /\ \A i, j \in invites : i.id = j.id => i = j
  /\ expired \subseteq Ids /\ online \subseteq Conns /\ behind \subseteq Conns
  /\ \A c \in Conns : /\ task[c].at \in Stages
                      /\ shown[c] # NoEvent => shown[c].userId = UserOf[c]

\* When all goroutines are done, every open tab shows the friends, their
\* presence, the requests and the invites as they are: a change is announced
\* to everybody it concerns, and nobody is shown online after the last tab is
\* closed.  The exceptions are a tab whose last event was made from a record
\* that was read before another event was written, since nothing orders the
\* events of two goroutines, and a tab that had no event since a read failed:
\* after a change, a tab of the users concerned; when somebody connects or
\* leaves, any tab, since it was the list of whom to tell that was not read.
ShownIsCurrent ==
  (\A c \in Conns : task[c] = Idle) =>
    \A c \in online \ behind :
      LET now == socialEventFromRecord(UserOf[c], ListSocialSnapshots(UserOf[c]))
      IN  /\ shown[c] # NoEvent
          /\ shown[c].friends = now.friends /\ shown[c].online = now.online
          /\ shown[c].incoming = now.incoming /\ shown[c].outgoing = now.outgoing
          /\ gameInvites(c) = now.invites

\* A friend request is answered once: of all the tabs in which the recipient
\* accepts or declines it, one is told that it succeeded.
AnsweredOnce == \A id \in Ids : answers[id] <= 1
=============================================================================
