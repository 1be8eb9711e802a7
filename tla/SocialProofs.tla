---------------------------- MODULE SocialProofs ----------------------------
(***************************************************************************)
(* What the tabs show is announced, and a friend request is answered once: *)
(* for any users, connections and bounds.                                  *)
(*                                                                         *)
(* The invariant follows the announcements.  Whenever the state of a user  *)
(* changes, a goroutine is left that has yet to read it; and as long as an *)
(* older record is still to be written to a tab, something that makes up   *)
(* for it follows: a goroutine that will read, one that carries the state  *)
(* of now, or one that knows it was overtaken and says so.                 *)
(***************************************************************************)
EXTENDS Social, FiniteSetTheorems, SequenceTheorems, TLAPS

-----------------------------------------------------------------------------
(***************************************************************************)
(* The shape of the state.                                                 *)
(***************************************************************************)
\* The stages of a command whose id names nothing yet, those of a refresh, and
\* those in which the records have been read.
NewStages == {"request", "insert", "invite", "insertInvite"}
RefreshStages == {"refresh", "emit", "write"}
ReadStages == {"emit", "write"}

Thens == {Success, RefreshFriends, Nothing} \cup {Answer(id) : id \in Ids}

\* An event that was made from record r of user u; who is online is of a later
\* moment.
EventOf(e, u, r) ==
  /\ e # NoEvent /\ e.userId = u
  /\ e.friends = r.friends /\ e.incoming = r.incoming /\ e.outgoing = r.outgoing
  /\ e.invites = {i.id : i \in r.invites}

\* A goroutine of connection c, when n commands have been sent.
TaskOK(t, c, n) ==
  /\ t.at \in Stages
  /\ t.at = "idle" => t = Idle
  /\ t.at \in NewStages =>
       t = [at |-> t.at, to |-> t.to, id |-> t.id] /\ t.to \in Users /\ t.id \in 1 .. n
  /\ t.at = "remove" => t.to \in Users
  /\ t.at = "deleteInvite" => t.from \in Users
  /\ t.at \in RefreshStages =>
       /\ t.users \in Seq(Users) /\ t.users # <<>> /\ t.then \in Thens
       /\ t.then = RefreshFriends => t.users = <<UserOf[c]>>
  /\ t.at \in ReadStages =>
       /\ t = [at |-> t.at, users |-> t.users, then |-> t.then, records |-> t.records,
               event |-> t.event, left |-> t.left, passed |-> t.passed]
       /\ \A u \in ToSet(t.users) : t.records[u].friends \subseteq Users
  /\ (t.at \in ReadStages /\ t.event # NoEvent) =>
       EventOf(t.event, Head(t.users), t.records[Head(t.users)])
  /\ t.at = "write" => /\ t.event # NoEvent
                       /\ t.left \subseteq {d \in Conns : UserOf[d] = Head(t.users)}

TablesOK ==
  /\ friendships \subseteq {Pair(u, v) : u, v \in Users}
  /\ requests \subseteq Requests /\ invites \subseteq Requests
  /\ \A r, s \in requests : Pair(r.from, r.to) = Pair(s.from, s.to) => r = s
  /\ expired \subseteq Ids /\ online \subseteq Conns /\ behind \subseteq Conns
  /\ commands \in 0 .. MaxCommands
  /\ answers \in [Ids -> Nat]

TasksOK ==
  /\ task = [c \in Conns |-> task[c]]
  /\ \A c \in Conns : TaskOK(task[c], c, commands)

ShownOK ==
  /\ shown = [c \in Conns |-> shown[c]]
  /\ \A c \in Conns : shown[c] # NoEvent => shown[c].userId = UserOf[c]

-----------------------------------------------------------------------------
(***************************************************************************)
(* Names and answers.                                                      *)
(***************************************************************************)
Asked(id) == \E r \in requests : r.id = id
Invited(id) == \E i \in invites : i.id = id

\* The goroutine is to report an answer to this request.
Answers(t, id) == t.at \in RefreshStages /\ t.then = Answer(id)

Deletes(t, id) == t.at = "deleteInvite" /\ t.id = id

Used(id) ==
  \/ Asked(id) \/ Invited(id) \/ answers[id] # 0
  \/ \E c \in Conns : Answers(task[c], id) \/ Deletes(task[c], id)

\* An id names one thing, and an invite that is being deleted is one to the
\* user who deletes it.
NamesOK ==
  /\ \A r, s \in requests : r.id = s.id => r = s
  /\ \A i, j \in invites : i.id = j.id => i = j
  /\ \A id \in Ids : Used(id) => id <= commands
  /\ \A c \in Conns : task[c].at \in NewStages =>
       /\ ~Used(task[c].id)
       /\ \A d \in Conns \ {c} : task[d].at \in NewStages => task[d].id # task[c].id
  /\ \A c \in Conns : \A i \in invites : Deletes(task[c], i.id) => i.to = UserOf[c]

\* A request is in the table, or its answer is to be reported by one goroutine,
\* or it has been reported, once.
AnswersOK ==
  \A id \in Ids :
    /\ answers[id] \in {0, 1}
    /\ answers[id] = 1 => ~Asked(id) /\ \A c \in Conns : ~Answers(task[c], id)
    /\ \A c \in Conns : Answers(task[c], id) =>
         ~Asked(id) /\ \A d \in Conns : Answers(task[d], id) => d = c

-----------------------------------------------------------------------------
(***************************************************************************)
(* What the tabs are told.                                                 *)
(***************************************************************************)
now(u) == socialEventFromRecord(u, ListSocialSnapshots(u))

\* A record, or an event, of user u that holds what is in the tables now.
RecordRight(r, u) ==
  /\ r.friends = now(u).friends /\ r.incoming = now(u).incoming
  /\ r.outgoing = now(u).outgoing
  /\ {i.id : i \in r.invites} \ expired = now(u).invites

EventRight(e, u) ==
  /\ e # NoEvent
  /\ e.friends = now(u).friends /\ e.online = now(u).online
  /\ e.incoming = now(u).incoming /\ e.outgoing = now(u).outgoing
  /\ e.invites \ expired = now(u).invites

\* A goroutine of connection c will still read the records of user u: it
\* refreshes u, or c has connected or leaves and u is one of the friends that
\* come next.
WillRead(t, c, u) ==
  \/ t.at = "refresh" /\ u \in ToSet(t.users)
  \/ t.at = "leave" /\ u \in ListSocialSnapshots(UserOf[c]).friends
  \/ /\ t.at = "refresh" /\ t.then = RefreshFriends
     /\ u \in ListSocialSnapshots(UserOf[c]).friends
  \/ /\ t.at \in ReadStages /\ t.then = RefreshFriends
     /\ u \in t.records[UserOf[c]].friends

\* It will write what it has read to tab d.
WillWrite(t, d) ==
  \/ t.at = "emit" /\ UserOf[d] \in ToSet(t.users)
  \/ t.at = "write" /\ (d \in t.left \/ UserOf[d] \in ToSet(Tail(t.users)))

\* And this is the state of now.
WriteRight(t, d) ==
  LET u == UserOf[d] IN
  \/ /\ t.at = "emit" /\ t.event = NoEvent
     /\ u \in ToSet(t.users) /\ RecordRight(t.records[u], u)
  \/ t.at = "emit" /\ t.event # NoEvent /\ u = Head(t.users) /\ EventRight(t.event, u)
  \/ t.at = "write" /\ d \in t.left /\ EventRight(t.event, u)
  \/ /\ t.at \in ReadStages
     /\ u \in ToSet(Tail(t.users)) /\ RecordRight(t.records[u], u)

\* It makes up for what tab d has missed: it will read, it writes the state of
\* now, or it has been overtaken and the tab will count as behind.
MakesUp(t, c, d) ==
  \/ WillRead(t, c, UserOf[d])
  \/ WriteRight(t, d)
  \/ WillWrite(t, d) /\ d \in t.passed

Comes(d) == \E c \in Conns : MakesUp(task[c], c, d)

Told(d) ==
  /\ d \in behind \/ EventRight(shown[d], UserOf[d]) \/ Comes(d)
  /\ (\E c \in Conns : WillWrite(task[c], d)) => Comes(d)

ToldOK == \A d \in online : Told(d)

\* Everything but what the tabs show.
Steady == TablesOK /\ TasksOK /\ NamesOK /\ AnswersOK

SocialInv == Steady /\ ShownOK /\ ToldOK

-----------------------------------------------------------------------------
(***************************************************************************)
(* Lemmas about sequences, events and what is right.                       *)
(***************************************************************************)
\* The users of a refresh, one after the other.
LEMMA UsersInTurn ==
  ASSUME NEW s \in Seq(Users), s # <<>>
  PROVE  /\ Head(s) \in Users /\ Tail(s) \in Seq(Users)
         /\ ToSet(s) \subseteq Users
         /\ \A u : u \in ToSet(s) <=> (u = Head(s) \/ u \in ToSet(Tail(s)))
         /\ Len(s) > 1 <=> Tail(s) # <<>>
         /\ Tail(s) = <<>> => ToSet(Tail(s)) = {}
<1>1. Len(s) \in Nat /\ Len(s) >= 1 /\ DOMAIN s = 1 .. Len(s)
  BY EmptySeq, LenProperties
<1>2. Head(s) = s[1] /\ Tail(s) \in Seq(Users) /\ Len(Tail(s)) = Len(s) - 1
      /\ \A i \in 1 .. Len(s) - 1 : Tail(s)[i] = s[i + 1]
  BY HeadTailProperties
<1>3. DOMAIN Tail(s) = 1 .. Len(s) - 1
  BY <1>2, LenProperties
<1>4. \A i \in 1 .. Len(s) : s[i] \in Users
  BY ElementOfSeq
<1>5. Head(s) \in Users /\ ToSet(s) \subseteq Users
  BY <1>1, <1>2, <1>4 DEF ToSet
<1>6. ASSUME NEW u PROVE u \in ToSet(s) <=> (u = Head(s) \/ u \in ToSet(Tail(s)))
  <2>1. u \in ToSet(s) <=> \E i \in 1 .. Len(s) : u = s[i]
    BY <1>1 DEF ToSet
  <2>2. u \in ToSet(Tail(s)) <=> \E i \in 1 .. Len(s) - 1 : u = s[i + 1]
    BY <1>1, <1>2, <1>3 DEF ToSet
  <2>3. ASSUME NEW i \in 1 .. Len(s), u = s[i]
        PROVE  u = Head(s) \/ \E j \in 1 .. Len(s) - 1 : u = s[j + 1]
    <3>1. CASE i = 1
      BY <1>2, <2>3, <3>1
    <3>2. CASE i # 1
      <4>1. i - 1 \in 1 .. Len(s) - 1 /\ i = (i - 1) + 1
        BY <1>1, <3>2
      <4> QED BY <2>3, <4>1
    <3> QED BY <3>1, <3>2
  <2>4. \A i \in 1 .. Len(s) - 1 : i + 1 \in 1 .. Len(s)
    BY <1>1
  <2>5. 1 \in 1 .. Len(s)
    BY <1>1
  <2> QED BY <1>2, <2>1, <2>2, <2>3, <2>4, <2>5
<1>7. Len(s) > 1 <=> Tail(s) # <<>>
  BY <1>1, <1>2, EmptySeq, LenProperties
<1>8. Tail(s) = <<>> => ToSet(Tail(s)) = {}
  BY DEF ToSet
<1> QED BY <1>2, <1>5, <1>6, <1>7, <1>8

\* A set of users put into a sequence.
LEMMA UsersListed ==
  ASSUME NEW S \in SUBSET Users
  PROVE  /\ SetToSeq(S) \in Seq(Users) /\ ToSet(SetToSeq(S)) = S
         /\ S # {} => SetToSeq(S) # <<>>
<1> DEFINE n == Cardinality(S)
           t == SetToSeq(S)
<1>1. IsFiniteSet(S)
  BY ParametersAssumption, FS_Subset
<1>2. n \in Nat /\ ExistsBijection(1..n, S) /\ IsFiniteSet(1..n) /\ Cardinality(1..n) = n
  BY <1>1, FS_CardinalityType, FS_Interval
<1>3. \E f \in [1..n -> S] : IsInjective(f)
  BY <1>2 DEF ExistsBijection, Bijection, Injection
<1>4. t \in [1..n -> S] /\ IsInjective(t)
  BY <1>3 DEF SetToSeq
<1> HIDE DEF n, t
<1>5. t \in Injection(1..n, S)
  BY <1>4 DEF Injection
<1>6. t \in Surjection(1..n, S)
  BY <1>1, <1>2, <1>5, FS_Injection DEF n
<1>7. t \in Seq(Users) /\ DOMAIN t = 1..n /\ Len(t) = n
  BY <1>2, <1>4
<1>8. ToSet(t) = S
  BY <1>4, <1>6 DEF Surjection, ToSet
<1>9. t = <<>> => ToSet(t) = {}
  BY DEF ToSet
<1> QED BY <1>7, <1>8, <1>9 DEF t

\* An event is not the absence of one, and is made from its record.
LEMMA EventMade ==
  ASSUME NEW u, NEW r
  PROVE  EventOf(socialEventFromRecord(u, r), u, r)
<1>1. socialEventFromRecord(u, r) # NoEvent
  <2>1. "friends" \in DOMAIN socialEventFromRecord(u, r)
    BY DEF socialEventFromRecord
  <2>2. "friends" \notin DOMAIN NoEvent
    BY DEF NoEvent
  <2> QED BY <2>1, <2>2
<1> QED BY <1>1 DEF EventOf, socialEventFromRecord

\* What is read now is right, and an event made now from a right record is.
LEMMA ReadNow ==
  ASSUME NEW u
  PROVE  /\ RecordRight(ListSocialSnapshots(u), u)
         /\ \A r : RecordRight(r, u) => EventRight(socialEventFromRecord(u, r), u)
<1>1. now(u).invites \cap expired = {}
  BY DEF now, socialEventFromRecord, ListSocialSnapshots
<1>2. RecordRight(ListSocialSnapshots(u), u)
  BY <1>1 DEF RecordRight, now, socialEventFromRecord
<1>3. ASSUME NEW r, RecordRight(r, u) PROVE EventRight(socialEventFromRecord(u, r), u)
  <2> DEFINE e == socialEventFromRecord(u, r)
  <2>1. EventOf(e, u, r)
    BY EventMade
  <2>2. e.online = {v \in r.friends : isOnline(v)}
    BY DEF socialEventFromRecord
  <2>3. now(u).online = {v \in now(u).friends : isOnline(v)}
    BY DEF now, socialEventFromRecord
  <2> HIDE DEF e
  <2> QED BY <1>3, <2>1, <2>2, <2>3 DEF EventRight, RecordRight, EventOf, e
<1> QED BY <1>2, <1>3

\* The record of a right event is right.
LEMMA RecordOfEvent ==
  ASSUME NEW e, NEW u, NEW r, EventOf(e, u, r), EventRight(e, u)
  PROVE  RecordRight(r, u)
BY DEF EventOf, EventRight, RecordRight

\* Friends are friends of each other.
LEMMA FriendsOfEachOther ==
  ASSUME NEW u \in Users, NEW v \in Users
  PROVE  u \in ListSocialSnapshots(v).friends <=> v \in ListSocialSnapshots(u).friends
BY DEF ListSocialSnapshots, Pair

-----------------------------------------------------------------------------
(***************************************************************************)
(* What a step leaves as it is.                                            *)
(***************************************************************************)
\* Nothing has changed that user u is told, but for invites that have expired.
StillSo(u) ==
  /\ now(u)'.friends = now(u).friends /\ now(u)'.online = now(u).online
  /\ now(u)'.incoming = now(u).incoming /\ now(u)'.outgoing = now(u).outgoing
  /\ expired \subseteq expired'
  /\ now(u)'.invites = now(u).invites \ expired'

\* What was right is right.
LEMMA RightStays ==
  ASSUME NEW u, StillSo(u)
  PROVE  /\ \A r : RecordRight(r, u) => RecordRight(r, u)'
         /\ \A e : EventRight(e, u) => EventRight(e, u)'
<1>1. \A S : S \ expired = now(u).invites => S \ expired' = now(u)'.invites
  BY DEF StillSo
<1>2. ASSUME NEW r, RecordRight(r, u) PROVE RecordRight(r, u)'
  <2> DEFINE S == {i.id : i \in r.invites}
  <2>1. S \ expired' = now(u)'.invites
    BY <1>1, <1>2 DEF RecordRight
  <2> QED BY <1>2, <2>1 DEF RecordRight, StillSo
<1>3. ASSUME NEW e, EventRight(e, u) PROVE EventRight(e, u)'
  BY <1>1, <1>3 DEF EventRight, StillSo
<1> QED BY <1>2, <1>3

\* A goroutine that is where it was, but may have been passed by in more tabs, and
\* still has to write to tab d if it had to.
Follows(t, t2, d) ==
  \/ t2 = t
  \/ /\ t.at \in ReadStages /\ t2.at = t.at
     /\ t2.users = t.users /\ t2.then = t.then /\ t2.records = t.records
     /\ t2.event = t.event /\ t.passed \subseteq t2.passed
     /\ d \in t2.left <=> d \in t.left

\* Such a goroutine makes up for what it made up for.
LEMMA FollowingStays ==
  ASSUME NEW c \in Conns, NEW d \in Conns, NEW t, NEW t2, Follows(t, t2, d)
  PROVE  /\ WillWrite(t2, d) <=> WillWrite(t, d)
         /\ StillSo(UserOf[d]) /\ MakesUp(t, c, d) => MakesUp(t2, c, d)'
<1> DEFINE u == UserOf[d]
<1>1. WillWrite(t2, d) <=> WillWrite(t, d)
  BY DEF Follows, WillWrite, ReadStages
<1>2. ASSUME StillSo(u), MakesUp(t, c, d) PROVE MakesUp(t2, c, d)'
  <2>1. UserOf[c] \in Users /\ u \in Users
    BY ParametersAssumption
  <2>2. u \in ListSocialSnapshots(UserOf[c]).friends =>
          u \in ListSocialSnapshots(UserOf[c])'.friends
    <3>1. now(u).friends = ListSocialSnapshots(u).friends
          /\ now(u)'.friends = ListSocialSnapshots(u)'.friends
      BY DEF now, socialEventFromRecord
    <3>2. u \in ListSocialSnapshots(UserOf[c])'.friends
            <=> UserOf[c] \in ListSocialSnapshots(u)'.friends
      BY <2>1 DEF ListSocialSnapshots, Pair
    <3> QED BY <1>2, <2>1, <3>1, <3>2, FriendsOfEachOther DEF StillSo
  <2>3. WillRead(t, c, u) => WillRead(t2, c, u)'
    BY <2>2 DEF Follows, WillRead, ReadStages
  <2>4. WriteRight(t, d) => WriteRight(t2, d)'
    <3>1. /\ \A r : RecordRight(r, u) => RecordRight(r, u)'
          /\ \A e : EventRight(e, u) => EventRight(e, u)'
      BY <1>2, RightStays
    <3> SUFFICES ASSUME WriteRight(t, d) PROVE WriteRight(t2, d)'
      OBVIOUS
    <3>2. t2.at = t.at /\ t2.users = t.users /\ t2.event = t.event
          /\ t2.records = t.records /\ (d \in t2.left <=> d \in t.left)
      BY DEF Follows
    <3> QED BY <3>1, <3>2 DEF WriteRight
  <2>5. WillWrite(t, d) /\ d \in t.passed => WillWrite(t2, d)' /\ d \in t2.passed
    BY <1>1 DEF Follows, WillWrite, ReadStages
  <2> QED BY <1>2, <2>3, <2>4, <2>5 DEF MakesUp
<1> QED BY <1>1, <1>2

\* The goroutine that a connection has next.
LEMMA MakesUpLater ==
  ASSUME NEW c, NEW d, NEW t2, t2 = task'[c]
  PROVE  /\ MakesUp(t2, c, d)' <=> MakesUp(task[c], c, d)'
         /\ WillRead(t2, c, UserOf[d])' <=> WillRead(task[c], c, UserOf[d])'
         /\ WriteRight(t2, d)' <=> WriteRight(task[c], d)'
BY DEF MakesUp, WillRead, WriteRight, WillWrite, RecordRight, EventRight

\* A tab to which nothing has been written, and for which nothing is lost that
\* made up for something, is told.
LEMMA ToldStays ==
  ASSUME NEW d \in Conns, StillSo(UserOf[d]), Told(d), shown'[d] = shown[d],
         d \in behind => d \in behind',
         Comes(d) => Comes(d)',
         \A c \in Conns : WillWrite(task'[c], d) => \E b \in Conns : WillWrite(task[b], d)
  PROVE  Told(d)'
<1>1. EventRight(shown[d], UserOf[d]) => EventRight(shown[d], UserOf[d])'
  BY RightStays
<1>2. (\E c \in Conns : WillWrite(task[c], d))' => Comes(d)'
  BY DEF Told, WillWrite
<1>3. (d \in behind)' \/ EventRight(shown[d], UserOf[d])' \/ Comes(d)'
  BY <1>1 DEF Told, EventRight
<1> QED BY <1>2, <1>3 DEF Told

\* It is enough for this that every goroutine that was to read or write follows.
LEMMA ToldFollows ==
  ASSUME NEW d \in Conns, StillSo(UserOf[d]), Told(d), shown'[d] = shown[d],
         d \in behind => d \in behind',
         \A c \in Conns :
           \/ Follows(task[c], task'[c], d)
           \/ ~MakesUp(task[c], c, d) /\ ~WillWrite(task'[c], d)
  PROVE  Told(d)'
<1>1. ASSUME NEW c \in Conns, MakesUp(task[c], c, d)
      PROVE  MakesUp(task[c], c, d)'
  <2>1. Follows(task[c], task'[c], d)
    BY <1>1
  <2>2. \A t2 : Follows(task[c], t2, d) => MakesUp(t2, c, d)'
    BY <1>1, FollowingStays
  <2> QED BY <2>1, <2>2, MakesUpLater
<1>2. Comes(d) => Comes(d)'
  BY <1>1 DEF Comes
<1>3. ASSUME NEW c \in Conns, WillWrite(task'[c], d)
      PROVE  WillWrite(task[c], d)
  BY <1>3, FollowingStays
<1> QED BY <1>2, <1>3, ToldStays

\* A goroutine in another stage makes up for nothing.
LEMMA OtherStages ==
  ASSUME NEW t, NEW c, NEW d, t.at \notin RefreshStages
  PROVE  /\ ~WillWrite(t, d) /\ ~WriteRight(t, d)
         /\ t.at # "leave" => ~MakesUp(t, c, d)
BY DEF RefreshStages, ReadStages, WillWrite, WriteRight, MakesUp, WillRead

\* A tab for which one goroutine makes up is told.
LEMMA ToldByOne ==
  ASSUME NEW d, NEW c \in Conns, NEW t2, t2 = task'[c], MakesUp(t2, c, d)'
  PROVE  Told(d)'
<1>1. MakesUp(task[c], c, d)'
  BY MakesUpLater
<1> QED BY <1>1 DEF Told, Comes

\* One that has yet to read makes up for everything.
LEMMA ToldByRead ==
  ASSUME NEW d, NEW c \in Conns, WillRead(task[c], c, UserOf[d])'
  PROVE  Told(d)'
<1>1. Comes(d)'
  BY DEF Comes, MakesUp
<1> QED BY <1>1 DEF Told

\* The stage that a refresh begins with.
LEMMA RefreshBegins ==
  ASSUME NEW s \in Seq(Users), NEW then \in Thens, NEW c \in Conns, NEW n,
         then = RefreshFriends => s = <<UserOf[c]>>
  PROVE  LET t == refreshSocialUsers(s, then) IN
         /\ TaskOK(t, c, n)
         /\ s = <<>> => t = Idle
         /\ s # <<>> => t.at = "refresh" /\ t.users = s /\ t.then = then
<1>1. CASE s = <<>>
  BY <1>1 DEF refreshSocialUsers, TaskOK, Idle, Stages, NewStages, RefreshStages, ReadStages
<1>2. CASE s # <<>>
  <2>1. refreshSocialUsers(s, then) = [at |-> "refresh", users |-> s, then |-> then]
    BY <1>2 DEF refreshSocialUsers
  <2> QED BY <1>2, <2>1 DEF TaskOK, Stages, NewStages, RefreshStages, ReadStages
<1> QED BY <1>1, <1>2

-----------------------------------------------------------------------------
(***************************************************************************)
(* Names and answers under the steps.                                      *)
(***************************************************************************)
\* No name comes into use, and no command gets one.
LEMMA NamesStay ==
  ASSUME NamesOK, commands' = commands,
         requests' \subseteq requests, invites' \subseteq invites,
         \A id \in Ids : Used(id)' => Used(id),
         \A c \in Conns : task'[c].at \in NewStages =>
           task[c].at \in NewStages /\ task'[c].id = task[c].id /\ task[c].id \in Ids,
         \A c \in Conns : \A i \in invites' :
           Deletes(task'[c], i.id) => Deletes(task[c], i.id) \/ i.to = UserOf[c]
  PROVE  NamesOK'
<1>1. /\ \A r, s \in requests' : r.id = s.id => r = s
      /\ \A i, j \in invites' : i.id = j.id => i = j
  BY DEF NamesOK
<1>2. \A id \in Ids : Used(id)' => id <= commands'
  BY DEF NamesOK
<1>3. ASSUME NEW c \in Conns, task'[c].at \in NewStages
      PROVE  /\ ~Used(task[c].id)'
             /\ \A d \in Conns \ {c} :
                  task'[d].at \in NewStages => task'[d].id # task'[c].id
  <2>1. /\ task[c].at \in NewStages /\ task'[c].id = task[c].id /\ task[c].id \in Ids
        /\ ~Used(task[c].id)
    BY <1>3 DEF NamesOK
  <2>2. ASSUME NEW x \in Ids, x = task'[c].id, ~Used(x)
        PROVE  ~Used(task[c].id)'
    BY <2>2 DEF Used
  <2> QED BY <2>1, <2>2 DEF NamesOK
<1>4. \A c \in Conns : \A i \in invites' : Deletes(task'[c], i.id) => i.to = UserOf[c]
  BY DEF NamesOK
<1> QED BY <1>1, <1>2, <1>3, <1>4 DEF NamesOK, Deletes

\* Goroutine c goes on with t: the others stay where they are.
OnlyGoes(c, t) == task' = [task EXCEPT ![c] = t]

\* A goroutine that goes on keeps the shape of all.
LEMMA TasksKept ==
  ASSUME TasksOK, NEW c \in Conns, NEW t, OnlyGoes(c, t),
         commands \in Nat, commands' \in Nat, commands <= commands',
         TaskOK(t, c, commands')
  PROVE  /\ TasksOK' /\ task'[c] = t
         /\ \A d \in Conns \ {c} : task'[d] = task[d]
<1>1. task = [d \in Conns |-> task[d]]
  BY DEF TasksOK
<1>2. task' = [d \in Conns |-> IF d = c THEN t ELSE task[d]]
  BY <1>1 DEF OnlyGoes
<1>3. task' = [d \in Conns |-> task'[d]] /\ task'[c] = t
      /\ \A d \in Conns \ {c} : task'[d] = task[d]
  BY <1>2
<1>4. ASSUME NEW d \in Conns PROVE TaskOK(task'[d], d, commands')
  <2>1. TaskOK(task[d], d, commands)
    BY DEF TasksOK
  <2>2. task[d].id \in 1 .. commands => task[d].id \in 1 .. commands'
    BY SMT
  <2>3. TaskOK(task[d], d, commands')
    BY <2>1, <2>2 DEF TaskOK
  <2> QED BY <1>3, <2>3
<1> QED BY <1>3, <1>4 DEF TasksOK, TaskOK

\* No answer is reported, and no request is asked or answered.
LEMMA AnswersStay ==
  ASSUME AnswersOK, answers' = answers, requests' \subseteq requests,
         \A c \in Conns : \A id \in Ids : Answers(task'[c], id) => Answers(task[c], id)
  PROVE  AnswersOK'
<1>1. \A id \in Ids : Asked(id)' => Asked(id)
  BY DEF Asked
<1> QED BY <1>1 DEF AnswersOK, Answers

\* What is in use when goroutine c has gone on from t to t2.
LEMMA UsedStays ==
  ASSUME NEW id, requests' \subseteq requests, invites' \subseteq invites,
         answers'[id] # 0 => answers[id] # 0 \/ \E c \in Conns : Answers(task[c], id),
         \A c \in Conns : /\ Answers(task'[c], id) => Answers(task[c], id) \/ Asked(id)
                          /\ Deletes(task'[c], id) => Deletes(task[c], id) \/ Invited(id)
  PROVE  Used(id)' => Used(id)
BY DEF Used, Asked, Invited, Answers, Deletes

\* A stage that begins nothing new, after any other.
LEMMA SteadyStep ==
  ASSUME Steady, NEW c \in Conns, NEW t, OnlyGoes(c, t), TablesOK', TaskOK(t, c, commands),
         commands' = commands, answers' = answers,
         requests' \subseteq requests, invites' \subseteq invites,
         t.at \in NewStages => task[c].at \in NewStages /\ t.id = task[c].id,
         \A id : Answers(t, id) => Answers(task[c], id),
         \A id : Deletes(t, id) => Deletes(task[c], id)
  PROVE  Steady' /\ task'[c] = t /\ \A d \in Conns \ {c} : task'[d] = task[d]
<1>1. commands \in Nat
  BY DEF Steady, TablesOK
<1>2. /\ TasksOK' /\ task'[c] = t
      /\ \A d \in Conns \ {c} : task'[d] = task[d]
  BY <1>1, TasksKept DEF Steady
<1>3. ASSUME NEW d \in Conns, NEW id
      PROVE  /\ Answers(task'[d], id) => Answers(task[d], id)
             /\ Deletes(task'[d], id) => Deletes(task[d], id)
  BY <1>2, <1>3
<1>4. AnswersOK'
  BY <1>3, AnswersStay DEF Steady
<1>5. \A id \in Ids : Used(id)' => Used(id)
  BY <1>3, UsedStays
<1>6. ASSUME NEW d \in Conns, task'[d].at \in NewStages
      PROVE  task[d].at \in NewStages /\ task'[d].id = task[d].id /\ task[d].id \in Ids
  <2>1. task[d].at \in NewStages /\ task'[d].id = task[d].id
    BY <1>2, <1>6
  <2>2. task[d].id \in 1 .. commands /\ commands \in 0 .. MaxCommands
    BY <2>1 DEF Steady, TasksOK, TaskOK, TablesOK
  <2>3. MaxCommands \in Nat
    BY ParametersAssumption
  <2> QED BY <2>1, <2>2, <2>3 DEF Ids
<1>7. NamesOK'
  BY <1>3, <1>5, <1>6, NamesStay DEF Steady
<1> QED BY <1>2, <1>4, <1>7 DEF Steady

\* Goroutine c goes on with t, which has written to tabs, and reports if it is to.
LEMMA PassingSteady ==
  ASSUME Steady, NEW c \in Conns, NEW t, NEW tabs \in SUBSET Conns,
         task' = PassedBy(c, tabs, t),
         TablesOK', TaskOK(t, c, commands),
         UNCHANGED <<requests, invites, commands>>,
         t.at \notin NewStages, \A id : ~Deletes(t, id),
         \A id : Answers(t, id) => Answers(task[c], id),
         \/ answers' = answers
         \/ /\ Reported(task[c].then) /\ task[c].at \in RefreshStages
            /\ \A id : ~Answers(t, id)
  PROVE  /\ Steady' /\ task'[c] = t
         /\ \A d \in Conns \ {c} :
              /\ \A x : Follows(task[d], task'[d], x)
              /\ task[d].at \in ReadStages => task'[d].passed = task[d].passed \cup tabs
<1>1. /\ task' = [d \in Conns |-> task'[d]] /\ task'[c] = t
      /\ \A d \in Conns \ {c} :
           task'[d] = IF task[d].at \in ReadStages
                      THEN [task[d] EXCEPT !.passed = @ \cup tabs]
                      ELSE task[d]
  BY DEF PassedBy, ReadStages
<1>2. ASSUME NEW d \in Conns \ {c}
      PROVE  /\ \A x : Follows(task[d], task'[d], x)
             /\ task[d].at \in ReadStages => task'[d].passed = task[d].passed \cup tabs
             /\ TaskOK(task'[d], d, commands)
             /\ task'[d].at = task[d].at
             /\ task[d].at \notin ReadStages => task'[d] = task[d]
             /\ task[d].at \in ReadStages => task'[d].then = task[d].then
  <2>1. TaskOK(task[d], d, commands)
    BY DEF Steady, TasksOK
  <2>2. CASE task[d].at \notin ReadStages
    BY <1>1, <2>1, <2>2 DEF Follows
  <2>3. CASE task[d].at \in ReadStages
    <3>1. /\ task'[d].at = task[d].at /\ task'[d].users = task[d].users
          /\ task'[d].then = task[d].then /\ task'[d].records = task[d].records
          /\ task'[d].event = task[d].event /\ task'[d].left = task[d].left
          /\ task'[d].passed = task[d].passed \cup tabs
          /\ task'[d] = [at |-> task'[d].at, users |-> task'[d].users,
                         then |-> task'[d].then, records |-> task'[d].records,
                         event |-> task'[d].event, left |-> task'[d].left,
                         passed |-> task'[d].passed]
      BY <1>1, <2>1, <2>3 DEF TaskOK
    <3>2. TaskOK(task'[d], d, commands)
      BY <2>1, <2>3, <3>1 DEF TaskOK, ReadStages, NewStages
    <3>3. \A x : Follows(task[d], task'[d], x)
      BY <2>3, <3>1 DEF Follows
    <3> QED BY <2>3, <3>1, <3>2, <3>3
  <2> QED BY <2>2, <2>3
<1>3. TasksOK'
  <2>1. \A d \in Conns : TaskOK(task'[d], d, commands')
    BY <1>1, <1>2
  <2> QED BY <1>1, <2>1 DEF TasksOK, TaskOK
<1>4. ASSUME NEW d \in Conns, NEW id
      PROVE  /\ Answers(task'[d], id) => Answers(task[d], id)
             /\ Deletes(task'[d], id) => Deletes(task[d], id)
  <2>1. CASE d = c
    BY <1>1, <2>1
  <2>2. CASE d # c
    BY <1>2, <2>2 DEF Answers, Deletes, ReadStages, RefreshStages
  <2> QED BY <2>1, <2>2
<1>5. ASSUME answers' # answers
      PROVE  \E id \in Ids :
               /\ Answers(task[c], id) /\ \A d \in Conns : Answers(task'[d], id) => d # c
               /\ answers' = [answers EXCEPT ![id] = @ + 1]
  <2>1. task[c].then \in Thens
    BY <1>5 DEF Steady, TasksOK, TaskOK
  <2>2. PICK id \in Ids : task[c].then = Answer(id)
    BY <1>5, <2>1 DEF Reported, Thens, Success, RefreshFriends, Nothing
  <2>3. answers' = [answers EXCEPT ![id] = @ + 1]
    BY <1>5, <2>2 DEF Reported, Answer
  <2>4. Answers(task[c], id)
    BY <1>5, <2>2 DEF Answers
  <2> QED BY <1>1, <1>5, <2>3, <2>4
<1>6. \A id \in Ids : answers'[id] # 0 => answers[id] # 0 \/ \E d \in Conns : Answers(task[d], id)
  BY <1>5 DEF Steady, TablesOK
<1>7. \A id \in Ids : Used(id)' => Used(id)
  BY <1>4, <1>6, UsedStays
<1>8. ASSUME NEW d \in Conns, task'[d].at \in NewStages
      PROVE  task[d].at \in NewStages /\ task'[d].id = task[d].id /\ task[d].id \in Ids
  <2>1. d # c /\ task[d].at \in NewStages /\ task'[d] = task[d]
    BY <1>1, <1>2, <1>8 DEF NewStages, ReadStages
  <2>2. task[d].id \in 1 .. commands /\ commands \in 0 .. MaxCommands
    BY <2>1 DEF Steady, TasksOK, TaskOK, TablesOK
  <2>3. MaxCommands \in Nat
    BY ParametersAssumption
  <2> QED BY <2>1, <2>2, <2>3 DEF Ids
<1>9. NamesOK'
  BY <1>4, <1>7, <1>8, NamesStay DEF Steady
<1>10. AnswersOK'
  <2>1. CASE answers' = answers
    BY <1>4, <2>1, AnswersStay DEF Steady
  <2>2. CASE answers' # answers
    <3>1. PICK x \in Ids :
            /\ Answers(task[c], x) /\ \A d \in Conns : Answers(task'[d], x) => d # c
            /\ answers' = [answers EXCEPT ![x] = @ + 1]
      BY <1>5, <2>2
    <3>2. /\ answers[x] = 0 /\ ~Asked(x) /\ \A d \in Conns : Answers(task[d], x) => d = c
      BY <3>1 DEF Steady, AnswersOK
    <3>3. \A d \in Conns : ~Answers(task'[d], x)
      BY <1>4, <3>1, <3>2
    <3>4. answers'[x] = 1 /\ \A id \in Ids \ {x} : answers'[id] = answers[id]
      BY <3>1, <3>2 DEF Steady, TablesOK
    <3>5. \A id : Asked(id)' <=> Asked(id)
      BY DEF Asked
    <3>6. ASSUME NEW id \in Ids
          PROVE  /\ answers'[id] \in {0, 1}
                 /\ answers'[id] = 1 => ~Asked(id)' /\ \A d \in Conns : ~Answers(task'[d], id)
                 /\ \A d \in Conns : Answers(task'[d], id) =>
                      ~Asked(id)' /\ \A e \in Conns : Answers(task'[e], id) => e = d
      <4>1. CASE id = x
        BY <3>2, <3>3, <3>4, <3>5, <4>1
      <4>2. CASE id # x
        BY <1>4, <3>4, <3>5, <4>2 DEF Steady, AnswersOK
      <4> QED BY <4>1, <4>2
    <3> QED BY <3>6 DEF AnswersOK, Answers
  <2> QED BY <2>1, <2>2
<1> QED BY <1>1, <1>2, <1>3, <1>9, <1>10 DEF Steady

\* A command is sent, and gets a name of its own.
LEMMA SendSteady ==
  ASSUME Steady, NEW c \in Conns, NEW t, Send(c, t),
         t.at \in {"request", "invite", "remove", "respond", "answerInvite"},
         t.at \in {"request", "invite"} =>
           t = [at |-> t.at, to |-> t.to, id |-> commands + 1] /\ t.to \in Users,
         t.at = "remove" => t.to \in Users
  PROVE  Steady' /\ task'[c] = t /\ \A d \in Conns \ {c} : task'[d] = task[d]
<1>1. /\ OnlyGoes(c, t) /\ commands < MaxCommands /\ commands' = commands + 1
      /\ UNCHANGED <<tables, online, shown, answers, behind>>
      /\ commands \in Nat /\ MaxCommands \in Nat
  BY ParametersAssumption DEF Send, Goes, OnlyGoes, Steady, TablesOK
<1>2. TablesOK'
  BY <1>1 DEF TablesOK, tables, Steady
<1>3. TaskOK(t, c, commands')
  BY <1>1 DEF TaskOK, Stages, NewStages, RefreshStages, ReadStages
<1>4. /\ TasksOK' /\ task'[c] = t /\ \A d \in Conns \ {c} : task'[d] = task[d]
  BY <1>1, <1>3, TasksKept DEF Steady
<1>5. \A id : ~Answers(t, id) /\ ~Deletes(t, id)
  BY DEF Answers, Deletes, RefreshStages
<1>6. ASSUME NEW d \in Conns, NEW id
      PROVE  /\ Answers(task'[d], id) => Answers(task[d], id)
             /\ Deletes(task'[d], id) => Deletes(task[d], id)
  BY <1>4, <1>5, <1>6
<1>7. AnswersOK'
  BY <1>1, <1>6, AnswersStay DEF Steady, tables
<1>8. \A id \in Ids : Used(id)' => Used(id) /\ id < commands + 1
  <2>1. requests' = requests /\ invites' = invites
    BY <1>1 DEF tables
  <2>2. \A id \in Ids : Used(id)' => Used(id)
    BY <1>1, <1>6, <2>1, UsedStays
  <2>3. \A id \in Ids : Used(id) => id <= commands
    BY DEF Steady, NamesOK
  <2> QED BY <1>1, <2>2, <2>3 DEF Ids
<1>9. ASSUME NEW d \in Conns, task'[d].at \in NewStages
      PROVE  /\ task'[d].id \in Ids
             /\ \A x : x = task'[d].id => ~Used(x)'
             /\ \A e \in Conns \ {d} :
                  task'[e].at \in NewStages => task'[e].id # task'[d].id
  <2>1. \A e \in Conns \ {c} : task'[e].at \in NewStages =>
          task'[e] = task[e] /\ task[e].id \in 1 .. commands
    BY <1>4 DEF Steady, TasksOK, TaskOK
  <2>2. task'[c].at \in NewStages => task'[c].id = commands + 1
    BY <1>4 DEF NewStages
  <2>3. task'[d].id \in Ids
    BY <1>1, <1>9, <2>1, <2>2 DEF Ids
  <2>4. ASSUME NEW x, x = task'[d].id PROVE ~Used(x)'
    <3>1. CASE d = c
      BY <1>1, <1>8, <1>9, <2>2, <2>3, <2>4, <3>1
    <3>2. CASE d # c
      <4>1. task[d].at \in NewStages /\ task[d].id = x /\ x \in Ids
        BY <1>9, <2>1, <2>3, <2>4, <3>2
      <4>2. ~Used(task[d].id)
        BY <4>1 DEF Steady, NamesOK
      <4> QED BY <1>8, <4>1, <4>2
    <3> QED BY <3>1, <3>2
  <2>5. ASSUME NEW e \in Conns \ {d}, task'[e].at \in NewStages
        PROVE  task'[e].id # task'[d].id
    BY <1>1, <1>9, <2>1, <2>2, <2>5 DEF Steady, NamesOK
  <2> QED BY <2>3, <2>4, <2>5
<1>10. \A d \in Conns : task'[d].at \in NewStages => ~Used(task[d].id)'
  BY <1>9 DEF Used
<1>11. /\ \A r, s \in requests' : r.id = s.id => r = s
       /\ \A i, j \in invites' : i.id = j.id => i = j
       /\ \A d \in Conns : \A i \in invites' : Deletes(task'[d], i.id) => i.to = UserOf[d]
  BY <1>1, <1>6 DEF Steady, NamesOK, tables
<1>12. \A id \in Ids : Used(id)' => id <= commands'
  BY <1>1, <1>8 DEF Ids
<1>13. NamesOK'
  BY <1>9, <1>10, <1>11, <1>12 DEF NamesOK, Deletes
<1> QED BY <1>2, <1>4, <1>7, <1>13 DEF Steady

\* A request or an invite gets the name of the command that brought it.
LEMMA NewName ==
  ASSUME Steady, NEW c \in Conns, NEW t, task[c].at \in NewStages,
         OnlyGoes(c, t), TaskOK(t, c, commands), TablesOK',
         UNCHANGED <<commands, answers>>,
         t.at \notin NewStages, \A id : ~Answers(t, id) /\ ~Deletes(t, id),
         \A r \in requests' : r \in requests \/ (r.id = task[c].id /\ invites' \subseteq invites),
         \A i \in invites' : i \in invites \/ (i.id = task[c].id /\ requests' = requests),
         \A r, s \in requests' : r.id = task[c].id /\ s.id = task[c].id => r = s,
         \A i, j \in invites' : i.id = task[c].id /\ j.id = task[c].id => i = j
  PROVE  Steady' /\ task'[c] = t /\ \A d \in Conns \ {c} : task'[d] = task[d]
<1> DEFINE id0 == task[c].id
<1>1. /\ commands \in Nat /\ MaxCommands \in Nat /\ commands <= MaxCommands
      /\ id0 \in 1 .. commands /\ id0 \in Ids /\ ~Used(id0)
      /\ \A d \in Conns \ {c} : task[d].at \in NewStages => task[d].id # id0
  BY ParametersAssumption DEF Steady, TablesOK, TasksOK, TaskOK, NamesOK, Ids
<1>2. /\ TasksOK' /\ task'[c] = t /\ \A d \in Conns \ {c} : task'[d] = task[d]
  BY <1>1, TasksKept DEF Steady
<1> HIDE DEF id0
<1>3. ASSUME NEW d \in Conns, NEW id
      PROVE  /\ Answers(task'[d], id) => Answers(task[d], id)
             /\ Deletes(task'[d], id) => Deletes(task[d], id)
  BY <1>2, <1>3
<1>4. /\ \A r \in requests' : r \in requests \/ r.id = id0
      /\ \A i \in invites' : i \in invites \/ i.id = id0
      /\ \A r \in requests : r.id # id0
      /\ \A i \in invites : i.id # id0
      /\ answers[id0] = 0
      /\ \A d \in Conns : ~Answers(task[d], id0) /\ ~Deletes(task[d], id0)
  BY <1>1 DEF Used, Asked, Invited, id0
<1>5. \A id \in Ids : Used(id)' => Used(id) \/ id = id0
  BY <1>3, <1>4 DEF Used, Asked, Invited, Answers, Deletes
<1>6. NamesOK'
  <2>1. /\ \A r, s \in requests' : r.id = s.id => r = s
        /\ \A i, j \in invites' : i.id = j.id => i = j
    BY <1>4 DEF Steady, NamesOK, id0
  <2>2. \A id \in Ids : Used(id)' => id <= commands'
    BY <1>1, <1>5 DEF Steady, NamesOK
  <2>3. ASSUME NEW d \in Conns, task'[d].at \in NewStages
        PROVE  /\ d # c /\ task'[d] = task[d] /\ task[d].id \in Ids /\ task[d].id # id0
               /\ ~Used(task[d].id)
    <3>1. d # c /\ task'[d] = task[d]
      BY <1>2, <2>3
    <3> QED BY <1>1, <2>3, <3>1 DEF Steady, TasksOK, TaskOK, NamesOK, Ids
  <2>4. ASSUME NEW d \in Conns, task'[d].at \in NewStages
        PROVE  ~Used(task[d].id)'
    <3>1. ASSUME NEW x, x = task[d].id PROVE ~Used(x)'
      BY <1>5, <2>3, <2>4, <3>1
    <3>2. task'[d].id = task[d].id
      BY <2>3, <2>4
    <3> QED BY <3>1, <3>2 DEF Used
  <2>5. \A d \in Conns : task'[d].at \in NewStages =>
          \A e \in Conns \ {d} : task'[e].at \in NewStages => task'[e].id # task'[d].id
    BY <2>3 DEF Steady, NamesOK
  <2>6. \A d \in Conns : \A i \in invites' : Deletes(task'[d], i.id) => i.to = UserOf[d]
    BY <1>3, <1>4 DEF Steady, NamesOK
  <2> QED BY <2>1, <2>2, <2>4, <2>5, <2>6 DEF NamesOK, Deletes
<1>7. AnswersOK'
  <2>1. ASSUME NEW id \in Ids
        PROVE  /\ answers'[id] \in {0, 1}
               /\ answers'[id] = 1 => ~Asked(id)' /\ \A d \in Conns : ~Answers(task'[d], id)
               /\ \A d \in Conns : Answers(task'[d], id) =>
                    ~Asked(id)' /\ \A e \in Conns : Answers(task'[e], id) => e = d
    <3>1. CASE id = id0
      BY <1>3, <1>4, <3>1
    <3>2. CASE id # id0
      <4>1. Asked(id)' => Asked(id)
        BY <1>4, <3>2 DEF Asked
      <4> QED BY <1>3, <4>1 DEF Steady, AnswersOK
    <3> QED BY <3>1, <3>2
  <2> QED BY <2>1 DEF AnswersOK, Answers
<1> QED BY <1>2, <1>6, <1>7 DEF Steady

\* The answer to a request begins to be announced.
LEMMA RespondSteady ==
  ASSUME Steady, NEW c \in Conns, NEW r \in requests,
         requests' = requests \ {r}, TablesOK', UNCHANGED <<invites, answers, commands>>,
         OnlyGoes(c, refreshSocialUsers(<<UserOf[c], r.from>>, Answer(r.id)))
  PROVE  /\ Steady'
         /\ \A d \in Conns \ {c} : task'[d] = task[d]
         /\ task'[c].at = "refresh" /\ task'[c].users = <<UserOf[c], r.from>>
<1> DEFINE t == refreshSocialUsers(<<UserOf[c], r.from>>, Answer(r.id))
           x == r.id
           s == <<UserOf[c], r.from>>
<1>1. UserOf[c] \in Users /\ r.from \in Users /\ x \in Ids /\ commands \in Nat
  BY ParametersAssumption DEF Steady, TablesOK, Requests
<1>2. s \in Seq(Users) /\ s # <<>> /\ Answer(x) \in Thens /\ Answer(x) # RefreshFriends
  BY <1>1 DEF Thens, Answer, RefreshFriends
<1>3. TaskOK(t, c, commands) /\ t.at = "refresh" /\ t.users = s /\ t.then = Answer(x)
  BY <1>1, <1>2, RefreshBegins
<1> HIDE DEF t, s
<1>4. /\ TasksOK' /\ task'[c] = t /\ \A d \in Conns \ {c} : task'[d] = task[d]
  BY <1>1, <1>3, TasksKept DEF Steady, t, s
<1>5. \A id : /\ Answers(t, id) <=> id = x
              /\ ~Deletes(t, id)
  BY <1>3 DEF Answers, Deletes, Answer, RefreshStages
<1>6. ASSUME NEW d \in Conns, NEW id
      PROVE  /\ Answers(task'[d], id) => Answers(task[d], id) \/ (id = x /\ d = c)
             /\ Deletes(task'[d], id) => Deletes(task[d], id)
  BY <1>4, <1>5, <1>6
<1>7. Asked(x) /\ ~Asked(x)' /\ \A id : Asked(id)' => Asked(id)
  BY DEF Asked, Steady, NamesOK
<1>8. \A id \in Ids : Used(id)' => Used(id)
  BY <1>6, <1>7, UsedStays
<1>9. ASSUME NEW d \in Conns, task'[d].at \in NewStages
      PROVE  task[d].at \in NewStages /\ task'[d].id = task[d].id /\ task[d].id \in Ids
  <2>1. task[d].at \in NewStages /\ task'[d] = task[d]
    BY <1>3, <1>4, <1>9 DEF NewStages
  <2>2. task[d].id \in 1 .. commands /\ commands \in 0 .. MaxCommands
    BY <2>1 DEF Steady, TasksOK, TaskOK, TablesOK
  <2>3. MaxCommands \in Nat
    BY ParametersAssumption
  <2> QED BY <2>1, <2>2, <2>3 DEF Ids
<1>10. NamesOK'
  BY <1>6, <1>8, <1>9, NamesStay DEF Steady
<1>11. AnswersOK'
  <2>1. ASSUME NEW id \in Ids
        PROVE  /\ answers'[id] \in {0, 1}
               /\ answers'[id] = 1 => ~Asked(id)' /\ \A d \in Conns : ~Answers(task'[d], id)
               /\ \A d \in Conns : Answers(task'[d], id) =>
                    ~Asked(id)' /\ \A e \in Conns : Answers(task'[e], id) => e = d
    <3>1. CASE id = x
      <4>1. answers[x] = 0 /\ \A d \in Conns : ~Answers(task[d], x)
        BY <1>1, <1>7 DEF Steady, AnswersOK
      <4> QED BY <1>6, <1>7, <3>1, <4>1
    <3>2. CASE id # x
      BY <1>6, <1>7, <3>2 DEF Steady, AnswersOK
    <3> QED BY <3>1, <3>2
  <2> QED BY <2>1 DEF AnswersOK, Answers
<1> QED BY <1>3, <1>4, <1>10, <1>11 DEF Steady, s

\* An invite to the user of c is looked up, which c may delete later.
LEMMA GetSteady ==
  ASSUME Steady, NEW c \in Conns, GetGameInvite(c)
  PROVE  /\ Steady' /\ \A d \in Conns \ {c} : task'[d] = task[d]
         /\ task'[c].at \in {"idle", "deleteInvite"}
<1>1. CASE Refused(c)
  <2>1. /\ OnlyGoes(c, Idle) /\ UNCHANGED <<tables, online, answers, behind, bounds>>
        /\ UNCHANGED <<requests, invites, commands>>
    BY <1>1 DEF Refused, Goes, OnlyGoes, tables, bounds
  <2>2. TablesOK' /\ commands \in Nat
    BY <2>1 DEF TablesOK, tables, bounds, Steady
  <2>3. TaskOK(Idle, c, commands) /\ Idle.at = "idle"
    BY DEF TaskOK, Idle, Stages, NewStages, RefreshStages, ReadStages
  <2>4. \A id : ~Answers(Idle, id) /\ ~Deletes(Idle, id)
    BY <2>3 DEF Answers, Deletes, RefreshStages
  <2> QED BY <2>1, <2>2, <2>3, <2>4, SteadyStep DEF NewStages
<1>2. ASSUME NEW i \in invites, i.id = task[c].id, i.to = UserOf[c],
             Goes(c, [at |-> "deleteInvite", id |-> i.id, from |-> i.from,
                      accept |-> task[c].accept]),
             UNCHANGED <<tables, online, shown, answers, behind, bounds>>
      PROVE  /\ Steady' /\ \A d \in Conns \ {c} : task'[d] = task[d]
             /\ task'[c].at \in {"idle", "deleteInvite"}
  <2> DEFINE t == [at |-> "deleteInvite", id |-> i.id, from |-> i.from,
                   accept |-> task[c].accept]
  <2>1. OnlyGoes(c, t) /\ UNCHANGED <<requests, invites, commands, answers>>
    BY <1>2 DEF Goes, OnlyGoes, tables, bounds
  <2>2. TablesOK' /\ commands \in Nat /\ i.from \in Users
    BY <1>2 DEF TablesOK, tables, bounds, Steady, Requests
  <2>3. /\ TaskOK(t, c, commands) /\ t.at = "deleteInvite"
        /\ \A id : ~Answers(t, id) /\ (Deletes(t, id) <=> id = i.id)
    BY <2>2 DEF TaskOK, Stages, NewStages, RefreshStages, ReadStages, Answers, Deletes
  <2> HIDE DEF t
  <2>4. /\ TasksOK' /\ task'[c] = t /\ \A d \in Conns \ {c} : task'[d] = task[d]
    BY <2>1, <2>2, <2>3, TasksKept DEF Steady
  <2>5. ASSUME NEW d \in Conns, NEW id
        PROVE  /\ Answers(task'[d], id) => Answers(task[d], id)
               /\ Deletes(task'[d], id) => Deletes(task[d], id) \/ (id = i.id /\ d = c)
    BY <2>3, <2>4, <2>5
  <2>6. \A id \in Ids : Used(id)' => Used(id)
    BY <2>1, <2>5, UsedStays DEF Invited
  <2>7. ASSUME NEW d \in Conns, task'[d].at \in NewStages
        PROVE  task[d].at \in NewStages /\ task'[d].id = task[d].id /\ task[d].id \in Ids
    <3>1. task[d].at \in NewStages /\ task'[d] = task[d]
      BY <2>3, <2>4, <2>7 DEF NewStages
    <3>2. task[d].id \in 1 .. commands /\ commands \in 0 .. MaxCommands
      BY <3>1 DEF Steady, TasksOK, TaskOK, TablesOK
    <3>3. MaxCommands \in Nat
      BY ParametersAssumption
    <3> QED BY <3>1, <3>2, <3>3 DEF Ids
  <2>8. \A d \in Conns : \A j \in invites' :
          Deletes(task'[d], j.id) => Deletes(task[d], j.id) \/ j.to = UserOf[d]
    BY <1>2, <2>1, <2>5 DEF Steady, NamesOK
  <2>9. NamesOK'
    BY <2>1, <2>6, <2>7, <2>8, NamesStay DEF Steady
  <2>10. AnswersOK'
    BY <2>1, <2>5, AnswersStay DEF Steady
  <2> QED BY <2>2, <2>3, <2>4, <2>9, <2>10 DEF Steady
<1> QED BY <1>1, <1>2 DEF GetGameInvite

-----------------------------------------------------------------------------
(***************************************************************************)
(* Commands.                                                               *)
(***************************************************************************)
\* Nothing that a user is told has changed.
LEMMA NothingChanged ==
  ASSUME UNCHANGED <<tables, online>>, NEW u
  PROVE  StillSo(u)
<1>1. UNCHANGED <<friendships, requests, invites, expired, online>>
  BY DEF tables
<1>2. now(u)' = now(u)
  BY <1>1 DEF now, socialEventFromRecord, ListSocialSnapshots, isOnline
<1>3. now(u).invites \cap expired = {}
  BY DEF now, socialEventFromRecord, ListSocialSnapshots
<1> QED BY <1>1, <1>2, <1>3 DEF StillSo

\* A step of a command before anything has changed, or when it is refused.
LEMMA QuietStep ==
  ASSUME SocialInv, NEW c \in Conns, Steady',
         \A d \in Conns \ {c} : task'[d] = task[d],
         task[c].at \notin RefreshStages \cup {"leave"},
         task'[c].at \notin RefreshStages,
         UNCHANGED <<tables, online, shown, behind>>
  PROVE  SocialInv'
<1>1. ASSUME NEW d \in Conns, d \in online' PROVE Told(d)'
  <2>1. StillSo(UserOf[d]) /\ Told(d)
    BY <1>1, NothingChanged DEF SocialInv, ToldOK
  <2>2. ~MakesUp(task[c], c, d) /\ ~WillWrite(task'[c], d)
    BY OtherStages
  <2>3. \A b \in Conns \ {c} : Follows(task[b], task'[b], d)
    BY DEF Follows
  <2> QED BY <2>1, <2>2, <2>3, ToldFollows
<1>2. online' \subseteq Conns
  BY DEF SocialInv, Steady, TablesOK
<1>3. ToldOK'
  BY <1>1, <1>2 DEF ToldOK
<1> QED BY <1>3 DEF SocialInv, ShownOK

\* A change of the tables, after which the users it concerns are refreshed.
LEMMA ChangeStep ==
  ASSUME SocialInv, NEW c \in Conns, Steady',
         \A d \in Conns \ {c} : task'[d] = task[d],
         task[c].at \notin RefreshStages \cup {"leave"},
         task'[c].at = "refresh", UNCHANGED <<online, shown, behind>>,
         \A u \in Users : u \in ToSet(task'[c].users) \/ StillSo(u)
  PROVE  SocialInv'
<1>1. ASSUME NEW d \in Conns, d \in online' PROVE Told(d)'
  <2> DEFINE u == UserOf[d]
  <2>1. Told(d) /\ u \in Users
    BY <1>1, ParametersAssumption DEF SocialInv, ToldOK
  <2>2. CASE u \in ToSet(task'[c].users)
    <3>1. WillRead(task[c], c, UserOf[d])'
      BY <2>2 DEF WillRead
    <3> QED BY <3>1, ToldByRead
  <2>3. CASE StillSo(u)
    <3>1. ~MakesUp(task[c], c, d) /\ ~WillWrite(task'[c], d)
      BY OtherStages DEF WillWrite
    <3>2. \A b \in Conns \ {c} : Follows(task[b], task'[b], d)
      BY DEF Follows
    <3> QED BY <2>1, <2>3, <3>1, <3>2, ToldFollows
  <2> QED BY <2>1, <2>2, <2>3
<1>2. online' \subseteq Conns
  BY DEF SocialInv, Steady, TablesOK
<1>3. ToldOK'
  BY <1>1, <1>2 DEF ToldOK
<1> QED BY <1>3 DEF SocialInv, ShownOK

\* A command is sent by a tab.
LEMMA TabStep ==
  ASSUME SocialInv, NEW c \in Conns, Tab(c)
  PROVE  SocialInv'
<1>1. PICK t : /\ Send(c, t)
               /\ t.at \in {"request", "invite", "remove", "respond", "answerInvite"}
               /\ t.at \in {"request", "invite"} =>
                    t = [at |-> t.at, to |-> t.to, id |-> commands + 1] /\ t.to \in Users
               /\ t.at = "remove" => t.to \in Users
  <2>1. ASSUME NEW v \in Users, addFriend(c, v) \/ invite(c, v)
        PROVE  \E at \in {"request", "invite"} :
                 Send(c, [at |-> at, to |-> v, id |-> commands + 1])
    BY <2>1 DEF addFriend, invite
  <2>2. ASSUME NEW v \in Users, unfriend(c, v)
        PROVE  Send(c, [at |-> "remove", to |-> v])
    BY <2>2 DEF unfriend
  <2>3. ASSUME NEW accept \in BOOLEAN,
               \/ \E r \in shown[c].incoming : respondFriendRequest(c, r, accept)
               \/ \E id \in shown[c].invites : respondGameInvite(c, id, accept)
        PROVE  \E at \in {"respond", "answerInvite"} : \E id :
                 Send(c, [at |-> at, id |-> id, accept |-> accept])
    BY <2>3 DEF respondFriendRequest, respondGameInvite
  <2>4. CASE \E v \in Users : addFriend(c, v) \/ invite(c, v)
    <3>1. PICK v \in Users, at \in {"request", "invite"} :
            Send(c, [at |-> at, to |-> v, id |-> commands + 1])
      BY <2>1, <2>4
    <3> WITNESS [at |-> at, to |-> v, id |-> commands + 1]
    <3> QED BY <3>1
  <2>5. CASE \E v \in Users : unfriend(c, v)
    <3>1. PICK v \in Users : Send(c, [at |-> "remove", to |-> v])
      BY <2>2, <2>5
    <3> WITNESS [at |-> "remove", to |-> v]
    <3> QED BY <3>1
  <2>6. CASE ~(\E v \in Users : addFriend(c, v) \/ invite(c, v))
             /\ ~(\E v \in Users : unfriend(c, v))
    <3>1. PICK accept \in BOOLEAN :
            \/ \E r \in shown[c].incoming : respondFriendRequest(c, r, accept)
            \/ \E id \in shown[c].invites : respondGameInvite(c, id, accept)
      BY <2>6 DEF Tab
    <3>2. PICK at \in {"respond", "answerInvite"} :
            \E id : Send(c, [at |-> at, id |-> id, accept |-> accept])
      BY <2>3, <3>1
    <3>3. PICK id : Send(c, [at |-> at, id |-> id, accept |-> accept])
      BY <3>2
    <3> WITNESS [at |-> at, id |-> id, accept |-> accept]
    <3> QED BY <3>3
  <2> QED BY <2>4, <2>5, <2>6
<1>2. Steady' /\ task'[c] = t /\ \A d \in Conns \ {c} : task'[d] = task[d]
  BY <1>1, SendSteady DEF SocialInv
<1>3. UNCHANGED <<tables, online, shown, behind>> /\ task[c].at = "idle"
  BY <1>1 DEF Send, Starts, Idle
<1> QED BY <1>1, <1>2, <1>3, QuietStep DEF RefreshStages

\* A command that is refused.
LEMMA RefusedStep ==
  ASSUME SocialInv, NEW c \in Conns, Refused(c),
         task[c].at \notin RefreshStages \cup {"leave"}
  PROVE  SocialInv'
<1>1. /\ OnlyGoes(c, Idle) /\ UNCHANGED <<tables, online, shown, answers, behind, bounds>>
      /\ UNCHANGED <<requests, invites, commands>>
  BY DEF Refused, Goes, OnlyGoes, tables, bounds
<1>2. TablesOK'
  BY <1>1 DEF TablesOK, tables, bounds, SocialInv, Steady
<1>3. TaskOK(Idle, c, commands) /\ Idle.at = "idle"
  BY DEF TaskOK, Idle, Stages, NewStages, RefreshStages, ReadStages
<1>4. \A id : ~Answers(Idle, id) /\ ~Deletes(Idle, id)
  BY <1>3 DEF Answers, Deletes, RefreshStages
<1>5. Steady' /\ task'[c] = Idle /\ \A d \in Conns \ {c} : task'[d] = task[d]
  BY <1>1, <1>2, <1>3, <1>4, SteadyStep DEF NewStages, SocialInv
<1> QED BY <1>1, <1>3, <1>5, QuietStep DEF RefreshStages

\* The friendship is not there yet, or the friend is present: the command goes on.
LEMMA AdmittedStep ==
  ASSUME SocialInv, NEW c \in Conns, SendFriendRequest(c) \/ handleSendGameInvite(c)
  PROVE  SocialInv'
<1>1. task[c].at \in {"request", "invite"}
  BY DEF SendFriendRequest, handleSendGameInvite
<1>2. CASE Refused(c)
  BY <1>1, <1>2, RefusedStep DEF RefreshStages
<1>3. CASE ~Refused(c)
  <2>1. PICK next \in {"insert", "insertInvite"} :
          /\ Goes(c, [task[c] EXCEPT !.at = next])
          /\ UNCHANGED <<tables, online, shown, answers, behind, bounds>>
    BY <1>3 DEF SendFriendRequest, handleSendGameInvite
  <2> DEFINE t == [task[c] EXCEPT !.at = next]
  <2>2. TaskOK(task[c], c, commands)
    BY DEF SocialInv, Steady, TasksOK
  <2>3. t = [at |-> next, to |-> task[c].to, id |-> task[c].id]
        /\ task[c].to \in Users /\ task[c].id \in 1 .. commands
    BY <1>1, <2>2 DEF TaskOK, NewStages
  <2>4. TaskOK(t, c, commands) /\ t.at = next /\ t.id = task[c].id
    BY <2>3 DEF TaskOK, Stages, NewStages, RefreshStages, ReadStages
  <2> HIDE DEF t
  <2>5. OnlyGoes(c, t) /\ UNCHANGED <<requests, invites, commands, answers>>
    BY <2>1 DEF Goes, OnlyGoes, tables, bounds, t
  <2>6. TablesOK'
    BY <2>1 DEF TablesOK, tables, bounds, SocialInv, Steady
  <2>7. \A id : ~Answers(t, id) /\ ~Deletes(t, id)
    BY <2>4 DEF Answers, Deletes, RefreshStages
  <2>8. Steady' /\ task'[c] = t /\ \A d \in Conns \ {c} : task'[d] = task[d]
    BY <1>1, <2>4, <2>5, <2>6, <2>7, SteadyStep DEF NewStages, SocialInv
  <2> QED BY <1>1, <2>1, <2>4, <2>8, QuietStep DEF RefreshStages
<1> QED BY <1>2, <1>3

\* What a refresh of these users begins with.
LEMMA TwoRefreshed ==
  ASSUME NEW s \in Seq(Users), s # <<>>, NEW c \in Conns, NEW n
  PROVE  LET t == refreshSocialUsers(s, Success) IN
         /\ TaskOK(t, c, n) /\ t.at = "refresh" /\ t.users = s
         /\ \A id : ~Answers(t, id) /\ ~Deletes(t, id)
<1>1. Success \in Thens /\ Success # RefreshFriends /\ \A id : Success # Answer(id)
  BY DEF Thens, Success, RefreshFriends, Answer
<1>2. LET t == refreshSocialUsers(s, Success) IN
      TaskOK(t, c, n) /\ t.at = "refresh" /\ t.users = s /\ t.then = Success
  BY <1>1, RefreshBegins
<1> QED BY <1>1, <1>2 DEF Answers, Deletes

\* A request that is new is announced to both.
LEMMA InsertStep ==
  ASSUME SocialInv, NEW c \in Conns, InsertFriendRequest(c)
  PROVE  SocialInv'
<1> DEFINE u == UserOf[c]
           v == task[c].to
           s == <<u, v>>
           t == refreshSocialUsers(s, Success)
           new == [id |-> task[c].id, from |-> u, to |-> v]
<1>1. /\ task[c].at = "insert" /\ u \in Users /\ v \in Users
      /\ task[c].id \in 1 .. commands /\ task[c].id \in Ids
  BY ParametersAssumption
     DEF InsertFriendRequest, SocialInv, Steady, TasksOK, TaskOK, TablesOK, NewStages, Ids
<1>2. CASE Refused(c)
  BY <1>1, <1>2, RefusedStep DEF RefreshStages
<1>3. CASE ~Refused(c)
  <2>1. /\ \A r \in requests : Pair(r.from, r.to) # Pair(u, v)
        /\ requests' = requests \cup {new} /\ OnlyGoes(c, t)
        /\ UNCHANGED <<friendships, invites, expired, online, shown, answers,
                       behind, commands>>
    BY <1>3 DEF InsertFriendRequest, Goes, OnlyGoes, bounds
  <2>2. s \in Seq(Users) /\ s # <<>> /\ ToSet(s) = {u, v}
    BY <1>1 DEF ToSet
  <2>3. /\ TaskOK(t, c, commands) /\ t.at = "refresh" /\ t.users = s
        /\ \A id : ~Answers(t, id) /\ ~Deletes(t, id)
    BY <2>2, TwoRefreshed
  <2> HIDE DEF t, s
  <2>4. new \in Requests
    BY <1>1 DEF Requests
  <2>5. TablesOK'
    <3>1. \A r, q \in requests' : Pair(r.from, r.to) = Pair(q.from, q.to) => r = q
      BY <2>1 DEF SocialInv, Steady, TablesOK
    <3> QED BY <2>1, <2>4, <3>1 DEF SocialInv, Steady, TablesOK
  <2>6. ~Used(task[c].id)
    BY <1>1 DEF SocialInv, Steady, NamesOK, NewStages
  <2>7. \A r \in requests : r.id # task[c].id
    BY <2>6 DEF Used, Asked
  <2>8. /\ \A r, q \in requests' : r.id = task[c].id /\ q.id = task[c].id => r = q
        /\ \A i, j \in invites' : i.id = task[c].id /\ j.id = task[c].id => i = j
    BY <2>1, <2>7 DEF SocialInv, Steady, NamesOK
  <2>9. Steady' /\ task'[c] = t /\ \A d \in Conns \ {c} : task'[d] = task[d]
    BY <1>1, <2>1, <2>3, <2>5, <2>8, NewName DEF NewStages, SocialInv
  <2>10. ASSUME NEW w \in Users, w # u, w # v PROVE StillSo(w)
    <3>1. now(w)' = now(w)
      <4>1. {r \in requests' : r.to = w} = {r \in requests : r.to = w}
        BY <2>1, <2>10
      <4>2. {r \in requests' : r.from = w} = {r \in requests : r.from = w}
        BY <2>1, <2>10
      <4> QED BY <2>1, <4>1, <4>2 DEF now, socialEventFromRecord, ListSocialSnapshots, isOnline
    <3>2. now(w).invites \cap expired = {}
      BY DEF now, socialEventFromRecord, ListSocialSnapshots
    <3> QED BY <2>1, <3>1, <3>2 DEF StillSo
  <2> QED BY <1>1, <2>1, <2>2, <2>3, <2>9, <2>10, ChangeStep DEF RefreshStages
<1> QED BY <1>2, <1>3

\* An answer to a request is announced to both.
LEMMA RespondStep ==
  ASSUME SocialInv, NEW c \in Conns, RespondFriendRequest(c)
  PROVE  SocialInv'
<1>1. task[c].at = "respond"
  BY DEF RespondFriendRequest
<1>2. CASE Refused(c)
  BY <1>1, <1>2, RefusedStep DEF RefreshStages
<1>3. ASSUME NEW r \in requests, r.to = UserOf[c], requests' = requests \ {r},
             friendships' = IF task[c].accept
                            THEN friendships \cup {Pair(r.from, r.to)} ELSE friendships,
             Goes(c, refreshSocialUsers(<<UserOf[c], r.from>>, Answer(r.id))),
             UNCHANGED <<invites, expired, online, shown, answers, behind, bounds>>
      PROVE  SocialInv'
  <2> DEFINE u == UserOf[c]
             s == <<u, r.from>>
  <2>1. u \in Users /\ r.from \in Users /\ r.to = u /\ UNCHANGED commands
    BY <1>3, ParametersAssumption DEF SocialInv, Steady, TablesOK, Requests, bounds
  <2>2. TablesOK'
    <3>1. friendships' \subseteq {Pair(v, w) : v, w \in Users}
      BY <1>3, <2>1 DEF SocialInv, Steady, TablesOK
    <3> QED BY <1>3, <2>1, <3>1 DEF SocialInv, Steady, TablesOK
  <2>3. /\ Steady' /\ \A d \in Conns \ {c} : task'[d] = task[d]
        /\ task'[c].at = "refresh" /\ task'[c].users = s
    BY <1>3, <2>1, <2>2, RespondSteady DEF SocialInv, Goes, OnlyGoes
  <2>4. ToSet(s) = {u, r.from}
    BY DEF ToSet
  <2>5. ASSUME NEW w \in Users, w # u, w # r.from PROVE StillSo(w)
    <3>1. now(w)' = now(w)
      <4>1. {q \in requests' : q.to = w} = {q \in requests : q.to = w}
        BY <1>3, <2>5
      <4>2. {q \in requests' : q.from = w} = {q \in requests : q.from = w}
        BY <1>3, <2>5
      <4>3. ASSUME NEW x PROVE Pair(w, x) \in friendships' <=> Pair(w, x) \in friendships
        BY <1>3, <2>1, <2>5 DEF Pair
      <4>4. {x \in Users \ {w} : Pair(w, x) \in friendships'}
              = {x \in Users \ {w} : Pair(w, x) \in friendships}
        BY <4>3
      <4> QED BY <1>3, <4>1, <4>2, <4>4
              DEF now, socialEventFromRecord, ListSocialSnapshots, isOnline
    <3>2. now(w).invites \cap expired = {}
      BY DEF now, socialEventFromRecord, ListSocialSnapshots
    <3> QED BY <1>3, <3>1, <3>2 DEF StillSo
  <2> HIDE DEF s
  <2> QED BY <1>1, <1>3, <2>3, <2>4, <2>5, ChangeStep DEF RefreshStages
<1> QED BY <1>2, <1>3 DEF RespondFriendRequest

\* That a friend is removed is announced to both.
LEMMA RemoveStep ==
  ASSUME SocialInv, NEW c \in Conns, RemoveFriend(c)
  PROVE  SocialInv'
<1> DEFINE u == UserOf[c]
           v == task[c].to
           s == <<u, v>>
           t == refreshSocialUsers(s, Success)
<1>1. task[c].at = "remove" /\ u \in Users /\ v \in Users
  BY ParametersAssumption DEF RemoveFriend, SocialInv, Steady, TasksOK, TaskOK
<1>2. CASE Refused(c)
  BY <1>1, <1>2, RefusedStep DEF RefreshStages
<1>3. CASE ~Refused(c)
  <2>1. /\ friendships' = friendships \ {Pair(u, v)} /\ OnlyGoes(c, t)
        /\ UNCHANGED <<requests, invites, expired, online, shown, answers,
                       behind, commands>>
    BY <1>3 DEF RemoveFriend, Goes, OnlyGoes, bounds
  <2>2. s \in Seq(Users) /\ s # <<>> /\ ToSet(s) = {u, v}
    BY <1>1 DEF ToSet
  <2>3. /\ TaskOK(t, c, commands) /\ t.at = "refresh" /\ t.users = s
        /\ \A id : ~Answers(t, id) /\ ~Deletes(t, id)
    BY <2>2, TwoRefreshed
  <2> HIDE DEF t, s
  <2>4. TablesOK'
    BY <2>1 DEF SocialInv, Steady, TablesOK
  <2>5. Steady' /\ task'[c] = t /\ \A d \in Conns \ {c} : task'[d] = task[d]
    BY <2>1, <2>3, <2>4, SteadyStep DEF NewStages, SocialInv
  <2>6. ASSUME NEW w \in Users, w # u, w # v PROVE StillSo(w)
    <3>1. now(w)' = now(w)
      <4>1. ASSUME NEW x PROVE Pair(w, x) \in friendships' <=> Pair(w, x) \in friendships
        BY <2>1, <2>6 DEF Pair
      <4>2. {x \in Users \ {w} : Pair(w, x) \in friendships'}
              = {x \in Users \ {w} : Pair(w, x) \in friendships}
        BY <4>1
      <4> QED BY <2>1, <4>2 DEF now, socialEventFromRecord, ListSocialSnapshots, isOnline
    <3>2. now(w).invites \cap expired = {}
      BY DEF now, socialEventFromRecord, ListSocialSnapshots
    <3> QED BY <2>1, <3>1, <3>2 DEF StillSo
  <2> QED BY <1>1, <2>1, <2>2, <2>3, <2>5, <2>6, ChangeStep DEF RefreshStages
<1> QED BY <1>2, <1>3

\* An invite is announced to the friend it is for; those that have expired are
\* not shown to anybody.
LEMMA SendInviteStep ==
  ASSUME SocialInv, NEW c \in Conns, SendGameInvite(c)
  PROVE  SocialInv'
<1> DEFINE u == UserOf[c]
           v == task[c].to
           s == <<v>>
           t == refreshSocialUsers(s, Success)
           new == [id |-> task[c].id, from |-> u, to |-> v]
<1>1. /\ task[c].at = "insertInvite" /\ u \in Users /\ v \in Users
      /\ task[c].id \in 1 .. commands /\ task[c].id \in Ids
  BY ParametersAssumption
     DEF SendGameInvite, SocialInv, Steady, TasksOK, TaskOK, TablesOK, NewStages, Ids
<1>2. CASE Refused(c)
  BY <1>1, <1>2, RefusedStep DEF RefreshStages
<1>3. CASE ~Refused(c)
  <2>1. /\ invites' = {i \in invites : /\ i.id \notin expired
                                       /\ ~(i.from = u /\ i.to = v)} \cup {new}
        /\ OnlyGoes(c, t)
        /\ UNCHANGED <<friendships, requests, expired, online, shown, answers,
                       behind, commands>>
    BY <1>3 DEF SendGameInvite, Goes, OnlyGoes, bounds
  <2>2. s \in Seq(Users) /\ s # <<>> /\ ToSet(s) = {v}
    BY <1>1 DEF ToSet
  <2>3. /\ TaskOK(t, c, commands) /\ t.at = "refresh" /\ t.users = s
        /\ \A id : ~Answers(t, id) /\ ~Deletes(t, id)
    BY <2>2, TwoRefreshed
  <2> HIDE DEF t, s
  <2>4. new \in Requests
    BY <1>1 DEF Requests
  <2>5. TablesOK'
    BY <2>1, <2>4 DEF SocialInv, Steady, TablesOK
  <2>6. ~Used(task[c].id)
    BY <1>1 DEF SocialInv, Steady, NamesOK, NewStages
  <2>7. \A i \in invites : i.id # task[c].id
    BY <2>6 DEF Used, Invited
  <2>8. \A r \in requests : r.id # task[c].id
    BY <2>6 DEF Used, Asked
  <2>9. /\ \A r, q \in requests' : r.id = task[c].id /\ q.id = task[c].id => r = q
        /\ \A i, j \in invites' : i.id = task[c].id /\ j.id = task[c].id => i = j
    BY <2>1, <2>7, <2>8
  <2>10. Steady' /\ task'[c] = t /\ \A d \in Conns \ {c} : task'[d] = task[d]
    BY <1>1, <2>1, <2>3, <2>5, <2>9, NewName DEF NewStages, SocialInv
  <2>11. ASSUME NEW w \in Users, w # v PROVE StillSo(w)
    <3>1. now(w)' = now(w)
      <4>1. {i \in invites' : i.to = w /\ i.id \notin expired}
              = {i \in invites : i.to = w /\ i.id \notin expired}
        BY <2>1, <2>11
      <4> QED BY <2>1, <4>1 DEF now, socialEventFromRecord, ListSocialSnapshots, isOnline
    <3>2. now(w).invites \cap expired = {}
      BY DEF now, socialEventFromRecord, ListSocialSnapshots
    <3> QED BY <2>1, <3>1, <3>2 DEF StillSo
  <2> QED BY <1>1, <2>1, <2>2, <2>3, <2>10, <2>11, ChangeStep DEF RefreshStages
<1> QED BY <1>2, <1>3

\* An invite is looked up.
LEMMA GetStep ==
  ASSUME SocialInv, NEW c \in Conns, GetGameInvite(c)
  PROVE  SocialInv'
<1>1. /\ Steady' /\ \A d \in Conns \ {c} : task'[d] = task[d]
      /\ task'[c].at \in {"idle", "deleteInvite"}
  BY GetSteady DEF SocialInv
<1>2. task[c].at = "answerInvite" /\ UNCHANGED <<tables, online, shown, behind>>
  BY DEF GetGameInvite, Refused
<1> QED BY <1>1, <1>2, QuietStep DEF RefreshStages

\* The invite that is deleted is one to the user who deletes it.
LEMMA DeleteInviteStep ==
  ASSUME SocialInv, NEW c \in Conns, DeleteGameInvite(c)
  PROVE  SocialInv'
<1> DEFINE u == UserOf[c]
           v == task[c].from
           s == <<u, v>>
           t == refreshSocialUsers(s, Success)
<1>1. task[c].at = "deleteInvite" /\ u \in Users /\ v \in Users
  BY ParametersAssumption DEF DeleteGameInvite, SocialInv, Steady, TasksOK, TaskOK
<1>2. CASE Refused(c)
  BY <1>1, <1>2, RefusedStep DEF RefreshStages
<1>3. CASE ~Refused(c)
  <2>1. /\ invites' = {i \in invites : i.id # task[c].id} /\ OnlyGoes(c, t)
        /\ UNCHANGED <<friendships, requests, expired, online, shown, answers,
                       behind, commands>>
    BY <1>3 DEF DeleteGameInvite, Goes, OnlyGoes, bounds
  <2>2. s \in Seq(Users) /\ s # <<>> /\ ToSet(s) = {u, v}
    BY <1>1 DEF ToSet
  <2>3. /\ TaskOK(t, c, commands) /\ t.at = "refresh" /\ t.users = s
        /\ \A id : ~Answers(t, id) /\ ~Deletes(t, id)
    BY <2>2, TwoRefreshed
  <2> HIDE DEF t, s
  <2>4. TablesOK'
    BY <2>1 DEF SocialInv, Steady, TablesOK
  <2>5. Steady' /\ task'[c] = t /\ \A d \in Conns \ {c} : task'[d] = task[d]
    BY <2>1, <2>3, <2>4, SteadyStep DEF NewStages, SocialInv
  <2>6. \A i \in invites : i.id = task[c].id => i.to = u
    BY <1>1 DEF SocialInv, Steady, NamesOK, Deletes
  <2>7. ASSUME NEW w \in Users, w # u PROVE StillSo(w)
    <3>1. now(w)' = now(w)
      <4>1. {i \in invites' : i.to = w /\ i.id \notin expired}
              = {i \in invites : i.to = w /\ i.id \notin expired}
        BY <2>1, <2>6, <2>7
      <4> QED BY <2>1, <4>1 DEF now, socialEventFromRecord, ListSocialSnapshots, isOnline
    <3>2. now(w).invites \cap expired = {}
      BY DEF now, socialEventFromRecord, ListSocialSnapshots
    <3> QED BY <2>1, <3>1, <3>2 DEF StillSo
  <2> QED BY <1>1, <2>1, <2>2, <2>3, <2>5, <2>7, ChangeStep DEF RefreshStages
<1> QED BY <1>2, <1>3

\* An invite expires, on the server and in the tabs.
LEMMA ExpiresStep ==
  ASSUME SocialInv, NEW i \in invites, InviteExpires(i)
  PROVE  SocialInv'
<1>1. /\ expired' = expired \cup {i.id}
      /\ UNCHANGED <<friendships, requests, invites, online, task, shown, answers,
                     behind, commands>>
  BY DEF InviteExpires
<1>2. i.id \in Ids
  BY DEF SocialInv, Steady, TablesOK, Requests
<1>3. TablesOK' /\ TasksOK' /\ AnswersOK' /\ ShownOK'
  BY <1>1, <1>2 DEF SocialInv, Steady, TablesOK, TasksOK, TaskOK, AnswersOK, Asked, ShownOK
<1>4. NamesOK'
  BY <1>1 DEF SocialInv, Steady, NamesOK, Used, Asked, Invited
<1>5. ASSUME NEW u PROVE StillSo(u)
  <2>1. now(u)'.invites = now(u).invites \ expired'
    <3>1. now(u).invites = {j.id : j \in {k \in invites : k.to = u /\ k.id \notin expired}}
      BY DEF now, socialEventFromRecord, ListSocialSnapshots
    <3>2. now(u)'.invites = {j.id : j \in {k \in invites : k.to = u /\ k.id \notin expired'}}
      BY <1>1 DEF now, socialEventFromRecord, ListSocialSnapshots
    <3>3. \A x : x \in now(u)'.invites <=> (x \in now(u).invites /\ x \notin expired')
      BY <1>1, <3>1, <3>2
    <3> QED BY <3>1, <3>2, <3>3
  <2>2. /\ now(u)'.friends = now(u).friends /\ now(u)'.online = now(u).online
        /\ now(u)'.incoming = now(u).incoming /\ now(u)'.outgoing = now(u).outgoing
    BY <1>1 DEF now, socialEventFromRecord, ListSocialSnapshots, isOnline
  <2> QED BY <1>1, <2>1, <2>2 DEF StillSo
<1>6. ASSUME NEW d \in Conns, d \in online' PROVE Told(d)'
  <2>1. Told(d)
    BY <1>1, <1>6 DEF SocialInv, ToldOK
  <2> QED BY <1>1, <1>5, <2>1, ToldFollows DEF Follows
<1>7. ToldOK'
  BY <1>1, <1>6 DEF ToldOK, SocialInv, Steady, TablesOK
<1> QED BY <1>3, <1>4, <1>7 DEF SocialInv, Steady

-----------------------------------------------------------------------------
(***************************************************************************)
(* Connections.                                                            *)
(***************************************************************************)
\* The presence of a user concerns the friends.
LEMMA PresenceConcerns ==
  ASSUME NEW v, UNCHANGED tables,
         \A w : w # v => (isOnline(w)' <=> isOnline(w)),
         NEW u, v \notin ListSocialSnapshots(u).friends
  PROVE  StillSo(u)
<1>1. UNCHANGED <<friendships, requests, invites, expired>>
  BY DEF tables
<1>2. now(u).invites \cap expired = {}
  BY DEF now, socialEventFromRecord, ListSocialSnapshots
<1>3. ListSocialSnapshots(u)' = ListSocialSnapshots(u)
  BY <1>1 DEF ListSocialSnapshots
<1>4. {w \in ListSocialSnapshots(u).friends : isOnline(w)'}
        = {w \in ListSocialSnapshots(u).friends : isOnline(w)}
  OBVIOUS
<1>5. /\ now(u)'.friends = now(u).friends /\ now(u)'.online = now(u).online
      /\ now(u)'.incoming = now(u).incoming /\ now(u)'.outgoing = now(u).outgoing
      /\ now(u)'.invites = now(u).invites
  BY <1>3, <1>4 DEF now, socialEventFromRecord
<1> QED BY <1>1, <1>2, <1>5 DEF StillSo

\* A connection comes: its user is refreshed, and then the friends.
LEMMA ConnectedStep ==
  ASSUME SocialInv, NEW c \in Conns, socialConnected(c)
  PROVE  SocialInv'
<1> DEFINE v == UserOf[c]
           s == <<v>>
           t == refreshSocialUsers(s, RefreshFriends)
<1>1. /\ task[c] = Idle /\ online' = online \cup {c} /\ OnlyGoes(c, t)
      /\ UNCHANGED <<tables, answers, behind, bounds>>
      /\ \E before \in {shown[c], NoEvent} : shown' = [shown EXCEPT ![c] = before]
  BY DEF socialConnected, Starts, Goes, OnlyGoes
<1>2. UNCHANGED <<friendships, requests, invites, expired, answers, behind, commands>>
  BY <1>1 DEF tables, bounds
<1>3. v \in Users /\ s \in Seq(Users) /\ s # <<>> /\ ToSet(s) = {v}
  BY ParametersAssumption DEF ToSet
<1>4. RefreshFriends \in Thens /\ \A id : RefreshFriends # Answer(id)
  BY DEF Thens, RefreshFriends, Answer
<1>5. TaskOK(t, c, commands) /\ t.at = "refresh" /\ t.users = s /\ t.then = RefreshFriends
  BY <1>3, <1>4, RefreshBegins
<1> HIDE DEF t, s
<1>6. TablesOK'
  BY <1>1, <1>2 DEF SocialInv, Steady, TablesOK
<1>7. Steady' /\ task'[c] = t /\ \A d \in Conns \ {c} : task'[d] = task[d]
  BY <1>1, <1>2, <1>4, <1>5, <1>6, SteadyStep DEF NewStages, SocialInv, Answers, Deletes
<1>8. ShownOK' /\ \A d \in Conns \ {c} : shown'[d] = shown[d]
  BY <1>1 DEF SocialInv, ShownOK
<1>9. ASSUME NEW d \in Conns, d \in online' PROVE Told(d)'
  <2> DEFINE u == UserOf[d]
  <2>1. u \in Users /\ UNCHANGED friendships
    BY <1>2, ParametersAssumption
  <2>2. CASE u = v \/ u \in ListSocialSnapshots(v).friends
    <3>1. ListSocialSnapshots(v)'.friends = ListSocialSnapshots(v).friends
      BY <2>1 DEF ListSocialSnapshots
    <3>2. WillRead(task[c], c, UserOf[d])'
      BY <1>3, <1>5, <1>7, <2>2, <3>1 DEF WillRead
    <3> QED BY <3>2, ToldByRead
  <2>3. CASE u # v /\ u \notin ListSocialSnapshots(v).friends
    <3>1. d # c /\ Told(d) /\ shown'[d] = shown[d]
      BY <1>1, <1>8, <1>9, <2>3 DEF SocialInv, ToldOK
    <3>2. \A w : w # v => (isOnline(w)' <=> isOnline(w))
      BY <1>1 DEF isOnline
    <3>3. StillSo(u)
      BY <1>1, <1>3, <2>1, <2>3, <3>2, FriendsOfEachOther, PresenceConcerns
    <3>4. ~MakesUp(task[c], c, d)
      BY <1>1, OtherStages DEF Idle, RefreshStages
    <3>5. ~WillWrite(task'[c], d)
      BY <1>5, <1>7 DEF WillWrite
    <3>6. \A b \in Conns \ {c} : Follows(task[b], task'[b], d)
      BY <1>7 DEF Follows
    <3> QED BY <1>2, <3>1, <3>3, <3>4, <3>5, <3>6, ToldFollows
  <2> QED BY <2>2, <2>3
<1>10. ToldOK'
  BY <1>6, <1>9 DEF ToldOK, TablesOK
<1> QED BY <1>7, <1>8, <1>10 DEF SocialInv

\* A connection goes: what was still to be written to it is lost, and the friends
\* are to be told if it was the last one of its user.
LEMMA DisconnectedStep ==
  ASSUME SocialInv, NEW c \in Conns, socialDisconnected(c)
  PROVE  SocialInv'
<1> DEFINE v == UserOf[c]
           last == remove(c).wentOffline
<1>1. /\ task[c] = Idle /\ online' = online \ {c}
      /\ UNCHANGED <<tables, shown, answers, behind, commands>>
      /\ task' = [d \in Conns |->
           IF d = c THEN (IF last THEN [at |-> "leave"] ELSE Idle)
           ELSE IF task[d].at = "write" THEN [task[d] EXCEPT !.left = @ \ {c}]
           ELSE task[d]]
  BY DEF socialDisconnected, Starts, remove
<1>2. UNCHANGED <<friendships, requests, invites, expired>>
  BY <1>1 DEF tables
<1>3. last <=> \A d \in online \ {c} : UserOf[d] # v
  BY DEF remove
<1> HIDE DEF last
<1>4. task' = [d \in Conns |-> task'[d]]
      /\ task'[c] = IF last THEN [at |-> "leave"] ELSE Idle
  BY <1>1
<1>5. ASSUME NEW d \in Conns \ {c}
      PROVE  /\ TaskOK(task'[d], d, commands)
             /\ \A x \in Conns \ {c} : Follows(task[d], task'[d], x)
             /\ task'[d].at = task[d].at
             /\ task[d].at # "write" => task'[d] = task[d]
             /\ task[d].at = "write" => task'[d].then = task[d].then
  <2>1. TaskOK(task[d], d, commands)
    BY DEF SocialInv, Steady, TasksOK
  <2>2. CASE task[d].at # "write"
    BY <1>1, <2>1, <2>2 DEF Follows
  <2>3. CASE task[d].at = "write"
    <3> DEFINE t == task[d]
               t2 == task'[d]
    <3>1. t = [at |-> t.at, users |-> t.users, then |-> t.then, records |-> t.records,
               event |-> t.event, left |-> t.left, passed |-> t.passed]
      BY <2>1, <2>3 DEF TaskOK, ReadStages
    <3>2. t2 = [t EXCEPT !.left = @ \ {c}]
      BY <1>1, <2>3
    <3>3. /\ t2.at = t.at /\ t2.users = t.users /\ t2.then = t.then
          /\ t2.records = t.records /\ t2.event = t.event
          /\ t2.left = t.left \ {c} /\ t2.passed = t.passed
          /\ t2 = [at |-> t2.at, users |-> t2.users, then |-> t2.then,
                   records |-> t2.records, event |-> t2.event, left |-> t2.left,
                   passed |-> t2.passed]
      BY <3>1, <3>2
    <3> HIDE DEF t2
    <3>4. TaskOK(t2, d, commands)
      BY <2>1, <2>3, <3>3 DEF TaskOK, ReadStages, NewStages
    <3>5. \A x \in Conns \ {c} : Follows(t, t2, x)
      BY <2>3, <3>3 DEF Follows, ReadStages
    <3> QED BY <2>3, <3>3, <3>4, <3>5 DEF t2
  <2> QED BY <2>2, <2>3
<1>6. TaskOK(task'[c], c, commands) /\ task'[c].at \in {"idle", "leave"}
  BY <1>4 DEF TaskOK, Idle, Stages, NewStages, RefreshStages, ReadStages
<1>7. TasksOK'
  <2>1. \A d \in Conns : TaskOK(task'[d], d, commands')
    BY <1>1, <1>5, <1>6
  <2> QED BY <1>4, <2>1 DEF TasksOK, TaskOK
<1>8. ASSUME NEW d \in Conns, NEW id
      PROVE  /\ Answers(task'[d], id) => Answers(task[d], id)
             /\ Deletes(task'[d], id) => Deletes(task[d], id)
  <2>1. CASE d = c
    BY <1>6, <2>1 DEF Answers, Deletes, RefreshStages
  <2>2. CASE d # c
    BY <1>5, <2>2 DEF Answers, Deletes
  <2> QED BY <2>1, <2>2
<1>9. ASSUME NEW d \in Conns, task'[d].at \in NewStages
      PROVE  task[d].at \in NewStages /\ task'[d].id = task[d].id /\ task[d].id \in Ids
  <2>1. d # c /\ task[d].at \in NewStages /\ task'[d] = task[d]
    BY <1>5, <1>6, <1>9 DEF NewStages
  <2>2. task[d].id \in 1 .. commands /\ commands \in 0 .. MaxCommands
    BY <2>1 DEF SocialInv, Steady, TasksOK, TaskOK, TablesOK
  <2>3. MaxCommands \in Nat
    BY ParametersAssumption
  <2> QED BY <2>1, <2>2, <2>3 DEF Ids
<1>10. \A id \in Ids : Used(id)' => Used(id)
  BY <1>1, <1>2, <1>8, UsedStays
<1>11. NamesOK'
  BY <1>1, <1>2, <1>8, <1>9, <1>10, NamesStay DEF SocialInv, Steady
<1>12. AnswersOK'
  BY <1>1, <1>2, <1>8, AnswersStay DEF SocialInv, Steady
<1>13. TablesOK' /\ ShownOK'
  BY <1>1, <1>2 DEF SocialInv, Steady, TablesOK, ShownOK
<1>14. ASSUME NEW d \in Conns, d \in online' PROVE Told(d)'
  <2> DEFINE u == UserOf[d]
  <2>1. u \in Users /\ v \in Users /\ d # c /\ Told(d)
    BY <1>1, <1>14, ParametersAssumption DEF SocialInv, ToldOK
  <2>2. CASE last /\ u \in ListSocialSnapshots(v).friends
    <3>1. ListSocialSnapshots(v)'.friends = ListSocialSnapshots(v).friends
      BY <1>2 DEF ListSocialSnapshots
    <3>2. WillRead(task[c], c, UserOf[d])'
      BY <1>4, <2>2, <3>1 DEF WillRead
    <3> QED BY <3>2, ToldByRead
  <2>3. CASE ~(last /\ u \in ListSocialSnapshots(v).friends)
    <3>1. \A w : w # v \/ ~last => (isOnline(w)' <=> isOnline(w))
      BY <1>1, <1>3 DEF isOnline
    <3>2. StillSo(u)
      <4>1. CASE v \notin ListSocialSnapshots(u).friends
        BY <1>1, <3>1, <4>1, PresenceConcerns
      <4>2. CASE ~last
        <5>1. now(u)' = now(u)
          <6>1. ListSocialSnapshots(u)' = ListSocialSnapshots(u)
            BY <1>2 DEF ListSocialSnapshots
          <6>2. {w \in ListSocialSnapshots(u).friends : isOnline(w)'}
                  = {w \in ListSocialSnapshots(u).friends : isOnline(w)}
            BY <3>1, <4>2
          <6> QED BY <6>1, <6>2 DEF now, socialEventFromRecord
        <5>2. now(u).invites \cap expired = {}
          BY DEF now, socialEventFromRecord, ListSocialSnapshots
        <5> QED BY <1>2, <5>1, <5>2 DEF StillSo
      <4> QED BY <2>1, <2>3, <4>1, <4>2, FriendsOfEachOther
    <3>3. ~MakesUp(task[c], c, d)
      BY <1>1, OtherStages DEF Idle, RefreshStages
    <3>4. ~WillWrite(task'[c], d)
      BY <1>6 DEF WillWrite
    <3>5. \A b \in Conns \ {c} : Follows(task[b], task'[b], d)
      BY <1>5, <2>1
    <3> QED BY <1>1, <2>1, <3>2, <3>3, <3>4, <3>5, ToldFollows
  <2> QED BY <2>2, <2>3
<1>15. ToldOK'
  BY <1>13, <1>14 DEF ToldOK, TablesOK
<1> QED BY <1>7, <1>11, <1>12, <1>13, <1>15 DEF SocialInv, Steady

\* The friends of a user who has left are to be refreshed.
LEMMA LoadStep ==
  ASSUME SocialInv, NEW c \in Conns, LoadFriends(c)
  PROVE  SocialInv'
<1> DEFINE F == ListSocialSnapshots(UserOf[c]).friends
           s == SetToSeq(F)
           t == refreshSocialUsers(s, Nothing)
<1>1. /\ task[c].at = "leave" /\ OnlyGoes(c, t)
      /\ UNCHANGED <<tables, online, shown, answers, behind, bounds>>
      /\ UNCHANGED <<requests, invites, commands>>
  BY DEF LoadFriends, Goes, OnlyGoes, tables, bounds
<1>2. F \in SUBSET Users
  BY DEF ListSocialSnapshots
<1>3. s \in Seq(Users) /\ ToSet(s) = F /\ (F # {} => s # <<>>)
  BY <1>2, UsersListed
<1>4. Nothing \in Thens /\ Nothing # RefreshFriends /\ \A id : Nothing # Answer(id)
  BY DEF Thens, RefreshFriends, Nothing, Answer
<1>5. /\ TaskOK(t, c, commands)
      /\ s = <<>> => t = Idle
      /\ s # <<>> => t.at = "refresh" /\ t.users = s /\ t.then = Nothing
  BY <1>3, <1>4, RefreshBegins
<1> HIDE DEF t, s, F
<1>6. t.at \in {"idle", "refresh"} /\ \A id : ~Answers(t, id) /\ ~Deletes(t, id)
  BY <1>4, <1>5 DEF Idle, Answers, Deletes, RefreshStages
<1>7. TablesOK'
  BY <1>1 DEF TablesOK, tables, bounds, SocialInv, Steady
<1>8. Steady' /\ task'[c] = t /\ \A d \in Conns \ {c} : task'[d] = task[d]
  BY <1>1, <1>5, <1>6, <1>7, SteadyStep DEF NewStages, SocialInv
<1>9. ASSUME NEW d \in Conns, d \in online' PROVE Told(d)'
  <2>1. Told(d) /\ StillSo(UserOf[d])
    BY <1>1, <1>9, NothingChanged DEF SocialInv, ToldOK
  <2>2. CASE UserOf[d] \in F
    <3>1. WillRead(task[c], c, UserOf[d])'
      BY <1>3, <1>5, <1>8, <2>2 DEF WillRead
    <3> QED BY <3>1, ToldByRead
  <2>3. CASE UserOf[d] \notin F
    <3>1. ~MakesUp(task[c], c, d)
      BY <1>1, <2>3, OtherStages DEF MakesUp, WillRead, RefreshStages, ReadStages, F
    <3>2. ~WillWrite(task'[c], d)
      BY <1>6, <1>8 DEF WillWrite
    <3>3. \A b \in Conns \ {c} : Follows(task[b], task'[b], d)
      BY <1>8 DEF Follows
    <3> QED BY <1>1, <2>1, <3>1, <3>2, <3>3, ToldFollows
  <2> QED BY <2>2, <2>3
<1>10. ToldOK'
  BY <1>7, <1>9 DEF ToldOK, TablesOK
<1> QED BY <1>1, <1>8, <1>10 DEF SocialInv, ShownOK

-----------------------------------------------------------------------------
(***************************************************************************)
(* The refresh.                                                            *)
(***************************************************************************)
\* The records are read: what was to be read is the state of now.
LEMMA ReadStep ==
  ASSUME SocialInv, NEW c \in Conns, ReadRecords(c)
  PROVE  SocialInv'
<1> DEFINE o == task[c]
           recs == [u \in ToSet(o.users) |-> ListSocialSnapshots(u)]
           t == [at |-> "emit", users |-> o.users, then |-> o.then, records |-> recs,
                 event |-> NoEvent, left |-> {}, passed |-> {}]
<1>1. /\ o.at = "refresh" /\ OnlyGoes(c, t)
      /\ UNCHANGED <<tables, online, shown, answers, behind, bounds>>
      /\ UNCHANGED <<requests, invites, commands>>
  BY DEF ReadRecords, Goes, OnlyGoes, tables, bounds
<1>2. /\ o.users \in Seq(Users) /\ o.users # <<>> /\ o.then \in Thens
      /\ o.then = RefreshFriends => o.users = <<UserOf[c]>>
  BY <1>1 DEF SocialInv, Steady, TasksOK, TaskOK, RefreshStages
<1> DEFINE users == o.users
           then == o.then
<1>3. /\ t.at = "emit" /\ t.users = users /\ t.then = then /\ t.event = NoEvent
      /\ t.passed = {} /\ t.records = recs /\ TaskOK(t, c, commands)
  <2>1. \A u \in ToSet(users) : recs[u].friends \subseteq Users
    BY DEF ListSocialSnapshots
  <2> HIDE DEF recs
  <2> QED BY <1>2, <2>1 DEF TaskOK, Stages, NewStages, RefreshStages, ReadStages
<1>4. \A u \in ToSet(users) : t.records[u] = ListSocialSnapshots(u)
  BY <1>3
<1> HIDE DEF t, recs
<1>5. TablesOK'
  BY <1>1 DEF TablesOK, tables, bounds, SocialInv, Steady
<1>6. \A id : /\ Answers(t, id) => Answers(task[c], id)
              /\ ~Deletes(t, id)
  BY <1>1, <1>3 DEF Answers, Deletes, RefreshStages
<1>7. Steady' /\ task'[c] = t /\ \A d \in Conns \ {c} : task'[d] = task[d]
  BY <1>1, <1>3, <1>5, <1>6, SteadyStep DEF NewStages, SocialInv
<1>8. ASSUME NEW d \in Conns, d \in online' PROVE Told(d)'
  <2> DEFINE u == UserOf[d]
  <2>1. Told(d) /\ StillSo(u)
    BY <1>1, <1>8, NothingChanged DEF SocialInv, ToldOK
  <2>2. CASE u \in ToSet(users)
    <3>1. PICK t2 : t2 = task'[c]
      OBVIOUS
    <3>2. PICK r : r = t2.records[u]
      OBVIOUS
    <3>3. t2.at = "emit" /\ t2.event = NoEvent /\ u \in ToSet(t2.users)
      BY <1>3, <1>7, <2>2, <3>1
    <3>4. r = ListSocialSnapshots(u)
      BY <1>4, <1>7, <2>2, <3>1, <3>2
    <3>5. RecordRight(r, u)
      BY <3>4, ReadNow
    <3>6. RecordRight(r, u)'
      BY <2>1, <3>5, RightStays
    <3>7. MakesUp(t2, c, d)'
      BY <3>2, <3>3, <3>6 DEF WriteRight, MakesUp
    <3> QED BY <3>1, <3>7, ToldByOne
  <2>3. CASE u \notin ToSet(users) /\ then = RefreshFriends
             /\ u \in ListSocialSnapshots(UserOf[c]).friends
    <3>1. UserOf[c] \in ToSet(users)
      BY <1>2, <2>3 DEF ToSet
    <3>2. WillRead(task[c], c, UserOf[d])'
      BY <1>3, <1>4, <1>7, <2>3, <3>1 DEF WillRead, ReadStages
    <3> QED BY <3>2, ToldByRead
  <2>4. CASE u \notin ToSet(users)
             /\ ~(then = RefreshFriends /\ u \in ListSocialSnapshots(UserOf[c]).friends)
    <3>1. ~MakesUp(task[c], c, d)
      BY <1>1, <2>4 DEF MakesUp, WillRead, WillWrite, WriteRight, ReadStages
    <3>2. ~WillWrite(task'[c], d)
      BY <1>3, <1>7, <2>4 DEF WillWrite
    <3>3. \A b \in Conns \ {c} : Follows(task[b], task'[b], d)
      BY <1>7 DEF Follows
    <3> QED BY <1>1, <2>1, <3>1, <3>2, <3>3, ToldFollows
  <2> QED BY <2>2, <2>3, <2>4
<1>9. ToldOK'
  BY <1>5, <1>8 DEF ToldOK, TablesOK
<1> QED BY <1>1, <1>7, <1>9 DEF SocialInv, ShownOK

\* A success is reported to one tab.
LEMMA ReportTyped ==
  ASSUME answers \in [Ids -> Nat], NEW then \in Thens, Reported(then)
  PROVE  answers' \in [Ids -> Nat]
BY DEF Reported

\* A read has failed, and the tabs that are not told are behind.
LEMMA ReadFailsStep ==
  ASSUME SocialInv, NEW c \in Conns, ReadFails(c)
  PROVE  SocialInv'
<1> DEFINE o == task[c]
           ends == o.at = "refresh" /\ o.then # RefreshFriends
           untold == IF ends THEN {d \in Conns : UserOf[d] \in ToSet(o.users)} ELSE Conns
<1>1. /\ o.at \in {"leave", "refresh"}
      /\ behind' = behind \cup untold /\ task' = PassedBy(c, untold, Idle)
      /\ IF ends THEN Reported(o.then) ELSE UNCHANGED answers
      /\ UNCHANGED <<tables, online, shown, commands>>
      /\ UNCHANGED <<requests, invites, commands>>
  BY DEF ReadFails, tables
<1>2. untold \in SUBSET Conns
  OBVIOUS
<1>3. o.at = "refresh" => o.then \in Thens
  BY DEF SocialInv, Steady, TasksOK, TaskOK, RefreshStages
<1>4. /\ Idle.at = "idle" /\ TaskOK(Idle, c, commands)
      /\ \A id : ~Answers(Idle, id) /\ ~Deletes(Idle, id)
  BY DEF Idle, TaskOK, Stages, NewStages, RefreshStages, ReadStages, Answers, Deletes
<1>5. ends => \A d \in Conns : d \in untold <=> UserOf[d] \in ToSet(o.users)
  OBVIOUS
<1>6. ~ends => untold = Conns
  OBVIOUS
<1>7. ends <=> o.at = "refresh" /\ o.then # RefreshFriends
  OBVIOUS
<1> HIDE DEF untold, ends
<1>8. answers' \in [Ids -> Nat]
  BY <1>1, <1>3, <1>7, ReportTyped DEF SocialInv, Steady, TablesOK
<1>9. TablesOK'
  BY <1>1, <1>2, <1>8 DEF TablesOK, tables, SocialInv, Steady
<1>10. \/ answers' = answers
       \/ Reported(task[c].then) /\ task[c].at \in RefreshStages
  BY <1>1, <1>7 DEF RefreshStages
<1>11. /\ Steady' /\ task'[c] = Idle
       /\ \A d \in Conns \ {c} :
            /\ \A x : Follows(task[d], task'[d], x)
            /\ task[d].at \in ReadStages => task'[d].passed = task[d].passed \cup untold
  BY <1>1, <1>2, <1>4, <1>9, <1>10, PassingSteady DEF SocialInv, NewStages
<1>12. ASSUME NEW d \in Conns, d \in online' PROVE Told(d)'
  <2>1. Told(d) /\ StillSo(UserOf[d])
    BY <1>1, <1>12, NothingChanged DEF SocialInv, ToldOK
  <2>2. ~WillWrite(task'[c], d)
    BY <1>4, <1>11 DEF WillWrite
  <2>3. CASE d \in untold
    <3>1. d \in behind'
      BY <1>1, <2>3
    <3>2. ASSUME NEW b \in Conns, WillWrite(task'[b], d) PROVE Told(d)'
      <4>1. b # c /\ Follows(task[b], task'[b], d)
        BY <1>11, <2>2, <3>2
      <4>2. WillWrite(task[b], d)
        BY <3>2, <4>1, FollowingStays
      <4>3. d \in task'[b].passed
        BY <1>11, <2>3, <4>1, <4>2 DEF WillWrite, ReadStages
      <4>4. PICK t2 : t2 = task'[b]
        OBVIOUS
      <4>5. MakesUp(t2, b, d)'
        BY <3>2, <4>3, <4>4 DEF MakesUp, WillWrite
      <4> QED BY <4>4, <4>5, ToldByOne
    <3> QED BY <3>1, <3>2 DEF Told, WillWrite
  <2>4. CASE d \notin untold
    <3>1. o.at = "refresh" /\ o.then # RefreshFriends /\ UserOf[d] \notin ToSet(o.users)
      BY <1>5, <1>6, <1>7, <2>4
    <3>2. ~MakesUp(task[c], c, d)
      BY <3>1 DEF MakesUp, WillRead, WillWrite, WriteRight, ReadStages
    <3>3. \A b \in Conns \ {c} : Follows(task[b], task'[b], d)
      BY <1>11
    <3> QED BY <1>1, <2>1, <2>2, <3>2, <3>3, ToldFollows
  <2> QED BY <2>3, <2>4
<1>13. ToldOK'
  BY <1>9, <1>12 DEF ToldOK, TablesOK
<1> QED BY <1>1, <1>11, <1>13 DEF SocialInv, ShownOK

\* An event is made from a record, with the presence of this moment.
LEMMA MakeStep ==
  ASSUME SocialInv, NEW c \in Conns, MakeEvent(c)
  PROVE  SocialInv'
<1> DEFINE o == task[c]
           h == Head(o.users)
           e == socialEventFromRecord(h, o.records[h])
           t == [o EXCEPT !.event = e]
<1>1. /\ o.at = "emit" /\ o.event = NoEvent /\ OnlyGoes(c, t)
      /\ UNCHANGED <<tables, online, shown, answers, behind, bounds>>
      /\ UNCHANGED <<requests, invites, commands>>
  BY DEF MakeEvent, Goes, OnlyGoes, tables, bounds
<1>2. TaskOK(o, c, commands)
  BY DEF SocialInv, Steady, TasksOK
<1>3. /\ t.at = "emit" /\ t.users = o.users /\ t.then = o.then /\ t.records = o.records
      /\ t.event = e /\ t.left = o.left /\ t.passed = o.passed
      /\ t = [at |-> t.at, users |-> t.users, then |-> t.then, records |-> t.records,
              event |-> t.event, left |-> t.left, passed |-> t.passed]
  <2>1. o = [at |-> o.at, users |-> o.users, then |-> o.then, records |-> o.records,
             event |-> o.event, left |-> o.left, passed |-> o.passed]
    BY <1>1, <1>2 DEF TaskOK, ReadStages
  <2> HIDE DEF e
  <2> QED BY <1>1, <2>1
<1>4. EventOf(e, h, o.records[h])
  BY EventMade
<1>5. \A r : RecordRight(r, h) => EventRight(socialEventFromRecord(h, r), h)
  BY ReadNow
<1> HIDE DEF t
<1>6. TaskOK(t, c, commands)
  <2> HIDE DEF e
  <2> QED BY <1>1, <1>2, <1>3, <1>4 DEF TaskOK, Stages, NewStages, RefreshStages, ReadStages
<1>7. TablesOK'
  BY <1>1 DEF TablesOK, tables, bounds, SocialInv, Steady
<1>8. \A id : /\ Answers(t, id) => Answers(task[c], id)
              /\ ~Deletes(t, id)
  BY <1>1, <1>3 DEF Answers, Deletes, RefreshStages
<1>9. Steady' /\ task'[c] = t /\ \A d \in Conns \ {c} : task'[d] = task[d]
  BY <1>1, <1>3, <1>6, <1>7, <1>8, SteadyStep DEF NewStages, SocialInv
<1>10. o.users \in Seq(Users) /\ o.users # <<>>
  BY <1>1, <1>2 DEF TaskOK, RefreshStages
<1>11. ASSUME NEW d \in Conns, d \in online' PROVE Told(d)'
  <2> DEFINE u == UserOf[d]
  <2>1. Told(d) /\ StillSo(u)
    BY <1>1, <1>11, NothingChanged DEF SocialInv, ToldOK
  <2>2. PICK t2 : t2 = task'[c]
    OBVIOUS
  <2>3. /\ t2.at = "emit" /\ t2.users = o.users /\ t2.then = o.then
        /\ t2.records = o.records /\ t2.event = e /\ t2.passed = o.passed
    BY <1>3, <1>9, <2>2
  <2>4. u \in ToSet(o.users) => u = h \/ u \in ToSet(Tail(o.users))
    BY <1>10, UsersInTurn
  <2>5. ASSUME MakesUp(o, c, d) PROVE MakesUp(t2, c, d)'
    <3>1. CASE WillRead(o, c, u)
      BY <1>1, <2>3, <3>1 DEF WillRead, ReadStages, MakesUp
    <3>2. CASE WriteRight(o, d)
      <4>1. u \in ToSet(o.users) /\ RecordRight(o.records[u], u)
        BY <1>1, <1>10, <3>2, UsersInTurn DEF WriteRight
      <4>2. CASE u = h
        <5>1. EventRight(e, u)
          BY <1>5, <4>1, <4>2
        <5>2. PICK e2 : e2 = e
          OBVIOUS
        <5>3. EventRight(e2, u)'
          BY <2>1, <5>1, <5>2, RightStays
        <5>4. t2.event = e2 /\ e2 # NoEvent /\ u = Head(t2.users)
          BY <1>4, <2>3, <4>2, <5>2 DEF EventOf
        <5> QED BY <2>3, <5>3, <5>4 DEF WriteRight, MakesUp
      <4>3. CASE u \in ToSet(Tail(o.users))
        <5>1. PICK r : r = o.records[u]
          OBVIOUS
        <5>2. RecordRight(r, u)'
          BY <2>1, <4>1, <5>1, RightStays
        <5>3. t2.records[u] = r /\ u \in ToSet(Tail(t2.users))
          BY <2>3, <4>3, <5>1
        <5> QED BY <2>3, <5>2, <5>3 DEF WriteRight, MakesUp, ReadStages
      <4> QED BY <2>4, <4>1, <4>2, <4>3
    <3>3. CASE WillWrite(o, d) /\ d \in o.passed
      BY <1>1, <2>3, <3>3 DEF WillWrite, MakesUp
    <3> QED BY <2>5, <3>1, <3>2, <3>3 DEF MakesUp
  <2>6. ASSUME Comes(d) PROVE Comes(d)'
    <3>1. PICK b \in Conns : MakesUp(task[b], b, d)
      BY <2>6 DEF Comes
    <3>2. CASE b = c
      BY <2>2, <2>5, <3>1, <3>2, MakesUpLater DEF Comes
    <3>3. CASE b # c
      <4>1. \A x : Follows(task[b], x, d) => MakesUp(x, b, d)'
        BY <2>1, <3>1, FollowingStays
      <4>2. Follows(task[b], task'[b], d)
        BY <1>9, <3>3 DEF Follows
      <4> QED BY <4>1, <4>2, MakesUpLater DEF Comes
    <3> QED BY <3>2, <3>3
  <2>7. ASSUME NEW b \in Conns, WillWrite(task'[b], d) PROVE WillWrite(task[b], d)
    <3>1. CASE b = c
      BY <1>1, <1>3, <1>9, <2>7, <3>1 DEF WillWrite
    <3>2. CASE b # c
      BY <1>9, <2>7, <3>2
    <3> QED BY <3>1, <3>2
  <2> HIDE DEF u
  <2> QED BY <1>1, <2>1, <2>6, <2>7, ToldStays DEF u
<1>12. ToldOK'
  BY <1>7, <1>11 DEF ToldOK, TablesOK
<1> QED BY <1>1, <1>9, <1>12 DEF SocialInv, ShownOK

\* The stage after a user's event has been made, when the connections of L have
\* still to get it.
OnTo(o, L) == Continues([o EXCEPT !.left = L])

\* What goroutine c has left to write and to read when it has gone on from o to t2.
GoneOn(t2, o, L, c, n) ==
  LET rest == ToSet(Tail(o.users)) IN
  /\ TaskOK(t2, c, n) /\ t2.at \in RefreshStages \cup {"idle"}
  /\ \A id : (Answers(t2, id) => Answers(o, id)) /\ ~Deletes(t2, id)
  /\ \A d : WillWrite(t2, d) <=> d \in L \/ UserOf[d] \in rest
  /\ \A d : WillWrite(t2, d) => t2.passed = o.passed /\ t2.records = o.records
  /\ \A d \in L : t2.at = "write" /\ d \in t2.left /\ t2.event = o.event
  /\ \A u \in rest :
       \/ t2.at = "emit" /\ t2.event = NoEvent /\ u \in ToSet(t2.users)
       \/ t2.at = "write" /\ u \in ToSet(Tail(t2.users))
  /\ rest # {} => t2.records = o.records
  /\ \A u : WillRead(o, c, u) =>
       \/ t2.at = "refresh" /\ u \in ToSet(t2.users)
       \/ /\ t2.at \in ReadStages /\ t2.then = RefreshFriends
          /\ u \in t2.records[UserOf[c]].friends

\* The users that come next are still to be written to, or the friends to be read.
LEMMA ContinuesOn ==
  ASSUME NEW c \in Conns, NEW n, NEW o, NEW L, TaskOK(o, c, n),
         o.at \in ReadStages, o.event # NoEvent,
         L \subseteq {d \in Conns : UserOf[d] = Head(o.users)}
  PROVE  GoneOn(OnTo(o, L), o, L, c, n)
<1> DEFINE t1 == [o EXCEPT !.left = L]
           t2 == OnTo(o, L)
           rest == ToSet(Tail(o.users))
<1>1. /\ o.users \in Seq(Users) /\ o.users # <<>> /\ o.then \in Thens
      /\ o.then = RefreshFriends => o.users = <<UserOf[c]>>
      /\ o = [at |-> o.at, users |-> o.users, then |-> o.then, records |-> o.records,
              event |-> o.event, left |-> o.left, passed |-> o.passed]
      /\ \A u \in ToSet(o.users) : o.records[u].friends \subseteq Users
      /\ EventOf(o.event, Head(o.users), o.records[Head(o.users)])
  BY DEF TaskOK, RefreshStages, ReadStages
<1>2. t1 = [at |-> o.at, users |-> o.users, then |-> o.then, records |-> o.records,
            event |-> o.event, left |-> L, passed |-> o.passed]
  BY <1>1
<1>3. /\ Tail(o.users) \in Seq(Users)
      /\ \A u : u \in ToSet(o.users) <=> (u = Head(o.users) \/ u \in rest)
      /\ Len(o.users) > 1 <=> Tail(o.users) # <<>>
      /\ Tail(o.users) = <<>> => rest = {}
  BY <1>1, UsersInTurn
<1>4. \A u : WillRead(o, c, u) <=>
        o.then = RefreshFriends /\ u \in o.records[UserOf[c]].friends
  BY DEF WillRead, ReadStages
<1>5. t2 = Continues(t1)
  BY DEF OnTo
<1>6. o.then = RefreshFriends => /\ rest = {} /\ Head(o.users) = UserOf[c]
                                 /\ ~(Len(o.users) > 1)
  <2>1. ASSUME o.then = RefreshFriends PROVE o.users = <<UserOf[c]>>
    BY <1>1, <2>1
  <2>2. \A x : ~(Len(<<x>>) > 1) /\ Head(<<x>>) = x
    OBVIOUS
  <2>3. ASSUME ~(Len(o.users) > 1) PROVE rest = {}
    BY <1>3, <2>3
  <2> QED BY <2>1, <2>2, <2>3
<1> HIDE DEF t2, t1, rest
<1>7. CASE L # {}
  <2>1. t2 = [at |-> "write", users |-> o.users, then |-> o.then, records |-> o.records,
              event |-> o.event, left |-> L, passed |-> o.passed]
    BY <1>2, <1>5, <1>7 DEF Continues
  <2>2. /\ t2.at = "write" /\ t2.users = o.users /\ t2.then = o.then
        /\ t2.records = o.records /\ t2.event = o.event /\ t2.left = L
        /\ t2.passed = o.passed
        /\ t2 = [at |-> t2.at, users |-> t2.users, then |-> t2.then,
                 records |-> t2.records, event |-> t2.event, left |-> t2.left,
                 passed |-> t2.passed]
    BY <2>1
  <2>3. TaskOK(t2, c, n)
    BY <1>1, <2>2 DEF TaskOK, Stages, NewStages, RefreshStages, ReadStages
  <2>4. \A id : (Answers(t2, id) => Answers(o, id)) /\ ~Deletes(t2, id)
    BY <2>2 DEF Answers, Deletes, RefreshStages, ReadStages
  <2>5. \A d : WillWrite(t2, d) <=> d \in L \/ UserOf[d] \in rest
    BY <2>2 DEF WillWrite, rest
  <2>6. \A u : WillRead(o, c, u) => /\ t2.at \in ReadStages /\ t2.then = RefreshFriends
                                    /\ u \in t2.records[UserOf[c]].friends
    BY <1>4, <2>2 DEF ReadStages
  <2> QED BY <2>2, <2>3, <2>4, <2>5, <2>6 DEF GoneOn, RefreshStages, t2, rest
<1>8. CASE L = {} /\ Len(o.users) > 1
  <2>1. t2 = [at |-> "emit", users |-> Tail(o.users), then |-> o.then,
              records |-> o.records, event |-> NoEvent, left |-> L, passed |-> o.passed]
    BY <1>2, <1>5, <1>8 DEF Continues
  <2>2. /\ t2.at = "emit" /\ t2.users = Tail(o.users) /\ t2.then = o.then
        /\ t2.records = o.records /\ t2.event = NoEvent /\ t2.left = L
        /\ t2.passed = o.passed
        /\ t2 = [at |-> t2.at, users |-> t2.users, then |-> t2.then,
                 records |-> t2.records, event |-> t2.event, left |-> t2.left,
                 passed |-> t2.passed]
    BY <2>1
  <2>3. o.then # RefreshFriends
    BY <1>6, <1>8
  <2>4. /\ t2.users \in Seq(Users) /\ t2.users # <<>>
        /\ \A u \in ToSet(t2.users) : t2.records[u].friends \subseteq Users
    BY <1>1, <1>3, <1>8, <2>2 DEF rest
  <2>5. TaskOK(t2, c, n)
    BY <1>1, <2>2, <2>3, <2>4 DEF TaskOK, Stages, NewStages, RefreshStages, ReadStages
  <2>6. \A id : (Answers(t2, id) => Answers(o, id)) /\ ~Deletes(t2, id)
    BY <2>2 DEF Answers, Deletes, RefreshStages, ReadStages
  <2>7. \A d : WillWrite(t2, d) <=> d \in L \/ UserOf[d] \in rest
    BY <1>8, <2>2 DEF WillWrite, rest
  <2>8. \A u : ~WillRead(o, c, u)
    BY <1>4, <2>3
  <2>9. \A u \in rest : t2.at = "emit" /\ t2.event = NoEvent /\ u \in ToSet(t2.users)
    BY <2>2 DEF rest
  <2> QED BY <1>8, <2>2, <2>5, <2>6, <2>7, <2>8, <2>9 DEF GoneOn, RefreshStages, t2, rest
<1>9. CASE L = {} /\ ~(Len(o.users) > 1)
  <2>1. rest = {}
    BY <1>3, <1>9
  <2>2. CASE o.then = RefreshFriends
    <3> DEFINE F == o.event.friends
               s == SetToSeq(F)
    <3>1. t2 = refreshSocialUsers(s, Nothing)
      BY <1>2, <1>5, <1>9, <2>2 DEF Continues
    <3>2. F = o.records[UserOf[c]].friends /\ F \in SUBSET Users
      BY <1>1, <1>3, <1>6, <2>2 DEF EventOf
    <3>3. s \in Seq(Users) /\ ToSet(s) = F /\ (F # {} => s # <<>>)
      BY <3>2, UsersListed
    <3> HIDE DEF F, s
    <3>4. Nothing \in Thens /\ Nothing # RefreshFriends /\ \A id : Nothing # Answer(id)
      BY DEF Thens, RefreshFriends, Nothing, Answer
    <3>5. /\ TaskOK(t2, c, n)
          /\ s = <<>> => t2 = Idle
          /\ s # <<>> => t2.at = "refresh" /\ t2.users = s /\ t2.then = Nothing
      BY <3>1, <3>3, <3>4, RefreshBegins
    <3>6. t2.at \in {"idle", "refresh"} /\ \A id : ~Answers(t2, id) /\ ~Deletes(t2, id)
      BY <3>4, <3>5 DEF Idle, Answers, Deletes, RefreshStages
    <3>7. \A d : ~WillWrite(t2, d)
      BY <3>6 DEF WillWrite
    <3>8. \A u : WillRead(o, c, u) => t2.at = "refresh" /\ u \in ToSet(t2.users)
      BY <1>4, <3>2, <3>3, <3>5
    <3> QED BY <1>9, <2>1, <3>5, <3>6, <3>7, <3>8 DEF GoneOn, RefreshStages, t2, rest
  <2>3. CASE o.then # RefreshFriends
    <3>1. t2 = Idle
      BY <1>2, <1>5, <1>9, <2>3 DEF Continues
    <3>2. /\ t2.at = "idle" /\ TaskOK(t2, c, n)
          /\ \A id : ~Answers(t2, id) /\ ~Deletes(t2, id)
          /\ \A d : ~WillWrite(t2, d)
      BY <3>1 DEF Idle, TaskOK, Stages, NewStages, RefreshStages, ReadStages, Answers,
                  Deletes, WillWrite
    <3>3. \A u : ~WillRead(o, c, u)
      BY <1>4, <2>3
    <3> QED BY <1>9, <2>1, <3>2, <3>3 DEF GoneOn, t2, rest
  <2> QED BY <2>2, <2>3
<1> QED BY <1>7, <1>8, <1>9

\* A goroutine that goes on makes up for what it made up for, unless it has just
\* written to tab d what it had for it.
LEMMA ContinuingStays ==
  ASSUME NEW c \in Conns, NEW n, NEW o, NEW L, NEW d \in Conns, NEW t2, t2 = OnTo(o, L),
         TaskOK(o, c, n), o.at \in ReadStages, o.event # NoEvent,
         L \subseteq {x \in Conns : UserOf[x] = Head(o.users)},
         WillWrite(o, d) => d \in L \/ UserOf[d] \in ToSet(Tail(o.users)),
         StillSo(UserOf[d]), MakesUp(o, c, d)
  PROVE  MakesUp(t2, c, d)'
<1> DEFINE u == UserOf[d]
           rest == ToSet(Tail(o.users))
<1>1. /\ WillWrite(t2, d) <=> d \in L \/ u \in rest
      /\ WillWrite(t2, d) => t2.passed = o.passed /\ t2.records = o.records
      /\ d \in L => t2.at = "write" /\ d \in t2.left /\ t2.event = o.event
      /\ u \in rest => \/ t2.at = "emit" /\ t2.event = NoEvent /\ u \in ToSet(t2.users)
                       \/ t2.at = "write" /\ u \in ToSet(Tail(t2.users))
      /\ WillRead(o, c, u) =>
           \/ t2.at = "refresh" /\ u \in ToSet(t2.users)
           \/ /\ t2.at \in ReadStages /\ t2.then = RefreshFriends
              /\ u \in t2.records[UserOf[c]].friends
  <2>1. GoneOn(t2, o, L, c, n)
    BY ContinuesOn
  <2> QED BY <2>1 DEF GoneOn
<1>2. /\ o.users \in Seq(Users) /\ o.users # <<>>
      /\ EventOf(o.event, Head(o.users), o.records[Head(o.users)])
      /\ o.at = "write" => o.left \subseteq {x \in Conns : UserOf[x] = Head(o.users)}
  BY DEF TaskOK, RefreshStages, ReadStages
<1> HIDE DEF u, rest
<1>3. CASE WillRead(o, c, u)
  BY <1>1, <1>3 DEF MakesUp, WillRead, u
<1>4. ASSUME u \in rest, RecordRight(o.records[u], u) PROVE MakesUp(t2, c, d)'
  <2>1. PICK r : r = o.records[u]
    OBVIOUS
  <2>2. RecordRight(r, u)'
    BY <1>4, <2>1, RightStays DEF u
  <2>3. t2.records[u] = r
    BY <1>1, <1>4, <2>1
  <2>4. WriteRight(t2, d)'
    BY <1>1, <1>4, <2>2, <2>3 DEF WriteRight, ReadStages, u
  <2> QED BY <2>4 DEF MakesUp
<1>5. ASSUME d \in L \/ u \in rest, u = Head(o.users), EventRight(o.event, u)
      PROVE  MakesUp(t2, c, d)'
  <2>1. CASE u \in rest
    <3>1. RecordRight(o.records[u], u)
      BY <1>2, <1>5, RecordOfEvent
    <3> QED BY <1>4, <2>1, <3>1
  <2>2. CASE d \in L
    <3>1. PICK e : e = o.event
      OBVIOUS
    <3>2. EventRight(e, u)'
      BY <1>5, <3>1, RightStays DEF u
    <3>3. WriteRight(t2, d)'
      BY <1>1, <2>2, <3>1, <3>2 DEF WriteRight, u
    <3> QED BY <3>3 DEF MakesUp
  <2> QED BY <1>5, <2>1, <2>2
<1>6. CASE WriteRight(o, d)
  <2>1. CASE o.at = "emit"
    <3>1. \/ u = Head(o.users) /\ EventRight(o.event, u)
          \/ u \in rest /\ RecordRight(o.records[u], u)
      BY <1>6, <2>1 DEF WriteRight, u, rest
    <3>2. u = Head(o.users) => WillWrite(o, d)
      BY <1>2, <2>1, UsersInTurn DEF WillWrite, u
    <3> QED BY <1>4, <1>5, <3>1, <3>2 DEF u, rest
  <2>2. CASE o.at = "write"
    <3>1. \/ d \in o.left /\ EventRight(o.event, u)
          \/ u \in rest /\ RecordRight(o.records[u], u)
      BY <1>6, <2>2 DEF WriteRight, u, rest
    <3>2. d \in o.left => WillWrite(o, d) /\ u = Head(o.users)
      BY <1>2, <2>2 DEF WillWrite, u
    <3> QED BY <1>4, <1>5, <3>1, <3>2 DEF u, rest
  <2> QED BY <2>1, <2>2 DEF ReadStages
<1>7. CASE WillWrite(o, d) /\ d \in o.passed
  BY <1>1, <1>7 DEF MakesUp, WillWrite, u, rest
<1> QED BY <1>3, <1>6, <1>7 DEF MakesUp, u

\* The goroutine goes on, and the others have been passed by in the tabs written to.
LEMMA GoesOnSteady ==
  ASSUME Steady, NEW c \in Conns, NEW L, NEW tabs \in SUBSET Conns,
         task[c].at \in ReadStages, task[c].event # NoEvent,
         L \subseteq {d \in Conns : UserOf[d] = Head(task[c].users)},
         GoesOn(c, tabs, OnTo(task[c], L)),
         UNCHANGED <<tables, online, bounds>>, behind' \subseteq Conns
  PROVE  /\ Steady' /\ task'[c] = OnTo(task[c], L) /\ TaskOK(task[c], c, commands)
         /\ GoneOn(OnTo(task[c], L), task[c], L, c, commands)
         /\ \A d \in Conns \ {c} :
              /\ \A x : Follows(task[d], task'[d], x)
              /\ task[d].at \in ReadStages => task'[d].passed = task[d].passed \cup tabs
<1> DEFINE t == OnTo(task[c], L)
<1>1. TaskOK(task[c], c, commands)
  BY DEF Steady, TasksOK
<1>2. GoneOn(t, task[c], L, c, commands)
  BY <1>1, ContinuesOn
<1>3. /\ task' = PassedBy(c, tabs, t)
      /\ IF t = Idle THEN Reported(task[c].then) ELSE UNCHANGED answers
      /\ UNCHANGED <<requests, invites, commands>>
  BY DEF GoesOn, tables, bounds
<1> HIDE DEF t
<1>4. /\ TaskOK(t, c, commands) /\ t.at \notin NewStages
      /\ \A id : (Answers(t, id) => Answers(task[c], id)) /\ ~Deletes(t, id)
  BY <1>2 DEF GoneOn, NewStages, RefreshStages
<1>5. task[c].at \in RefreshStages /\ task[c].then \in Thens
  BY <1>1 DEF TaskOK, ReadStages, RefreshStages
<1>6. \/ answers' = answers
      \/ /\ Reported(task[c].then) /\ task[c].at \in RefreshStages
         /\ \A id : ~Answers(t, id)
  BY <1>3, <1>5 DEF Answers, Idle, RefreshStages
<1>7. answers' \in [Ids -> Nat]
  BY <1>5, <1>6, ReportTyped DEF Steady, TablesOK
<1>8. TablesOK'
  BY <1>7 DEF Steady, TablesOK, tables, bounds
<1>9. /\ Steady' /\ task'[c] = t
      /\ \A d \in Conns \ {c} :
           /\ \A x : Follows(task[d], task'[d], x)
           /\ task[d].at \in ReadStages => task'[d].passed = task[d].passed \cup tabs
  BY <1>3, <1>4, <1>6, <1>8, PassingSteady
<1> QED BY <1>1, <1>2, <1>9 DEF t

\* Whatever another goroutine made up for, it still does.
LEMMA OthersMakeUp ==
  ASSUME NEW b \in Conns, NEW d \in Conns, StillSo(UserOf[d]),
         \A x : Follows(task[b], task'[b], x), MakesUp(task[b], b, d)
  PROVE  Comes(d)'
<1>1. \A t2 : Follows(task[b], t2, d) => MakesUp(t2, b, d)'
  BY FollowingStays
<1>2. MakesUp(task[b], b, d)'
  BY <1>1, MakesUpLater
<1> QED BY <1>2 DEF Comes

\* A goroutine goes on without having written to a tab.
LEMMA OnStep ==
  ASSUME SocialInv, NEW c \in Conns, NEW L,
         task[c].at \in ReadStages, task[c].event # NoEvent,
         L \subseteq {d \in Conns : UserOf[d] = Head(task[c].users)},
         GoesOn(c, {}, OnTo(task[c], L)),
         UNCHANGED <<tables, online, shown, behind, bounds>>,
         \A d \in online : WillWrite(task[c], d) <=>
           d \in L \/ UserOf[d] \in ToSet(Tail(task[c].users))
  PROVE  SocialInv'
<1>1. Steady /\ behind' \subseteq Conns /\ {} \in SUBSET Conns
      /\ UNCHANGED <<tables, online, bounds>>
  BY DEF SocialInv, Steady, TablesOK
<1>2. /\ Steady' /\ task'[c] = OnTo(task[c], L) /\ TaskOK(task[c], c, commands)
      /\ GoneOn(OnTo(task[c], L), task[c], L, c, commands)
      /\ \A d \in Conns \ {c} : \A x : Follows(task[d], task'[d], x)
  BY <1>1, GoesOnSteady
<1>3. ASSUME NEW d \in Conns, d \in online' PROVE Told(d)'
  <2>1. Told(d) /\ StillSo(UserOf[d]) /\ d \in online
    BY <1>3, NothingChanged DEF SocialInv, ToldOK
  <2>2. ASSUME Comes(d) PROVE Comes(d)'
    <3>1. PICK b \in Conns : MakesUp(task[b], b, d)
      BY <2>2 DEF Comes
    <3>2. CASE b = c
      <4>1. PICK t2 : t2 = task'[c]
        OBVIOUS
      <4>2. t2 = OnTo(task[c], L)
        BY <1>2, <4>1
      <4>3. MakesUp(t2, c, d)'
        BY <1>2, <2>1, <3>1, <3>2, <4>2, ContinuingStays
      <4> QED BY <4>1, <4>3, MakesUpLater DEF Comes
    <3>3. CASE b # c
      BY <1>2, <2>1, <3>1, <3>3, OthersMakeUp
    <3> QED BY <3>2, <3>3
  <2>3. ASSUME NEW b \in Conns, WillWrite(task'[b], d) PROVE WillWrite(task[b], d)
    <3>1. CASE b = c
      BY <1>2, <2>1, <2>3, <3>1 DEF GoneOn
    <3>2. CASE b # c
      <4>1. Follows(task[b], task'[b], d)
        BY <1>2, <3>2
      <4> QED BY <2>3, <4>1, FollowingStays
    <3> QED BY <3>1, <3>2
  <2> QED BY <2>1, <2>2, <2>3, ToldStays
<1>4. ToldOK'
  BY <1>2, <1>3 DEF ToldOK, Steady, TablesOK
<1> QED BY <1>2, <1>4 DEF SocialInv, ShownOK

\* The connections that are to get an event are those that are open now.
LEMMA EmitStep ==
  ASSUME SocialInv, NEW c \in Conns, emitSocialStateEvent(c)
  PROVE  SocialInv'
<1> DEFINE o == task[c]
           L == userConnections(o.event.userId)
<1>1. /\ o.at = "emit" /\ o.event # NoEvent /\ GoesOn(c, {}, OnTo(o, L))
      /\ UNCHANGED <<tables, online, shown, behind, bounds>>
  BY DEF emitSocialStateEvent, OnTo
<1>2. TaskOK(o, c, commands) /\ online \subseteq Conns
  BY DEF SocialInv, Steady, TasksOK, TablesOK
<1>3. /\ o.event.userId = Head(o.users) /\ o.users \in Seq(Users) /\ o.users # <<>>
  BY <1>1, <1>2 DEF TaskOK, EventOf, ReadStages, RefreshStages
<1>4. \A d : d \in L <=> d \in online /\ UserOf[d] = Head(o.users)
  BY <1>3 DEF userConnections
<1> HIDE DEF L
<1>5. L \subseteq {d \in Conns : UserOf[d] = Head(o.users)}
  BY <1>2, <1>4
<1>6. \A d \in online : WillWrite(o, d) <=> d \in L \/ UserOf[d] \in ToSet(Tail(o.users))
  BY <1>1, <1>3, <1>4, UsersInTurn DEF WillWrite
<1> QED BY <1>1, <1>5, <1>6, OnStep DEF ReadStages

\* The last write has failed.
LEMMA WriteFailsStep ==
  ASSUME SocialInv, NEW c \in Conns, WriteFails(c)
  PROVE  SocialInv'
<1> DEFINE o == task[c]
<1>1. /\ o.at = "write" /\ o.left = {} /\ GoesOn(c, {}, Continues(o))
      /\ UNCHANGED <<tables, online, shown, behind, bounds>>
  BY DEF WriteFails
<1>2. TaskOK(o, c, commands)
  BY DEF SocialInv, Steady, TasksOK
<1>3. o.event # NoEvent
      /\ o = [at |-> o.at, users |-> o.users, then |-> o.then, records |-> o.records,
              event |-> o.event, left |-> o.left, passed |-> o.passed]
  BY <1>1, <1>2 DEF TaskOK, ReadStages
<1>4. o = [o EXCEPT !.left = {}]
  BY <1>1, <1>3
<1>5. GoesOn(c, {}, OnTo(o, {}))
  BY <1>1, <1>4 DEF OnTo
<1>6. \A d \in online : WillWrite(o, d) <=> d \in {} \/ UserOf[d] \in ToSet(Tail(o.users))
  BY <1>1 DEF WillWrite
<1> HIDE DEF o
<1> QED BY <1>1, <1>3, <1>5, <1>6, OnStep DEF ReadStages, o

\* The event reaches a tab, which shows it.
LEMMA WriteStep ==
  ASSUME SocialInv, NEW c \in Conns, NEW d0 \in Conns, WriteEvent(c, d0)
  PROVE  SocialInv'
<1> DEFINE o == task[c]
           L == o.left \ {d0}
           rest == ToSet(Tail(o.users))
<1>1. /\ o.at = "write" /\ d0 \in o.left
      /\ shown' = [shown EXCEPT ![d0] = o.event]
      /\ behind' = IF d0 \in o.passed THEN behind \cup {d0} ELSE behind \ {d0}
      /\ GoesOn(c, {d0}, OnTo(o, L))
      /\ UNCHANGED <<tables, online, bounds>>
  BY DEF WriteEvent, OnTo
<1>2. TaskOK(o, c, commands) /\ Steady /\ behind \subseteq Conns
  BY DEF SocialInv, Steady, TasksOK, TablesOK
<1>3. /\ o.users \in Seq(Users) /\ o.users # <<>> /\ o.event # NoEvent
      /\ o.left \subseteq {d \in Conns : UserOf[d] = Head(o.users)}
      /\ EventOf(o.event, Head(o.users), o.records[Head(o.users)])
  BY <1>1, <1>2 DEF TaskOK, RefreshStages, ReadStages
<1>4. /\ L \subseteq {d \in Conns : UserOf[d] = Head(o.users)}
      /\ behind' \subseteq Conns /\ {d0} \in SUBSET Conns
      /\ UserOf[d0] = Head(o.users) /\ WillWrite(o, d0) /\ o.at \in ReadStages
  BY <1>1, <1>2, <1>3 DEF WillWrite, ReadStages
<1> HIDE DEF L
<1>5. /\ Steady' /\ task'[c] = OnTo(o, L)
      /\ GoneOn(OnTo(o, L), o, L, c, commands)
      /\ \A d \in Conns \ {c} :
           /\ \A x : Follows(task[d], task'[d], x)
           /\ task[d].at \in ReadStages => task'[d].passed = task[d].passed \cup {d0}
  BY ONLY <1>1, <1>2, <1>3, <1>4, GoesOnSteady, c \in Conns
<1>6. /\ shown' = [d \in Conns |-> shown'[d]] /\ shown'[d0] = o.event
      /\ \A d \in Conns \ {d0} : shown'[d] = shown[d]
  BY <1>1 DEF SocialInv, ShownOK
<1>7. ShownOK'
  BY <1>3, <1>4, <1>6 DEF SocialInv, ShownOK, EventOf
<1>8. \A d : WillWrite(task'[c], d) <=> d \in L \/ UserOf[d] \in rest
  BY <1>5 DEF GoneOn
<1>9. ASSUME NEW d \in Conns, StillSo(UserOf[d]), MakesUp(o, c, d),
             WillWrite(o, d) => d \in L \/ UserOf[d] \in rest
      PROVE  Comes(d)'
  <2>1. PICK t2 : t2 = task'[c]
    OBVIOUS
  <2>2. t2 = OnTo(o, L)
    BY <1>5, <2>1
  <2>3. MakesUp(t2, c, d)'
    BY <1>1, <1>2, <1>3, <1>4, <1>9, <2>2, ContinuingStays DEF ReadStages
  <2> QED BY <2>1, <2>3, MakesUpLater DEF Comes
<1>10. ASSUME NEW d \in Conns, NEW b \in Conns \ {c}, WillWrite(task'[b], d)
       PROVE  WillWrite(task[b], d)
  <2>1. Follows(task[b], task'[b], d)
    BY <1>5
  <2> QED BY <1>10, <2>1, FollowingStays
<1>11. ASSUME NEW d \in Conns, d \in online' PROVE Told(d)'
  <2> DEFINE u == UserOf[d]
  <2>1. Told(d) /\ StillSo(u)
    BY <1>1, <1>11, NothingChanged DEF SocialInv, ToldOK
  <2>2. CASE (WillWrite(o, d) => d \in L \/ u \in rest) /\ d # d0
    <3>1. ASSUME Comes(d) PROVE Comes(d)'
      <4>1. PICK b \in Conns : MakesUp(task[b], b, d)
        BY <3>1 DEF Comes
      <4>2. CASE b = c
        BY <1>9, <2>1, <2>2, <4>1, <4>2
      <4>3. CASE b # c
        BY <1>5, <2>1, <4>1, <4>3, OthersMakeUp
      <4> QED BY <4>2, <4>3
    <3>2. ASSUME NEW b \in Conns, WillWrite(task'[b], d)
          PROVE  \E a \in Conns : WillWrite(task[a], d)
      <4>1. CASE b = c
        BY <1>1, <1>8, <3>2, <4>1 DEF WillWrite, L
      <4>2. CASE b # c
        BY <1>10, <3>2, <4>2
      <4> QED BY <4>1, <4>2
    <3>3. shown'[d] = shown[d] /\ (d \in behind => d \in behind')
      BY <1>1, <1>6, <2>2
    <3> QED BY <2>1, <3>1, <3>2, <3>3, ToldStays
  <2>3. d # d0 => (WillWrite(o, d) => d \in L \/ u \in rest)
    BY <1>1 DEF WillWrite, L
  <2>4. CASE d = d0
    <3>1. PICK b \in Conns : MakesUp(task[b], b, d)
      BY <1>4, <2>1, <2>4 DEF Told, Comes
    <3>2. b # c => Comes(d)'
      BY <1>5, <2>1, <3>1, OthersMakeUp
    <3>3. ASSUME NEW a \in Conns \ {c}, WillWrite(task'[a], d) PROVE Comes(d)'
      <4>1. WillWrite(task[a], d)
        BY <1>10, <3>3
      <4>2. d \in task'[a].passed
        BY <1>5, <2>4, <4>1 DEF WillWrite, ReadStages
      <4>3. PICK t2 : t2 = task'[a]
        OBVIOUS
      <4>4. MakesUp(t2, a, d)'
        BY <3>3, <4>2, <4>3 DEF MakesUp, WillWrite
      <4> QED BY <4>3, <4>4, MakesUpLater DEF Comes
    <3>4. CASE u \in rest
      <4>1. b = c => Comes(d)'
        BY <1>9, <2>1, <3>1, <3>4
      <4> QED BY <3>2, <4>1 DEF Told
    <3>5. CASE u \notin rest
      <4>1. ~WillWrite(task'[c], d)
        BY <1>8, <2>4, <3>5 DEF L
      <4>2. (\E a \in Conns : WillWrite(task'[a], d)) => Comes(d)'
        BY <3>3, <4>1
      <4>3. d \in o.passed => d \in behind'
        BY <1>1, <2>4
      <4>4. ASSUME b = c, d \notin o.passed
            PROVE  EventRight(shown[d], u)' \/ Comes(d)'
        <5>1. CASE WillRead(o, c, u)
          <6>1. PICK t2 : t2 = task'[c]
            OBVIOUS
          <6>2. \/ t2.at = "refresh" /\ u \in ToSet(t2.users)
                \/ /\ t2.at \in ReadStages /\ t2.then = RefreshFriends
                   /\ u \in t2.records[UserOf[c]].friends
            BY <1>5, <5>1, <6>1 DEF GoneOn
          <6>3. MakesUp(t2, c, d)'
            BY <6>2 DEF MakesUp, WillRead
          <6> QED BY <6>1, <6>3, MakesUpLater DEF Comes
        <5>2. CASE WriteRight(o, d)
          <6>1. EventRight(o.event, u)
            BY <1>1, <3>5, <5>2 DEF WriteRight
          <6>2. PICK e : e = o.event
            OBVIOUS
          <6>3. EventRight(e, u)'
            BY <2>1, <6>1, <6>2, RightStays
          <6>4. shown'[d] = e
            BY <1>6, <2>4, <6>2
          <6> QED BY <6>3, <6>4 DEF EventRight
        <5> QED BY <3>1, <4>4, <5>1, <5>2 DEF MakesUp
      <4> QED BY <3>2, <4>2, <4>3, <4>4 DEF Told, WillWrite
    <3> QED BY <3>4, <3>5
  <2> QED BY <2>2, <2>3, <2>4
<1>12. ToldOK'
  BY <1>5, <1>11 DEF ToldOK, Steady, TablesOK
<1> QED BY <1>5, <1>7, <1>12 DEF SocialInv

-----------------------------------------------------------------------------
(***************************************************************************)
(* The theorems.                                                           *)
(***************************************************************************)
\* Nothing is under way, and every tab shows the state of now.
LEMMA SocialStarts ==
  ASSUME Init
  PROVE  SocialInv
<1>1. /\ friendships \subseteq {Pair(u, v) : u, v \in Users}
      /\ expired = {} /\ online = Conns /\ behind = {} /\ commands = 0
      /\ answers = [id \in Ids |-> 0] /\ task = [c \in Conns |-> Idle]
      /\ shown = [c \in Conns |-> now(UserOf[c])]
  BY DEF Init, now
<1>2. MaxCommands \in Nat /\ 0 \in Ids
  BY ParametersAssumption DEF Ids
<1>3. /\ requests \subseteq Requests /\ invites \subseteq Requests
      /\ \A r, s \in requests : r = s
      /\ \A i, j \in invites : i = j
      /\ \A r \in requests \cup invites : r.id = 0
      /\ \A r \in requests : invites = {}
      /\ \A i \in invites : requests = {}
  BY <1>2 DEF Init, Requests
<1>4. \A c \in Conns : task[c] = Idle /\ task[c].at = "idle"
  BY <1>1 DEF Idle
<1>5. TablesOK
  BY <1>1, <1>2, <1>3 DEF TablesOK
<1>6. \A c \in Conns : TaskOK(task[c], c, commands)
  BY <1>4 DEF TaskOK, Stages, NewStages, RefreshStages, ReadStages
<1>7. \A c \in Conns : \A id : ~Answers(task[c], id) /\ ~Deletes(task[c], id)
  BY <1>4 DEF Answers, Deletes, RefreshStages
<1>8. TasksOK
  BY <1>1, <1>6 DEF TasksOK
<1>9. NamesOK
  BY <1>1, <1>3, <1>4, <1>7 DEF NamesOK, Used, Asked, Invited, NewStages
<1>10. AnswersOK
  BY <1>1, <1>7 DEF AnswersOK
<1>11. \A u : EventRight(now(u), u)
  <2>1. \A u : now(u) # NoEvent /\ now(u).invites \cap expired = {}
    <3>1. ASSUME NEW u PROVE now(u) # NoEvent
      <4>1. EventOf(socialEventFromRecord(u, ListSocialSnapshots(u)), u,
                    ListSocialSnapshots(u))
        BY EventMade
      <4> QED BY <4>1 DEF now, EventOf
    <3>2. \A u : now(u).invites \cap expired = {}
      BY DEF now, socialEventFromRecord, ListSocialSnapshots
    <3> QED BY <3>1, <3>2
  <2> QED BY <2>1 DEF EventRight
<1>12. \A c \in Conns : shown[c].userId = UserOf[c] /\ EventRight(shown[c], UserOf[c])
  BY <1>1, <1>11 DEF now, socialEventFromRecord
<1>13. \A c, d \in Conns : ~WillWrite(task[c], d)
  BY <1>4 DEF WillWrite
<1>14. ShownOK /\ ToldOK
  BY <1>1, <1>12, <1>13 DEF ShownOK, ToldOK, Told
<1> QED BY <1>5, <1>8, <1>9, <1>10, <1>14 DEF SocialInv, Steady

\* Every step keeps the invariant.
LEMMA SocialContinues ==
  ASSUME SocialInv, [Next]_vars
  PROVE  SocialInv'
<1>1. ASSUME NEW c \in Conns, Handler(c) PROVE SocialInv'
  <2>1. CASE SendFriendRequest(c) \/ handleSendGameInvite(c)
    BY <2>1, AdmittedStep
  <2>2. CASE InsertFriendRequest(c)
    BY <2>2, InsertStep
  <2>3. CASE RespondFriendRequest(c)
    BY <2>3, RespondStep
  <2>4. CASE RemoveFriend(c)
    BY <2>4, RemoveStep
  <2>5. CASE SendGameInvite(c)
    BY <2>5, SendInviteStep
  <2>6. CASE GetGameInvite(c)
    BY <2>6, GetStep
  <2>7. CASE DeleteGameInvite(c)
    BY <2>7, DeleteInviteStep
  <2>8. CASE LoadFriends(c)
    BY <2>8, LoadStep
  <2>9. CASE ReadRecords(c)
    BY <2>9, ReadStep
  <2>10. CASE ReadFails(c)
    BY <2>10, ReadFailsStep
  <2>11. CASE MakeEvent(c)
    BY <2>11, MakeStep
  <2>12. CASE emitSocialStateEvent(c)
    BY <2>12, EmitStep
  <2>13. CASE WriteFails(c)
    BY <2>13, WriteFailsStep
  <2>14. CASE \E d \in Conns : WriteEvent(c, d)
    BY <2>14, WriteStep
  <2> QED BY <1>1, <2>1, <2>2, <2>3, <2>4, <2>5, <2>6, <2>7, <2>8, <2>9, <2>10, <2>11,
             <2>12, <2>13, <2>14 DEF Handler
<1>2. ASSUME NEW c \in Conns, Tab(c) PROVE SocialInv'
  BY <1>2, TabStep
<1>3. ASSUME NEW c \in Conns, socialConnected(c) PROVE SocialInv'
  BY <1>3, ConnectedStep
<1>4. ASSUME NEW c \in Conns, socialDisconnected(c) PROVE SocialInv'
  BY <1>4, DisconnectedStep
<1>5. ASSUME NEW i \in invites, InviteExpires(i) PROVE SocialInv'
  BY <1>5, ExpiresStep
<1>6. CASE UNCHANGED vars
  <2>1. /\ UNCHANGED <<tables, online, task, shown, answers, behind, commands>>
        /\ UNCHANGED <<friendships, requests, invites, expired>>
    BY <1>6 DEF vars, tables, bounds
  <2>2. TablesOK' /\ TasksOK' /\ ShownOK'
    BY <2>1 DEF SocialInv, Steady, TablesOK, TasksOK, TaskOK, ShownOK
  <2>3. \A id : Used(id)' <=> Used(id)
    BY <2>1 DEF Used, Asked, Invited, Answers, Deletes
  <2>4. NamesOK' /\ AnswersOK'
    <3>1. \A c \in Conns : Used(task[c].id)' <=> Used(task[c].id)
      BY <2>1 DEF Used, Asked, Invited, Answers, Deletes
    <3> QED BY <2>1, <2>3, <3>1
            DEF SocialInv, Steady, NamesOK, AnswersOK, Asked, Answers, Deletes
  <2>5. ASSUME NEW d \in Conns, d \in online' PROVE Told(d)'
    <3>1. Told(d) /\ StillSo(UserOf[d])
      BY <2>1, <2>5, NothingChanged DEF SocialInv, ToldOK
    <3>2. \A c \in Conns : Follows(task[c], task'[c], d)
      BY <2>1 DEF Follows
    <3> QED BY <2>1, <3>1, <3>2, ToldFollows
  <2> QED BY <2>2, <2>4, <2>5 DEF SocialInv, Steady, ToldOK, TablesOK
<1> QED BY <1>1, <1>2, <1>3, <1>4, <1>5, <1>6 DEF Next

\* Changes are announced to everybody they concern, whatever the goroutines do in
\* whatever order: socialService and the handlers of social.go.
THEOREM SocialCorrect == Spec => []SocialInv
<1>1. Init => SocialInv
  BY SocialStarts
<1>2. SocialInv /\ [Next]_vars => SocialInv'
  BY SocialContinues
<1> QED BY <1>1, <1>2, PTL DEF Spec

\* The state keeps its shape: an id names one request or invite, a pair of users has
\* one request at most, and a tab shows the state of its own user.
THEOREM SocialTypeCorrect == Spec => []TypeOK
<1>1. SocialInv => TypeOK
  BY DEF SocialInv, Steady, TablesOK, TasksOK, TaskOK, NamesOK, ShownOK, TypeOK
<1> QED BY <1>1, SocialCorrect, PTL

\* When all goroutines are done, every open tab for which no read has failed, and
\* which was not told out of order, shows the state as it is.
THEOREM WhatIsShownIsCurrent == Spec => []ShownIsCurrent
<1>1. SocialInv => ShownIsCurrent
  <2> SUFFICES ASSUME SocialInv, \A c \in Conns : task[c] = Idle,
                      NEW d \in online \ behind
               PROVE  /\ shown[d] # NoEvent
                      /\ shown[d].friends = now(UserOf[d]).friends
                      /\ shown[d].online = now(UserOf[d]).online
                      /\ shown[d].incoming = now(UserOf[d]).incoming
                      /\ shown[d].outgoing = now(UserOf[d]).outgoing
                      /\ gameInvites(d) = now(UserOf[d]).invites
    BY DEF ShownIsCurrent, now
  <2>1. \A c \in Conns : ~MakesUp(task[c], c, d)
    BY OtherStages DEF Idle, RefreshStages
  <2>2. EventRight(shown[d], UserOf[d])
    BY <2>1 DEF SocialInv, ToldOK, Told, Comes
  <2> QED BY <2>2 DEF EventRight, gameInvites
<1> QED BY <1>1, SocialCorrect, PTL

\* Of all the tabs that answer a friend request, one is told that it succeeded: the
\* transaction of RespondFriendRequest takes the request out of the table.
THEOREM RequestAnsweredOnce == Spec => []AnsweredOnce
<1>1. SocialInv => AnsweredOnce
  BY DEF SocialInv, Steady, AnswersOK, AnsweredOnce
<1> QED BY <1>1, SocialCorrect, PTL
=============================================================================
