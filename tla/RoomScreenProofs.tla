-------------------------- MODULE RoomScreenProofs --------------------------
(***************************************************************************)
(* Whom the room waits for is in it, and a game ends without a winner only *)
(* by the consent of everybody still in it: for any number of players, of  *)
(* cards and of commands on their way.                                     *)
(*                                                                         *)
(* A room is followed command by command.  Every command that changes it   *)
(* keeps RoomGood, and the votes on their way keep VotesKnown: an approval *)
(* of the present proposal was given by a player who is counted among      *)
(* those who consented to it.                                              *)
(***************************************************************************)
EXTENDS RoomScreen, FiniteSetTheorems, SequenceTheorems, TLAPS

-----------------------------------------------------------------------------
(***************************************************************************)
(* The inductive invariant.                                                *)
(***************************************************************************)
\* The proposals and rooms of the type invariant.
Proposals ==
  [id : 0 .. 1, proposer : Players \cup {NoOne}, eligible : SUBSET Players,
   agreed : SUBSET Players, expired : BOOLEAN]

Rooms ==
  [players : Seq(Players), connected : SUBSET Players,
   forfeited : SUBSET Players, host : Players \cup {NoOne},
   pending : [dealer : 0 .. maxPlayersPerRoom, chooser : 0 .. maxPlayersPerRoom],
   phase : {"lobby", "in_progress", "round_over", "game_over"},
   dealer : 0 .. maxPlayersPerRoom, turn : 0 .. maxPlayersPerRoom,
   proposal : Proposals, cooldown : BOOLEAN,
   conclusion : {"none", "forfeit", "agreed"}]

\* A room as the server can hold it: four seats at most, and only those still in the
\* room connected.
RoomShape(r) ==
  /\ r \in Rooms
  /\ IsInjective(r.players)
  /\ Len(r.players) <= maxPlayersPerRoom
  /\ r.connected \subseteq Active(r)

\* The host and the players of a turn and of a vote are in the room; nobody has
\* forfeited and nothing is proposed before the game; a game is played by two or more.
RoomNames(r) ==
  /\ r = NoRoom \/ r.host \in Active(r)
  /\ r.phase = "in_progress" => r.turn \in activePlayerIndexes(r)
  /\ r.phase = "lobby" => r.forfeited = {} /\ r.proposal = NoProposal /\ r.conclusion = "none"
  /\ playing(r) => \E p, q \in Active(r) : p # q
  /\ r.proposal # NoProposal =>
       /\ r.proposal.eligible = Active(r)
       /\ r.proposal.proposer \in r.proposal.agreed
       /\ r.proposal.id = 1

RoomGood(r) == RoomShape(r) /\ RoomNames(r)

\* A command has the fields of Command.
IsCommand(c) ==
  /\ c = [type |-> c.type, seat |-> c.seat, deal |-> c.deal, id |-> c.id, approve |-> c.approve]
  /\ c.approve \in BOOLEAN

\* A player's commands on their way.
BoxGood(box) == box \in Seq(ToSet(box)) /\ \A c \in ToSet(box) : IsCommand(c)

\* They are sent over connections that are open.
InboxShape ==
  /\ inbox = [p \in Players |-> inbox[p]]
  /\ \A p \in Players : BoxGood(inbox[p]) /\ (inbox[p] # <<>> => p \in conns)

\* Whoever agreed to the present proposal, or has an approval of it on its way, is
\* among those who consented to it.
VotesKnown ==
  room.proposal # NoProposal =>
    /\ room.proposal.agreed \subseteq consents
    /\ \A p \in Players : \A c \in ToSet(inbox[p]) :
         c.approve /\ c.id = room.proposal.id => p \in consents

RoomInv ==
  /\ RoomGood(room)
  /\ room.connected \subseteq conns
  /\ conns \subseteq Players /\ resets \subseteq Players
  /\ InboxShape
  /\ VotesKnown

-----------------------------------------------------------------------------
(***************************************************************************)
(* Seats.                                                                  *)
(***************************************************************************)
\* Those who stay keep their order and are each seated once.
LEMMA RemainingPlayers ==
  ASSUME NEW S, NEW s \in Seq(S), IsInjective(s), NEW gone
  PROVE  /\ remaining(s, gone) \in Seq(S)
         /\ IsInjective(remaining(s, gone))
         /\ ToSet(remaining(s, gone)) = ToSet(s) \ gone
         /\ Len(remaining(s, gone)) <= Len(s)
<1> DEFINE kept == {i \in DOMAIN s : s[i] \notin gone}
           rank(i) == Cardinality({j \in kept : j <= i})
           n == Cardinality(kept)
           seat(k) == CHOOSE i \in kept : rank(i) = k
           t == [k \in 1 .. n |-> s[seat(k)]]
<1>1. /\ Len(s) \in Nat /\ DOMAIN s = 1 .. Len(s) /\ \A i \in 1 .. Len(s) : s[i] \in S
  BY LenProperties, ElementOfSeq
<1>2. IsFiniteSet(1 .. Len(s)) /\ Cardinality(1 .. Len(s)) = Len(s)
  <2>1. 1 \in Int /\ Len(s) \in Int
    BY <1>1
  <2>2. IsFiniteSet(1 .. Len(s)) /\ Cardinality(1 .. Len(s)) = IF 1 > Len(s) THEN 0 ELSE Len(s) - 1 + 1
    BY <2>1, FS_Interval
  <2> QED BY <1>1, <2>2
<1>3. /\ IsFiniteSet(kept) /\ n \in Nat /\ n <= Len(s)
  BY <1>1, <1>2, FS_Subset, FS_CardinalityType
<1>4. \A i \in kept : i \in 1 .. Len(s) /\ i \in Int
  BY <1>1
<1>5. \A i \in kept : s[i] \in S /\ s[i] \notin gone /\ i \in DOMAIN s
  BY <1>1
<1>6. \A i \in DOMAIN s : s[i] \notin gone => i \in kept
  OBVIOUS
<1> HIDE DEF kept
<1>7. \A i \in kept : rank(i) \in 1 .. n
  <2> SUFFICES ASSUME NEW i \in kept PROVE rank(i) \in 1 .. n
    OBVIOUS
  <2> DEFINE below == {j \in kept : j <= i}
  <2>1. below \in SUBSET kept /\ i \in below
    BY <1>4
  <2> HIDE DEF below
  <2>2. IsFiniteSet(below) /\ Cardinality(below) <= n
    BY <1>3, <2>1, FS_Subset
  <2>3. Cardinality(below) \in Nat /\ Cardinality(below) # 0
    BY <2>1, <2>2, FS_CardinalityType, FS_EmptySet
  <2>4. Cardinality(below) \in 1 .. n
    BY <1>3, <2>2, <2>3
  <2> QED BY <2>4 DEF below
<1>8. ASSUME NEW i \in kept, NEW j \in kept, i < j PROVE rank(i) # rank(j)
  <2> DEFINE A == {k \in kept : k <= i}
             B == {k \in kept : k <= j}
  <2>1. A \in SUBSET B /\ j \in B /\ j \notin A
    BY <1>4, <1>8
  <2>2. B \in SUBSET kept
    OBVIOUS
  <2> HIDE DEF A, B
  <2>3. IsFiniteSet(B)
    BY <1>3, <2>2, FS_Subset
  <2>4. Cardinality(A) # Cardinality(B)
    BY <2>1, <2>3, FS_Subset
  <2> QED BY <2>4 DEF A, B
<1>9. \A i, j \in kept : rank(i) = rank(j) => i = j
  <2>1. \A i, j \in kept : i = j \/ i < j \/ j < i
    BY <1>4
  <2> QED BY <1>8, <2>1
<1> HIDE DEF rank
<1>10. \A k \in 1 .. n : \E i \in kept : rank(i) = k
  <2> DEFINE f == [i \in kept |-> rank(i)]
  <2>1. f \in Injection(kept, 1 .. n)
    BY <1>7, <1>9 DEF Injection, IsInjective
  <2>2. IsFiniteSet(1 .. n) /\ Cardinality(1 .. n) = n
    BY <1>3, FS_Interval
  <2> HIDE DEF f
  <2>3. f \in Surjection(kept, 1 .. n)
    BY <2>1, <2>2, FS_Injection
  <2> QED BY <2>3 DEF Surjection, f
<1>11. \A k \in 1 .. n : seat(k) \in kept /\ rank(seat(k)) = k
  BY <1>10
<1> HIDE DEF seat
<1>12. t \in [1 .. n -> S]
  BY <1>5, <1>11
<1>13. t \in Seq(S) /\ Len(t) = n /\ DOMAIN t = 1 .. n
  BY <1>3, <1>12
<1>14. IsInjective(t)
  <2> SUFFICES ASSUME NEW k \in 1 .. n, NEW l \in 1 .. n, t[k] = t[l] PROVE k = l
    BY <1>13 DEF IsInjective
  <2>1. seat(k) = seat(l)
    BY <1>5, <1>11 DEF IsInjective
  <2> QED BY <1>11, <2>1
<1>15. ToSet(t) = ToSet(s) \ gone
  <2>1. \A k \in 1 .. n : t[k] \in ToSet(s) /\ t[k] \notin gone
    BY <1>5, <1>11 DEF ToSet
  <2>2. ASSUME NEW i \in DOMAIN s, s[i] \notin gone PROVE \E k \in 1 .. n : t[k] = s[i]
    <3>1. i \in kept /\ rank(i) \in 1 .. n
      BY <1>6, <1>7, <2>2
    <3>2. seat(rank(i)) = i
      BY <1>9, <1>11, <3>1
    <3> QED BY <3>1, <3>2
  <2>3. \A x : x \in ToSet(t) <=> \E k \in 1 .. n : t[k] = x
    BY <1>13 DEF ToSet
  <2>4. \A x : x \in ToSet(s) <=> \E i \in DOMAIN s : s[i] = x
    BY DEF ToSet
  <2>5. \A x : x \in ToSet(t) <=> x \in ToSet(s) /\ x \notin gone
    BY <2>1, <2>2, <2>3, <2>4
  <2> QED BY <2>5
<1>16. remaining(s, gone) = t
  BY DEF remaining, t, seat, rank, n, kept
<1> QED BY <1>3, <1>13, <1>14, <1>15, <1>16

\* Four seats at most.
LEMMA FourSeats ==
  ASSUME NEW n \in Nat, n <= 4
  PROVE  n \in 0 .. 4 /\ \A i \in 1 .. n : i \in 1 .. 4
OBVIOUS

\* The seats of a room and the players on them.
LEMMA SeatFacts ==
  ASSUME NEW r, RoomShape(r)
  PROVE  /\ r.players \in Seq(Players) /\ Len(r.players) \in 0 .. 4
         /\ DOMAIN r.players = 1 .. Len(r.players)
         /\ activePlayerIndexes(r) \subseteq 1 .. Len(r.players)
         /\ activePlayerIndexes(r) \subseteq 1 .. 4
         /\ \A i \in activePlayerIndexes(r) : r.players[i] \in Active(r)
         /\ \A p \in Active(r) : \E i \in activePlayerIndexes(r) : r.players[i] = p
         /\ Active(r) \subseteq Players
<1>1. r.players \in Seq(Players) /\ Len(r.players) <= 4
  BY DEF RoomShape, Rooms, maxPlayersPerRoom
<1>2. Len(r.players) \in Nat /\ DOMAIN r.players = 1 .. Len(r.players)
      /\ \A i \in 1 .. Len(r.players) : r.players[i] \in Players
  BY <1>1, LenProperties, ElementOfSeq
<1>3. activePlayerIndexes(r) \subseteq 1 .. Len(r.players)
  BY <1>2 DEF activePlayerIndexes
<1>4. \A i \in activePlayerIndexes(r) : r.players[i] \in Active(r)
  BY DEF activePlayerIndexes
<1>5. \A p \in Active(r) : \E i \in activePlayerIndexes(r) : r.players[i] = p
  BY DEF activePlayerIndexes, Active, Seated, ToSet
<1>6. Active(r) \subseteq Players
  BY <1>2 DEF Active, Seated, ToSet
<1>7. Len(r.players) \in 0 .. 4 /\ activePlayerIndexes(r) \subseteq 1 .. 4
  <2>1. Len(r.players) \in 0 .. 4
    BY <1>1, <1>2, FourSeats
  <2>2. \A i \in 1 .. Len(r.players) : i \in 1 .. 4
    BY <1>1, <1>2, FourSeats
  <2> QED BY <1>3, <2>1, <2>2
<1> QED BY <1>1, <1>2, <1>3, <1>4, <1>5, <1>6, <1>7

\* A seat can be reached from every other, clockwise and back.
LEMMA SeatSteps ==
  ASSUME NEW n \in 1 .. 4, NEW i \in 0 .. 4, NEW j \in 1 .. n
  PROVE  /\ \E d \in 1 .. n : ((i + d - 1) % n) + 1 = j
         /\ \E d \in 1 .. n : ((i + n - d - 1) % n) + 1 = j
<1>1. CASE n = 1
  BY <1>1
<1>2. CASE n = 2
  BY <1>2
<1>3. CASE n = 3
  BY <1>3
<1>4. CASE n = 4
  BY <1>4
<1> QED BY <1>1, <1>2, <1>3, <1>4

\* A set of steps has a shortest.
LEMMA ShortestStep ==
  ASSUME NEW S \in SUBSET (1 .. 4), S # {}
  PROVE  \E x \in S : \A y \in S : x <= y
<1>1. \A x \in S : x = 1 \/ x = 2 \/ x = 3 \/ x = 4
  OBVIOUS
<1>2. CASE 1 \in S
  BY <1>1, <1>2
<1>3. CASE 1 \notin S /\ 2 \in S
  BY <1>1, <1>3
<1>4. CASE 1 \notin S /\ 2 \notin S /\ 3 \in S
  BY <1>1, <1>4
<1>5. CASE 1 \notin S /\ 2 \notin S /\ 3 \notin S
  <2>1. \A x \in S : x = 4
    BY <1>1, <1>5
  <2>2. 4 \in S
    BY <2>1
  <2>3. \A y \in S : 4 <= y
    BY <2>1
  <2> QED BY <2>2, <2>3
<1> QED BY <1>2, <1>3, <1>4, <1>5

\* The next and the previous seat are those of a player still in the game.
LEMMA NextSeat ==
  ASSUME NEW r, RoomShape(r), Active(r) # {}, NEW i \in 0 .. 4
  PROVE  /\ nextActivePlayerIndex(r, i) \in activePlayerIndexes(r)
         /\ previousActivePlayerIndex(r, i) \in activePlayerIndexes(r)
<1> DEFINE n == Len(r.players)
           A == activePlayerIndexes(r)
           S == {d \in 1 .. n : ((i + d - 1) % n) + 1 \in A}
           T == {d \in 1 .. n : ((i + n - d - 1) % n) + 1 \in A}
<1>1. PICK j \in A : j \in 1 .. n
  BY SeatFacts
<1>2. n \in 1 .. 4
  BY <1>1, SeatFacts
<1> HIDE DEF A, n
<1>3. S \in SUBSET (1 .. 4) /\ T \in SUBSET (1 .. 4)
  BY <1>2
<1>4. S # {} /\ T # {}
  BY <1>1, <1>2, SeatSteps
<1>5. (CHOOSE x \in S : \A y \in S : x <= y) \in S
  <2> HIDE DEF S
  <2> QED BY <1>3, <1>4, ShortestStep
<1>6. (CHOOSE x \in T : \A y \in T : x <= y) \in T
  <2> HIDE DEF T
  <2> QED BY <1>3, <1>4, ShortestStep
<1>7. nextActivePlayerIndex(r, i) = ((i + (CHOOSE x \in S : \A y \in S : x <= y) - 1) % n) + 1
  BY DEF nextActivePlayerIndex, A, n
<1>8. previousActivePlayerIndex(r, i) = ((i + n - (CHOOSE x \in T : \A y \in T : x <= y) - 1) % n) + 1
  BY DEF previousActivePlayerIndex, A, n
<1>9. /\ \A d \in S : ((i + d - 1) % n) + 1 \in A
      /\ \A d \in T : ((i + n - d - 1) % n) + 1 \in A
  OBVIOUS
<1> HIDE DEF S, T
<1> QED BY <1>5, <1>6, <1>7, <1>8, <1>9 DEF A

-----------------------------------------------------------------------------
(***************************************************************************)
(* Rooms.                                                                  *)
(***************************************************************************)
\* The fields of the missing room and of the missing proposal.
LEMMA NoRoomFacts ==
  /\ RoomGood(NoRoom) /\ Active(NoRoom) = {} /\ NoProposal \in Proposals
  /\ NoRoom.proposal = NoProposal /\ NoRoom.conclusion = "none" /\ NoRoom.connected = {}
  /\ ~NoProposal.expired /\ NoProposal.eligible = {}
<1>1. NoProposal \in Proposals /\ ~NoProposal.expired /\ NoProposal.eligible = {}
  BY DEF NoProposal, Proposals
<1>2. /\ NoRoom.players = <<>> /\ NoRoom.connected = {} /\ NoRoom.forfeited = {}
      /\ NoRoom.phase = "lobby" /\ NoRoom.proposal = NoProposal /\ NoRoom.conclusion = "none"
  BY DEF NoRoom
<1>3. NoRoom \in Rooms
  BY <1>1 DEF NoRoom, Rooms, NoDeal, maxPlayersPerRoom
<1>4. IsInjective(<<>>) /\ ToSet(<<>>) = {} /\ Len(<<>>) = 0
  BY DEF IsInjective, ToSet
<1>5. Active(NoRoom) = {}
  BY <1>2, <1>4 DEF Active, Seated
<1>6. RoomShape(NoRoom)
  BY <1>2, <1>3, <1>4, <1>5 DEF RoomShape, maxPlayersPerRoom
<1>7. RoomNames(NoRoom)
  BY <1>2 DEF RoomNames, playing
<1> QED BY <1>1, <1>2, <1>5, <1>6, <1>7 DEF RoomGood

\* The players of a room depend on its seats and on who forfeited.
LEMMA SameSeats ==
  ASSUME NEW r, NEW r2, r2.players = r.players, r2.forfeited = r.forfeited
  PROVE  Active(r2) = Active(r) /\ activePlayerIndexes(r2) = activePlayerIndexes(r)
BY DEF Active, Seated, activePlayerIndexes

\* A player in a room: there is a room.
LEMMA InRoom ==
  ASSUME NEW r, NEW p, p \in Active(r)
  PROVE  r # NoRoom
BY NoRoomFacts

\* A change that leaves seats, forfeits and host alone.
LEMMA KeepsGood ==
  ASSUME NEW r, RoomGood(r), r # NoRoom,
         NEW r2 \in Rooms,
         r2.players = r.players, r2.forfeited = r.forfeited, r2.host = r.host,
         r2.connected \subseteq Active(r),
         r2.phase = "in_progress" => r2.turn \in activePlayerIndexes(r),
         r2.phase = "lobby" =>
           /\ r.phase = "lobby" /\ r2.conclusion = r.conclusion
           /\ r2.proposal = r.proposal \/ r2.proposal = NoProposal,
         playing(r2) => \E p, q \in Active(r) : p # q,
         \/ r2.proposal = NoProposal
         \/ /\ r2.proposal.eligible = Active(r)
            /\ r2.proposal.proposer \in r2.proposal.agreed
            /\ r2.proposal.id = 1
  PROVE  RoomGood(r2)
<1>1. Active(r2) = Active(r) /\ activePlayerIndexes(r2) = activePlayerIndexes(r)
  BY SameSeats
<1>2. RoomShape(r2)
  BY <1>1 DEF RoomGood, RoomShape
<1>3. r2.host \in Active(r2)
  BY <1>1 DEF RoomGood, RoomNames
<1>4. r2.phase = "lobby" => r2.forfeited = {} /\ r2.proposal = NoProposal /\ r2.conclusion = "none"
  BY DEF RoomGood, RoomNames
<1> QED BY <1>1, <1>2, <1>3, <1>4 DEF RoomGood, RoomNames

\* A snapshot at most drops a proposal whose time is up.
LEMMA SnapshotGood ==
  ASSUME NEW r, RoomGood(r)
  PROVE  /\ RoomGood(snapshot(r))
         /\ Active(snapshot(r)) = Active(r)
         /\ snapshot(r).connected = r.connected
         /\ snapshot(r).phase = r.phase
         /\ snapshot(r).conclusion = r.conclusion
         /\ snapshot(r).proposal \in {r.proposal, NoProposal}
<1> DEFINE r2 == [r EXCEPT !.proposal = NoProposal, !.cooldown = TRUE]
<1>1. CASE ~r.proposal.expired
  BY <1>1 DEF snapshot, activeEndProposal
<1>2. CASE r.proposal.expired
  <2>1. snapshot(r) = r2
    BY <1>2 DEF snapshot, activeEndProposal
  <2>2. r \in Rooms /\ r # NoRoom
    BY <1>2, NoRoomFacts DEF RoomGood, RoomShape
  <2>3. /\ r2.players = r.players /\ r2.forfeited = r.forfeited /\ r2.host = r.host
        /\ r2.connected = r.connected /\ r2.phase = r.phase /\ r2.turn = r.turn
        /\ r2.conclusion = r.conclusion /\ r2.proposal = NoProposal
    BY <2>2 DEF Rooms
  <2>4. r2 \in Rooms
    BY <2>2, NoRoomFacts DEF Rooms
  <2> HIDE DEF r2
  <2>5. RoomGood(r2)
    BY <2>2, <2>3, <2>4, KeepsGood DEF RoomGood, RoomShape, RoomNames, playing
  <2> QED BY <2>1, <2>3, <2>5, SameSeats
<1> QED BY <1>1, <1>2

-----------------------------------------------------------------------------
(***************************************************************************)
(* The commands.                                                           *)
(***************************************************************************)
\* The vote for the present proposal that command c of player p carries.
Vote(p, c) == IF c.approve /\ c.id = room.proposal.id THEN {p} ELSE {}

\* What a command does to the proposal: it goes, is new with the proposer's agreement,
\* or stays with no agreement but the command's vote added; and only a proposal to which
\* all who stay in the game have agreed ends it.
VoteStep(p, c) ==
  /\ \/ room'.proposal = NoProposal
     \/ room.proposal = NoProposal /\ room'.proposal.agreed \subseteq {p}
     \/ /\ room.proposal # NoProposal /\ room'.proposal.id = room.proposal.id
        /\ room'.proposal.agreed \subseteq room.proposal.agreed \cup Vote(p, c)
  /\ room.conclusion = "none" /\ room'.conclusion = "agreed" =>
       /\ room.proposal # NoProposal /\ room'.proposal = NoProposal
       /\ Active(room') \subseteq room.proposal.agreed \cup Vote(p, c)

\* What every command of a connected player keeps.
CommandKeeps(p, c) ==
  /\ RoomGood(room')
  /\ room'.connected \subseteq conns
  /\ conns' = conns
  /\ resets' \subseteq resets \cup {p}
  /\ VoteStep(p, c)

\* A command that takes a snapshot of a good room, in which it has left the proposal and
\* the game's conclusion as they were.
LEMMA SnapshotKeeps ==
  ASSUME NEW p, NEW c, NEW r2, RoomGood(r2), room' = snapshot(r2),
         r2.connected \subseteq conns, r2.proposal = room.proposal,
         r2.conclusion = room.conclusion, conns' = conns, resets' \subseteq resets \cup {p}
  PROVE  CommandKeeps(p, c)
<1>1. /\ RoomGood(room') /\ room'.connected = r2.connected
      /\ room'.conclusion = room.conclusion
      /\ room'.proposal \in {room.proposal, NoProposal}
  BY SnapshotGood
<1>2. VoteStep(p, c)
  BY <1>1 DEF VoteStep
<1> QED BY <1>1, <1>2 DEF CommandKeeps

\* A room is opened by its first player.
LEMMA CreateKeeps ==
  ASSUME NEW p \in Players, NEW c, p \in conns, createRoom(p)
  PROVE  CommandKeeps(p, c)
<1> DEFINE r2 == [NoRoom EXCEPT !.players = <<p>>, !.connected = {p}, !.host = p]
<1>1. room = NoRoom /\ room' = r2 /\ conns' = conns /\ resets' = resets
  BY DEF createRoom
<1>2. NoRoom \in Rooms
  BY NoRoomFacts DEF RoomGood, RoomShape
<1>3. /\ r2.players = <<p>> /\ r2.connected = {p} /\ r2.host = p /\ r2.forfeited = {}
      /\ r2.phase = "lobby" /\ r2.proposal = NoProposal /\ r2.conclusion = "none"
  BY DEF NoRoom
<1>4. r2 \in Rooms
  <2> DEFINE s == <<p>>
             host == p
  <2>1. s \in Seq(Players) /\ {p} \in SUBSET Players /\ host \in Players \cup {NoOne}
    OBVIOUS
  <2> HIDE DEF s, host
  <2>2. [NoRoom EXCEPT !.players = s, !.connected = {p}, !.host = host] \in Rooms
    BY <1>2, <2>1 DEF Rooms
  <2> QED BY <2>2 DEF s, host
<1> HIDE DEF r2
<1>5. ToSet(<<p>>) = {p} /\ IsInjective(<<p>>) /\ Len(<<p>>) = 1
  BY DEF ToSet, IsInjective
<1>6. Active(r2) = {p}
  BY <1>3, <1>5 DEF Active, Seated
<1>7. RoomShape(r2)
  BY <1>3, <1>4, <1>5, <1>6 DEF RoomShape, maxPlayersPerRoom
<1>8. RoomNames(r2)
  BY <1>3, <1>6 DEF RoomNames, playing
<1>9. VoteStep(p, c)
  BY <1>1, <1>3 DEF VoteStep
<1> QED BY <1>1, <1>3, <1>7, <1>8, <1>9 DEF CommandKeeps, RoomGood

\* A player sits down on the next seat.
LEMMA AppendPlayer ==
  ASSUME NEW s \in Seq(Players), IsInjective(s), NEW p \in Players, p \notin ToSet(s)
  PROVE  /\ Append(s, p) \in Seq(Players) /\ IsInjective(Append(s, p))
         /\ ToSet(Append(s, p)) = ToSet(s) \cup {p}
         /\ Len(Append(s, p)) = Len(s) + 1
<1> DEFINE t == Append(s, p)
           n == Len(s)
<1>1. n \in Nat /\ DOMAIN s = 1 .. n
  BY LenProperties
<1>2. /\ t \in Seq(Players) /\ Len(t) = n + 1 /\ DOMAIN t = 1 .. (n + 1)
      /\ \A i \in 1 .. n : t[i] = s[i]
      /\ t[n + 1] = p
  BY AppendProperties, LenProperties
<1> HIDE DEF t, n
<1>3. \A i \in 1 .. (n + 1) : i \in 1 .. n \/ i = n + 1
  BY <1>1
<1>4. \A i \in 1 .. n : i \in 1 .. (n + 1)
  BY <1>1
<1>5. n + 1 \in 1 .. (n + 1)
  BY <1>1
<1>6. \A x : x \in ToSet(t) <=> x \in ToSet(s) \/ x = p
  BY <1>1, <1>2, <1>3, <1>4, <1>5 DEF ToSet
<1>7. ToSet(t) = ToSet(s) \cup {p}
  BY <1>6
<1>8. \A i \in 1 .. n : s[i] # p
  BY <1>1 DEF ToSet
<1>9. IsInjective(t)
  BY <1>1, <1>2, <1>3, <1>8 DEF IsInjective
<1> QED BY <1>2, <1>7, <1>9 DEF t, n

\* Joining.
LEMMA JoinKeeps ==
  ASSUME NEW p \in Players, NEW c, p \in conns, RoomGood(room), room.connected \subseteq conns,
         joinRoom(p)
  PROVE  CommandKeeps(p, c)
<1> DEFINE r2 == [room EXCEPT !.players = Append(@, p), !.connected = @ \cup {p}]
<1>1. /\ canJoin(room, p) /\ room' = snapshot(r2) /\ conns' = conns /\ resets' = resets
  BY DEF joinRoom
<1>2. /\ room \in Rooms /\ room # NoRoom /\ p \notin Active(room) /\ room.phase = "lobby"
      /\ Len(room.players) < 4 /\ room.forfeited = {} /\ room.proposal = NoProposal
      /\ room.conclusion = "none" /\ room.host \in Active(room)
      /\ IsInjective(room.players) /\ room.connected \subseteq Active(room)
  BY <1>1 DEF RoomGood, RoomShape, RoomNames, canJoin, maxPlayersPerRoom
<1>3. /\ r2.players = Append(room.players, p) /\ r2.connected = room.connected \cup {p}
      /\ r2.host = room.host /\ r2.forfeited = {} /\ r2.phase = "lobby"
      /\ r2.proposal = NoProposal /\ r2.conclusion = "none"
  BY <1>2 DEF Rooms
<1>4. room.players \in Seq(Players) /\ p \notin ToSet(room.players)
  BY <1>2 DEF Rooms, Active, Seated
<1>5. /\ r2.players \in Seq(Players) /\ IsInjective(r2.players)
      /\ ToSet(r2.players) = ToSet(room.players) \cup {p}
      /\ Len(r2.players) = Len(room.players) + 1
  BY <1>2, <1>3, <1>4, AppendPlayer
<1>6. r2 \in Rooms
  BY <1>2, <1>3, <1>5 DEF Rooms
<1> HIDE DEF r2
<1>7. Active(r2) = Active(room) \cup {p}
  BY <1>2, <1>3, <1>5 DEF Active, Seated
<1>8. Len(r2.players) <= 4
  <2>1. \A n \in Nat : n < 4 => n + 1 <= 4
    OBVIOUS
  <2>2. Len(room.players) \in Nat
    BY <1>4, LenProperties
  <2> QED BY <1>2, <1>5, <2>1, <2>2
<1>9. RoomShape(r2)
  BY <1>2, <1>3, <1>5, <1>6, <1>7, <1>8 DEF RoomShape, maxPlayersPerRoom
<1>10. RoomNames(r2)
  BY <1>2, <1>3, <1>7 DEF RoomNames, playing
<1>11. r2.connected \subseteq conns
  BY <1>3
<1> QED BY <1>1, <1>2, <1>3, <1>9, <1>10, <1>11, SnapshotKeeps DEF RoomGood

\* Leaving: somebody who stays is the host, or the room is gone.
LEMMA LeaveKeeps ==
  ASSUME NEW p \in Players, NEW c, RoomGood(room), room.connected \subseteq conns, leaveRoom(p)
  PROVE  CommandKeeps(p, c)
<1> DEFINE rest == remaining(room.players, {p})
           r2 == [room EXCEPT !.players = rest, !.connected = @ \ {p},
                              !.host = IF @ = p THEN rest[1] ELSE @,
                              !.dealer = 0, !.turn = 0]
<1>1. /\ p \in Active(room) /\ room.phase = "lobby"
      /\ room' = snapshot(leftRoom(room, p)) /\ conns' = conns /\ resets' = resets
  BY DEF leaveRoom, canLeave, sessionRoom
<1>2. /\ room \in Rooms /\ room # NoRoom /\ room.forfeited = {} /\ room.proposal = NoProposal
      /\ room.conclusion = "none" /\ room.host \in Active(room)
      /\ IsInjective(room.players) /\ room.connected \subseteq Active(room)
      /\ Len(room.players) <= 4 /\ room.players \in Seq(Players)
  BY <1>1, InRoom DEF RoomGood, RoomShape, RoomNames, maxPlayersPerRoom, Rooms
<1>3. /\ rest \in Seq(Players) /\ IsInjective(rest) /\ ToSet(rest) = ToSet(room.players) \ {p}
      /\ Len(rest) <= Len(room.players)
  BY <1>2, RemainingPlayers
<1>4. CASE rest = <<>>
  <2>1. leftRoom(room, p) = NoRoom
    BY <1>4 DEF leftRoom
  <2> QED BY <1>1, <1>2, <2>1, NoRoomFacts, SnapshotKeeps
<1>5. CASE rest # <<>>
  <2>1. leftRoom(room, p) = r2
    BY <1>5 DEF leftRoom
  <2> HIDE DEF rest
  <2>2. Len(rest) \in Nat \ {0} /\ DOMAIN rest = 1 .. Len(rest)
    BY <1>3, <1>5, EmptySeq, LenProperties
  <2>3. rest[1] \in ToSet(rest) /\ rest[1] \in Players
    <3>1. 1 \in DOMAIN rest
      BY <2>2
    <3> QED BY <1>3, <2>2, <3>1, ElementOfSeq DEF ToSet
  <2>4. /\ r2.players = rest /\ r2.connected = room.connected \ {p} /\ r2.forfeited = {}
        /\ r2.host = IF room.host = p THEN rest[1] ELSE room.host
        /\ r2.phase = "lobby" /\ r2.proposal = NoProposal /\ r2.conclusion = "none"
    BY <1>1, <1>2 DEF Rooms
  <2>5. r2 \in Rooms
    <3> DEFINE host == IF room.host = p THEN rest[1] ELSE room.host
               left == room.connected \ {p}
    <3>1. host \in Players \cup {NoOne} /\ left \in SUBSET Players /\ 0 \in 0 .. maxPlayersPerRoom
      BY <1>2, <2>3 DEF Rooms, maxPlayersPerRoom
    <3> HIDE DEF host, left
    <3>2. [room EXCEPT !.players = rest, !.connected = left, !.host = host,
                       !.dealer = 0, !.turn = 0] \in Rooms
      BY <1>2, <1>3, <3>1 DEF Rooms
    <3> QED BY <3>2 DEF host, left
  <2> HIDE DEF r2
  <2>6. Active(r2) = Active(room) \ {p} /\ Active(r2) = ToSet(rest)
    BY <1>2, <1>3, <2>4 DEF Active, Seated
  <2>7. Len(rest) <= 4
    <3>1. \A m, n \in Nat : m <= n /\ n <= 4 => m <= 4
      OBVIOUS
    <3> QED BY <1>2, <1>3, <3>1, LenProperties
  <2>8. RoomShape(r2)
    BY <1>2, <1>3, <2>4, <2>5, <2>6, <2>7 DEF RoomShape, maxPlayersPerRoom
  <2>9. RoomNames(r2)
    BY <1>2, <2>3, <2>4, <2>6 DEF RoomNames, playing
  <2>10. r2.connected \subseteq conns
    BY <2>4
  <2> QED BY <1>1, <1>2, <2>1, <2>4, <2>8, <2>9, <2>10, SnapshotKeeps DEF RoomGood
<1> QED BY <1>4, <1>5

\* Choosing who deals keeps the room but for its pending choice.
LEMMA PendingKeeps ==
  ASSUME NEW p \in Players, NEW c, RoomGood(room), room.connected \subseteq conns, p \in Active(room),
         NEW dealer \in 0 .. 4, NEW chooser \in 0 .. 4,
         room' = snapshot([room EXCEPT !.pending = [dealer |-> dealer, chooser |-> chooser]]),
         UNCHANGED <<conns, resets>>
  PROVE  CommandKeeps(p, c)
<1> DEFINE choice == [dealer |-> dealer, chooser |-> chooser]
           r2 == [room EXCEPT !.pending = choice]
<1>1. room \in Rooms /\ room # NoRoom
  BY InRoom DEF RoomGood, RoomShape
<1>2. choice \in [dealer : 0 .. maxPlayersPerRoom, chooser : 0 .. maxPlayersPerRoom]
  BY DEF maxPlayersPerRoom
<1> HIDE DEF choice
<1>3. r2 \in Rooms
  BY <1>1, <1>2 DEF Rooms
<1>4. /\ r2.players = room.players /\ r2.forfeited = room.forfeited /\ r2.host = room.host
      /\ r2.connected = room.connected /\ r2.phase = room.phase /\ r2.turn = room.turn
      /\ r2.conclusion = room.conclusion /\ r2.proposal = room.proposal
  BY <1>1 DEF Rooms
<1>5. room' = snapshot(r2)
  BY DEF choice
<1> HIDE DEF r2
<1>6. RoomGood(r2)
  BY <1>1, <1>3, <1>4, KeepsGood DEF RoomGood, RoomShape, RoomNames, playing
<1> QED BY <1>4, <1>5, <1>6, SnapshotKeeps

\* The first dealer is on a seat.
LEMMA StartKeeps ==
  ASSUME NEW p \in Players, NEW c, NEW dealer, RoomGood(room), room.connected \subseteq conns,
         startGame(p, dealer)
  PROVE  CommandKeeps(p, c)
<1> DEFINE n == Len(room.players)
           chooser == IF dealer = 1 THEN n ELSE dealer - 1
<1>1. /\ p \in Active(room) /\ dealer \in DOMAIN room.players
      /\ room' = snapshot([room EXCEPT !.pending = [dealer |-> dealer, chooser |-> chooser]])
      /\ UNCHANGED <<conns, resets>>
  BY DEF startGame, canStart, sessionRoom
<1>2. n \in 0 .. 4 /\ dealer \in 1 .. n
  BY <1>1, SeatFacts DEF RoomGood
<1> HIDE DEF n
<1>3. dealer \in 0 .. 4 /\ chooser \in 0 .. 4
  BY <1>2
<1> HIDE DEF chooser
<1> QED BY <1>1, <1>3, PendingKeeps

\* The next dealer is on a seat.
LEMMA NextRoundKeeps ==
  ASSUME NEW p \in Players, NEW c, RoomGood(room), room.connected \subseteq conns, startNextRound(p)
  PROVE  CommandKeeps(p, c)
<1> DEFINE dealer == nextActivePlayerIndex(room, room.dealer)
           chooser == previousActivePlayerIndex(room, dealer)
<1>1. /\ p \in Active(room)
      /\ room' = snapshot([room EXCEPT !.pending = [dealer |-> dealer, chooser |-> chooser]])
      /\ UNCHANGED <<conns, resets>>
  BY DEF startNextRound, canStartNextRound, sessionRoom
<1>2. room.dealer \in 0 .. 4 /\ RoomShape(room)
  BY DEF RoomGood, RoomShape, Rooms, maxPlayersPerRoom
<1>3. \A i \in activePlayerIndexes(room) : i \in 0 .. 4
  BY <1>2, SeatFacts
<1>4. dealer \in 0 .. 4
  BY <1>1, <1>2, <1>3, NextSeat
<1> HIDE DEF dealer
<1>5. chooser \in 0 .. 4
  BY <1>1, <1>2, <1>3, <1>4, NextSeat
<1> HIDE DEF chooser
<1> QED BY <1>1, <1>4, <1>5, PendingKeeps

\* Two active seats are two players.
LEMMA TwoSeats ==
  ASSUME NEW r, RoomShape(r), Cardinality(activePlayerIndexes(r)) >= 2
  PROVE  \E p, q \in Active(r) : p # q
<1> DEFINE A == activePlayerIndexes(r)
<1>1. /\ A \subseteq 1 .. 4 /\ A \subseteq DOMAIN r.players
      /\ \A i \in A : r.players[i] \in Active(r)
  BY SeatFacts
<1>2. IsFiniteSet(1 .. 4)
  <2>1. \A n \in Nat : IsFiniteSet(1 .. n)
    BY FS_Interval
  <2> QED BY <2>1
<1>3. IsFiniteSet(A) /\ Cardinality(A) \in Nat /\ Cardinality(A) >= 2
  BY <1>1, <1>2, FS_Subset, FS_CardinalityType
<1> HIDE DEF A
<1>4. Cardinality(A) # 0 /\ Cardinality(A) # 1
  BY <1>3
<1>5. A # {} /\ \A x : A # {x}
  BY <1>3, <1>4, FS_EmptySet, FS_Singleton
<1>6. PICK i \in A, j \in A : i # j
  BY <1>5
<1>7. r.players[i] # r.players[j]
  BY <1>1, <1>6 DEF RoomShape, IsInjective
<1> QED BY <1>1, <1>7

\* The deal starts a round with the turn of a player in the game, or ends it at once.
LEMMA DealKeeps ==
  ASSUME NEW p \in Players, NEW c, NEW deal, RoomGood(room), room.connected \subseteq conns,
         chooseDealing(p, deal)
  PROVE  CommandKeeps(p, c)
<1> DEFINE dealer == dealSeats(room).dealer
<1>1. /\ p \in Active(room) /\ Cardinality(activePlayerIndexes(room)) >= 2
      /\ dealer \in activePlayerIndexes(room) /\ UNCHANGED <<conns, resets>>
  BY DEF chooseDealing, canChooseDealing, validDeal, sessionRoom
<1>2. PICK phase \in {"in_progress", "round_over", "game_over"} :
        room' = snapshot([room EXCEPT
          !.phase = phase, !.pending = NoDeal, !.dealer = dealer,
          !.turn = IF phase = "in_progress" THEN nextActivePlayerIndex(room, dealer) ELSE @])
  BY DEF chooseDealing
<1> HIDE DEF dealer
<1> DEFINE turn == IF phase = "in_progress" THEN nextActivePlayerIndex(room, dealer) ELSE room.turn
           r2 == [room EXCEPT !.phase = phase, !.pending = NoDeal, !.dealer = dealer, !.turn = turn]
<1>3. room \in Rooms /\ room # NoRoom /\ RoomShape(room)
  BY <1>1, InRoom DEF RoomGood, RoomShape
<1>4. \A i \in activePlayerIndexes(room) : i \in 0 .. 4
  BY <1>3, SeatFacts
<1>5. /\ nextActivePlayerIndex(room, dealer) \in activePlayerIndexes(room)
      /\ dealer \in 0 .. maxPlayersPerRoom
  BY <1>1, <1>3, <1>4, NextSeat DEF maxPlayersPerRoom
<1>6. turn \in 0 .. maxPlayersPerRoom
  BY <1>3, <1>4, <1>5 DEF Rooms, maxPlayersPerRoom
<1>7. phase = "in_progress" => turn \in activePlayerIndexes(room)
  BY <1>5
<1>8. NoDeal \in [dealer : 0 .. maxPlayersPerRoom, chooser : 0 .. maxPlayersPerRoom]
  BY DEF NoDeal, maxPlayersPerRoom
<1>9. room' = snapshot(r2)
  BY <1>2
<1> HIDE DEF turn
<1>10. r2 \in Rooms
  BY <1>3, <1>5, <1>6, <1>8 DEF Rooms
<1>11. /\ r2.players = room.players /\ r2.forfeited = room.forfeited /\ r2.host = room.host
       /\ r2.connected = room.connected /\ r2.phase = phase /\ r2.turn = turn
       /\ r2.conclusion = room.conclusion /\ r2.proposal = room.proposal
  BY <1>3 DEF Rooms
<1> HIDE DEF r2
<1>12. \E a, b \in Active(room) : a # b
  BY <1>1, <1>3, TwoSeats
<1>13. r2.phase # "lobby"
  BY <1>2, <1>11
<1>14. RoomGood(r2)
  BY <1>3, <1>7, <1>10, <1>11, <1>12, <1>13, KeepsGood DEF RoomGood, RoomShape, RoomNames
<1> QED BY <1>1, <1>9, <1>11, <1>14, SnapshotKeeps

\* A turn stays, passes to a player in the game or ends the round.
LEMMA PlayKeeps ==
  ASSUME NEW p \in Players, NEW c, RoomGood(room), room.connected \subseteq conns, applyGameAction(p)
  PROVE  CommandKeeps(p, c)
<1>1. /\ p \in Active(room) /\ room.phase = "in_progress" /\ conns' = conns
      /\ resets' \subseteq resets \cup {p}
  BY DEF applyGameAction, canPlay, sessionRoom, broadcastActionSuccess
<1>2. room \in Rooms /\ room # NoRoom /\ RoomShape(room)
  BY <1>1, InRoom DEF RoomGood, RoomShape
<1>3. CASE room' = snapshot(room)
  BY <1>1, <1>3, SnapshotKeeps
<1>4. CASE room' = snapshot([room EXCEPT !.turn = nextActivePlayerIndex(room, @)])
  <2> DEFINE turn == nextActivePlayerIndex(room, room.turn)
             r2 == [room EXCEPT !.turn = turn]
  <2>1. room.turn \in 0 .. 4
    BY <1>2 DEF Rooms, maxPlayersPerRoom
  <2>2. turn \in activePlayerIndexes(room)
    BY <1>1, <1>2, <2>1, NextSeat
  <2>3. turn \in 0 .. maxPlayersPerRoom
    BY <1>2, <2>2, SeatFacts DEF maxPlayersPerRoom
  <2>4. room' = snapshot(r2)
    BY <1>4
  <2> HIDE DEF turn
  <2>5. r2 \in Rooms
    BY <1>2, <2>3 DEF Rooms
  <2>6. /\ r2.players = room.players /\ r2.forfeited = room.forfeited /\ r2.host = room.host
        /\ r2.connected = room.connected /\ r2.phase = room.phase /\ r2.turn = turn
        /\ r2.conclusion = room.conclusion /\ r2.proposal = room.proposal
    BY <1>2 DEF Rooms
  <2> HIDE DEF r2
  <2>7. RoomGood(r2)
    BY <1>2, <2>2, <2>5, <2>6, KeepsGood DEF RoomGood, RoomShape, RoomNames, playing
  <2> QED BY <1>1, <2>4, <2>6, <2>7, SnapshotKeeps
<1>5. ASSUME NEW phase \in {"round_over", "game_over"}, room' = snapshot([room EXCEPT !.phase = phase])
      PROVE  CommandKeeps(p, c)
  <2> DEFINE r2 == [room EXCEPT !.phase = phase]
  <2>1. r2 \in Rooms
    BY <1>2 DEF Rooms
  <2>2. /\ r2.players = room.players /\ r2.forfeited = room.forfeited /\ r2.host = room.host
        /\ r2.connected = room.connected /\ r2.phase = phase
        /\ r2.conclusion = room.conclusion /\ r2.proposal = room.proposal
    BY <1>2 DEF Rooms
  <2>3. room' = snapshot(r2)
    BY <1>5
  <2> HIDE DEF r2
  <2>4. \E a, b \in Active(room) : a # b
    BY <1>1 DEF RoomGood, RoomNames, playing
  <2>5. r2.phase # "lobby" /\ r2.phase # "in_progress"
    BY <1>5, <2>2
  <2>6. RoomGood(r2)
    BY <1>2, <2>1, <2>2, <2>4, <2>5, KeepsGood DEF RoomGood, RoomShape, RoomNames
  <2> QED BY <1>1, <2>2, <2>3, <2>6, SnapshotKeeps
<1> QED BY <1>3, <1>4, <1>5 DEF applyGameAction

\* The room without the player who forfeits, before anything else is seen to.
Gone(r, p) == [r EXCEPT !.forfeited = @ \cup {p}, !.connected = @ \ {p}]

\* Of two or more players who play, somebody is left.
LEMMA GoneFacts ==
  ASSUME NEW p \in Players, NEW r, RoomGood(r), p \in Active(r), playing(r)
  PROVE  /\ RoomShape(Gone(r, p))
         /\ Active(Gone(r, p)) = Active(r) \ {p}
         /\ Active(Gone(r, p)) # {}
         /\ activePlayerIndexes(Gone(r, p)) = {i \in activePlayerIndexes(r) : r.players[i] # p}
         /\ Cardinality(Active(Gone(r, p))) # 1 => \E a, b \in Active(Gone(r, p)) : a # b
<1> DEFINE g == Gone(r, p)
<1>1. r \in Rooms /\ RoomShape(r)
  BY DEF RoomGood, RoomShape
<1>2. /\ g.players = r.players /\ g.forfeited = r.forfeited \cup {p}
      /\ g.connected = r.connected \ {p}
  BY <1>1 DEF Gone, Rooms
<1>3. g \in Rooms
  <2> DEFINE out == r.forfeited \cup {p}
             here == r.connected \ {p}
  <2>1. out \in SUBSET Players /\ here \in SUBSET Players
    BY <1>1 DEF Rooms
  <2> HIDE DEF out, here
  <2>2. [r EXCEPT !.forfeited = out, !.connected = here] \in Rooms
    BY <1>1, <2>1 DEF Rooms
  <2> QED BY <2>2 DEF Gone, out, here
<1> HIDE DEF g
<1>4. Active(g) = Active(r) \ {p}
  BY <1>2 DEF Active, Seated
<1>5. RoomShape(g)
  BY <1>1, <1>2, <1>3, <1>4 DEF RoomShape
<1>6. \E a, b \in Active(r) : a # b
  BY DEF RoomGood, RoomNames
<1>7. Active(g) # {}
  BY <1>4, <1>6
<1>8. activePlayerIndexes(g) = {i \in activePlayerIndexes(r) : r.players[i] # p}
  BY <1>2, <1>4 DEF activePlayerIndexes
<1>9. ASSUME Cardinality(Active(g)) # 1 PROVE \E a, b \in Active(g) : a # b
  <2>1. PICK a \in Active(g) : TRUE
    BY <1>7
  <2>2. Active(g) # {a}
    BY <1>9, FS_Singleton
  <2> QED BY <2>1, <2>2
<1> QED BY <1>4, <1>5, <1>7, <1>8, <1>9 DEF g

\* The first active seat is one.
LEMMA FirstActive ==
  ASSUME NEW r, RoomShape(r), Active(r) # {}
  PROVE  transferHostToFirstActive(r) \in Active(r)
<1> DEFINE A == activePlayerIndexes(r)
           i == CHOOSE x \in A : \A y \in A : x <= y
<1>1. A \in SUBSET (1 .. 4) /\ A # {} /\ \A k \in A : r.players[k] \in Active(r)
  BY SeatFacts
<1> HIDE DEF A
<1>2. i \in A
  BY <1>1, ShortestStep
<1>3. transferHostToFirstActive(r) = r.players[i]
  BY DEF transferHostToFirstActive, A
<1> QED BY <1>1, <1>2, <1>3

\* What a forfeit leaves of a proposal is a proposal of those who stay.
LEMMA ProposalAfterForfeit ==
  ASSUME NEW r, NEW p, RoomGood(r), r.proposal # NoProposal,
         NEW q, q = removePlayerFromProposal(r.proposal, p), q # NoProposal
  PROVE  /\ q \in Proposals /\ q.eligible = Active(r) \ {p} /\ q.id = 1
         /\ q.proposer \in q.agreed /\ q.agreed \subseteq r.proposal.agreed
<1> DEFINE o == r.proposal
           e == o.eligible \ {p}
           a == o.agreed \ {p}
<1>1. /\ o \in Proposals /\ o.eligible = Active(r) /\ o.id = 1 /\ o.proposer \in o.agreed
  BY DEF RoomGood, RoomShape, RoomNames, Rooms
<1>2. o.proposer # p /\ q = [o EXCEPT !.eligible = e, !.agreed = a]
  BY DEF removePlayerFromProposal
<1>3. e \in SUBSET Players /\ a \in SUBSET Players
  BY <1>1 DEF Proposals
<1>4. e = Active(r) \ {p} /\ o.proposer \in a /\ a \subseteq o.agreed
  BY <1>1, <1>2
<1> HIDE DEF e, a, o
<1>5. /\ q \in Proposals /\ q.eligible = e /\ q.agreed = a /\ q.id = o.id
      /\ q.proposer = o.proposer
  BY <1>1, <1>2, <1>3 DEF Proposals
<1> QED BY <1>1, <1>4, <1>5 DEF o

\* Forfeiting: the host, the turn and the votes are those of players who stay.
LEMMA ForfeitGood ==
  ASSUME NEW p \in Players, RoomGood(room), p \in Active(room), playing(room),
         NEW r, r = forfeited(room, p)
  PROVE  /\ RoomGood(r) /\ r # NoRoom /\ r.phase # "lobby"
         /\ Active(r) = Active(room) \ {p}
         /\ r.connected \subseteq room.connected
         /\ r.conclusion \in {room.conclusion, "forfeit"}
         /\ \/ r.proposal = NoProposal
            \/ /\ room.proposal # NoProposal /\ r.proposal.id = room.proposal.id
               /\ r.proposal.eligible = Active(r)
               /\ r.proposal.agreed \subseteq room.proposal.agreed
<1> DEFINE g == Gone(room, p)
           last == Cardinality(Active(g)) = 1
           phase == IF last THEN "game_over" ELSE room.phase
           conclusion == IF last THEN "forfeit" ELSE room.conclusion
           turn == IF ~last /\ room.phase = "in_progress" /\ isCurrentTurn(room, p)
                   THEN nextActivePlayerIndex(g, room.turn) ELSE room.turn
           host == IF room.host = p THEN transferHostToFirstActive(g) ELSE room.host
           q == IF last THEN NoProposal
                ELSE IF room.proposal = NoProposal THEN NoProposal
                ELSE removePlayerFromProposal(room.proposal, p)
<1>1. /\ RoomShape(g) /\ Active(g) = Active(room) \ {p} /\ Active(g) # {}
      /\ activePlayerIndexes(g) = {i \in activePlayerIndexes(room) : room.players[i] # p}
      /\ ~last => \E a, b \in Active(g) : a # b
  BY GoneFacts
<1>2. /\ room \in Rooms /\ room # NoRoom /\ room.host \in Active(room)
      /\ room.phase = "in_progress" => room.turn \in activePlayerIndexes(room)
      /\ room.phase \in {"in_progress", "round_over"}
  BY InRoom DEF RoomGood, RoomShape, RoomNames, playing
<1>3. g \in Rooms /\ g.connected = room.connected \ {p} /\ g.forfeited = room.forfeited \cup {p}
      /\ g.players = room.players /\ g.phase = room.phase /\ g.conclusion = room.conclusion
      /\ g.turn = room.turn /\ g.host = room.host /\ g.proposal = room.proposal
  BY <1>1, <1>2 DEF RoomShape, Gone, Rooms
<1>4. r = [g EXCEPT !.phase = phase, !.conclusion = conclusion, !.turn = turn,
                    !.pending = NoDeal, !.host = host, !.proposal = q]
  BY <1>3 DEF forfeited, Gone
<1>5. host \in Active(g)
  BY <1>1, <1>2, FirstActive
<1>6. /\ turn \in 0 .. maxPlayersPerRoom
      /\ room.phase = "in_progress" /\ ~last => turn \in activePlayerIndexes(g)
  <2>1. room.turn \in 0 .. 4
    BY <1>2 DEF Rooms, maxPlayersPerRoom
  <2>2. nextActivePlayerIndex(g, room.turn) \in activePlayerIndexes(g)
    BY <1>1, <2>1, NextSeat
  <2>3. \A i \in activePlayerIndexes(g) : i \in 0 .. 4
    BY <1>1, SeatFacts
  <2>4. CASE room.phase = "in_progress" /\ ~isCurrentTurn(room, p)
    <3>1. room.turn \in activePlayerIndexes(room) /\ activePlayerIndexes(room) \subseteq 1 .. 4
      BY <1>2, <2>4, SeatFacts DEF RoomGood
    <3>2. room.turn \in activePlayerIndexes(room) /\ room.turn # 0
      BY <3>1
    <3>3. room.turn \in activePlayerIndexes(g)
      BY <1>1, <2>4, <3>2 DEF isCurrentTurn
    <3> QED BY <2>1, <2>4, <3>3 DEF maxPlayersPerRoom
  <2>5. CASE room.phase # "in_progress"
    BY <2>1, <2>5 DEF maxPlayersPerRoom
  <2>6. CASE room.phase = "in_progress" /\ isCurrentTurn(room, p)
    BY <2>1, <2>2, <2>3, <2>6 DEF maxPlayersPerRoom
  <2> QED BY <2>4, <2>5, <2>6
<1>7. \/ q = NoProposal
      \/ /\ room.proposal # NoProposal /\ q \in Proposals
         /\ q.eligible = Active(room) \ {p} /\ q.id = 1 /\ room.proposal.id = 1
         /\ q.proposer \in q.agreed /\ q.agreed \subseteq room.proposal.agreed
  <2>1. CASE q # NoProposal
    <3>1. room.proposal # NoProposal /\ q = removePlayerFromProposal(room.proposal, p)
      BY <2>1
    <3>2. room.proposal.id = 1
      BY <3>1 DEF RoomGood, RoomNames
    <3> HIDE DEF q
    <3> QED BY <2>1, <3>1, <3>2, ProposalAfterForfeit
  <2> QED BY <2>1
<1>8. q \in Proposals /\ NoDeal \in [dealer : 0 .. maxPlayersPerRoom, chooser : 0 .. maxPlayersPerRoom]
  BY <1>7, NoRoomFacts DEF NoDeal, maxPlayersPerRoom
<1>9. /\ phase \in {"in_progress", "round_over", "game_over"}
      /\ conclusion \in {room.conclusion, "forfeit"}
      /\ conclusion \in {"none", "forfeit", "agreed"}
  BY <1>2 DEF Rooms
<1>10. phase = "in_progress" => room.phase = "in_progress" /\ ~last
  OBVIOUS
<1>11. phase \in {"in_progress", "round_over"} => ~last
  OBVIOUS
<1>12. host \in Players
  BY <1>1, <1>5, SeatFacts
<1> HIDE DEF phase, conclusion, turn, host, q, last, g
<1>13. /\ r \in Rooms /\ r.players = g.players /\ r.forfeited = g.forfeited /\ r.host = host
       /\ r.connected = g.connected /\ r.phase = phase /\ r.turn = turn
       /\ r.conclusion = conclusion /\ r.proposal = q
  BY <1>3, <1>4, <1>6, <1>8, <1>9, <1>12 DEF Rooms
<1>14. Active(r) = Active(g) /\ activePlayerIndexes(r) = activePlayerIndexes(g)
  BY <1>13, SameSeats
<1>15. RoomShape(r)
  BY <1>1, <1>13, <1>14 DEF RoomShape
<1>16. r.phase # "lobby"
  BY <1>9, <1>13
<1>17. RoomNames(r)
  BY <1>1, <1>5, <1>6, <1>7, <1>10, <1>11, <1>13, <1>14, <1>16 DEF RoomNames, playing
<1>18. r # NoRoom
  BY <1>16 DEF NoRoom
<1> QED BY <1>1, <1>3, <1>7, <1>9, <1>13, <1>14, <1>15, <1>16, <1>17, <1>18 DEF RoomGood

\* A game that all have agreed to end is over, and nothing is proposed in it.
LEMMA EndedGood ==
  ASSUME NEW r, RoomGood(r), r # NoRoom
  PROVE  /\ RoomGood(endWithoutWinner(r)) /\ Active(endWithoutWinner(r)) = Active(r)
         /\ endWithoutWinner(r).proposal = NoProposal /\ endWithoutWinner(r).connected = r.connected
<1> DEFINE r2 == endWithoutWinner(r)
<1>1. r \in Rooms
  BY DEF RoomGood, RoomShape
<1>2. /\ r2 \in Rooms /\ r2.players = r.players /\ r2.forfeited = r.forfeited /\ r2.host = r.host
      /\ r2.connected = r.connected /\ r2.phase = "game_over" /\ r2.proposal = NoProposal
  BY <1>1, NoRoomFacts DEF Rooms, endWithoutWinner
<1> HIDE DEF r2
<1>3. RoomGood(r2)
  BY <1>2, KeepsGood DEF RoomGood, RoomShape, playing
<1> QED BY <1>2, <1>3, SameSeats DEF r2

\* Forfeiting.
LEMMA ForfeitKeeps ==
  ASSUME NEW p \in Players, NEW c, RoomGood(room), room.connected \subseteq conns, forfeitGame(p)
  PROVE  CommandKeeps(p, c)
<1> DEFINE r == forfeited(room, p)
           e == endWithoutWinner(r)
<1>1. /\ p \in Active(room) /\ playing(room) /\ conns' = conns /\ resets' \subseteq resets \cup {p}
      /\ room' = snapshot(IF unanimouslyApproved(r.proposal) THEN e ELSE r)
  BY DEF forfeitGame, canForfeit, sessionRoom, broadcastActionSuccess
<1>2. /\ RoomGood(r) /\ r # NoRoom /\ r.phase # "lobby"
      /\ Active(r) = Active(room) \ {p}
      /\ r.connected \subseteq room.connected
      /\ r.conclusion \in {room.conclusion, "forfeit"}
      /\ \/ r.proposal = NoProposal
         \/ /\ room.proposal # NoProposal /\ r.proposal.id = room.proposal.id
            /\ r.proposal.eligible = Active(r)
            /\ r.proposal.agreed \subseteq room.proposal.agreed
  BY <1>1, ForfeitGood
<1> HIDE DEF r
<1>3. CASE unanimouslyApproved(r.proposal)
  <2>1. /\ room.proposal # NoProposal /\ Active(r) \subseteq room.proposal.agreed
    BY <1>2, <1>3, NoRoomFacts DEF unanimouslyApproved
  <2>2. RoomGood(e) /\ Active(e) = Active(r) /\ e.proposal = NoProposal /\ e.connected = r.connected
    BY <1>2, EndedGood
  <2> HIDE DEF e
  <2>3. /\ RoomGood(room') /\ Active(room') = Active(r) /\ room'.proposal = NoProposal
        /\ room'.connected = r.connected
    BY <1>1, <1>3, <2>2, SnapshotGood
  <2>4. VoteStep(p, c)
    BY <2>1, <2>3 DEF VoteStep
  <2> QED BY <1>1, <1>2, <2>3, <2>4 DEF CommandKeeps
<1>4. CASE ~unanimouslyApproved(r.proposal)
  <2>1. /\ RoomGood(room') /\ room'.connected = r.connected /\ room'.conclusion = r.conclusion
        /\ room'.proposal \in {r.proposal, NoProposal}
    BY <1>1, <1>2, <1>4, SnapshotGood
  <2>2. VoteStep(p, c)
    BY <1>2, <2>1 DEF VoteStep
  <2> QED BY <1>1, <1>2, <2>1, <2>2 DEF CommandKeeps
<1> QED BY <1>3, <1>4

\* A proposal is made when there is none, and its proposer has agreed to it.
LEMMA ProposeKeeps ==
  ASSUME NEW p \in Players, NEW c, RoomGood(room), room.connected \subseteq conns,
         createEndProposal(p)
  PROVE  CommandKeeps(p, c)
<1> DEFINE q == newEndProposal(room, p)
           r2 == [room EXCEPT !.proposal = q]
<1>1. /\ p \in Active(room) /\ playing(room) /\ conns' = conns /\ resets' \subseteq resets \cup {p}
      /\ room' = r2
  BY DEF createEndProposal, canPropose, sessionRoom, broadcastActionSuccess
<1>2. room \in Rooms /\ room # NoRoom /\ RoomShape(room)
  BY <1>1, InRoom DEF RoomGood, RoomShape
<1>3. room.proposal = NoProposal
  <2>1. activeEndProposal(room).proposal = NoProposal /\ ~activeEndProposal(room).cooldown
    BY DEF createEndProposal, canPropose
  <2>2. CASE room.proposal.expired
    BY <1>2, <2>1, <2>2 DEF activeEndProposal, Rooms
  <2>3. CASE ~room.proposal.expired
    BY <2>1, <2>3 DEF activeEndProposal
  <2> QED BY <2>2, <2>3
<1>4. /\ q \in Proposals /\ q.eligible = Active(room) /\ q.id = 1 /\ q.proposer = p /\ q.agreed = {p}
  <2>1. Active(room) \in SUBSET Players /\ {p} \in SUBSET Players
    BY <1>2, SeatFacts
  <2> QED BY <2>1 DEF newEndProposal, Proposals
<1> HIDE DEF q
<1>5. /\ r2 \in Rooms /\ r2.players = room.players /\ r2.forfeited = room.forfeited
      /\ r2.host = room.host /\ r2.connected = room.connected /\ r2.phase = room.phase
      /\ r2.turn = room.turn /\ r2.conclusion = room.conclusion /\ r2.proposal = q
  BY <1>2, <1>4 DEF Rooms
<1> HIDE DEF r2
<1>6. r2.phase # "lobby"
  BY <1>1, <1>5 DEF playing
<1>7. RoomGood(r2)
  BY <1>2, <1>4, <1>5, <1>6, KeepsGood DEF RoomGood, RoomShape, RoomNames, playing
<1>8. VoteStep(p, c)
  BY <1>1, <1>3, <1>4, <1>5 DEF VoteStep
<1> QED BY <1>1, <1>5, <1>7, <1>8 DEF CommandKeeps

\* One more agreement with the present proposal.
LEMMA ApprovedGood ==
  ASSUME NEW p \in Players, NEW r, RoomGood(r), r # NoRoom, r.proposal # NoProposal,
         NEW r2, r2 = approved(r, p)
  PROVE  /\ RoomGood(r2) /\ r2 # NoRoom /\ Active(r2) = Active(r)
         /\ r2.connected = r.connected /\ r2.conclusion = r.conclusion
         /\ r2.proposal.id = r.proposal.id /\ r2.proposal.eligible = Active(r)
         /\ r2.proposal.agreed = r.proposal.agreed \cup {p}
<1> DEFINE votes == r.proposal.agreed \cup {p}
           q == [r.proposal EXCEPT !.agreed = votes]
<1>1. /\ r \in Rooms /\ r.proposal \in Proposals /\ r.phase # "lobby"
      /\ r.proposal.eligible = Active(r) /\ r.proposal.id = 1
      /\ r.proposal.proposer \in r.proposal.agreed
  BY DEF RoomGood, RoomShape, RoomNames, Rooms
<1>2. r2 = [r EXCEPT !.proposal = q]
  BY <1>1 DEF approved, Rooms
<1>3. votes \in SUBSET Players /\ r.proposal.agreed \subseteq votes
  BY <1>1 DEF Proposals
<1>4. votes = r.proposal.agreed \cup {p}
  OBVIOUS
<1> HIDE DEF votes
<1>5. /\ q \in Proposals /\ q.id = r.proposal.id /\ q.eligible = r.proposal.eligible
      /\ q.proposer = r.proposal.proposer /\ q.agreed = votes
  BY <1>1, <1>3 DEF Proposals
<1> HIDE DEF q
<1>6. /\ r2 \in Rooms /\ r2.players = r.players /\ r2.forfeited = r.forfeited
      /\ r2.host = r.host /\ r2.connected = r.connected /\ r2.phase = r.phase
      /\ r2.turn = r.turn /\ r2.conclusion = r.conclusion /\ r2.proposal = q
  BY <1>1, <1>2, <1>5 DEF Rooms
<1>7. Active(r2) = Active(r)
  BY <1>6, SameSeats
<1>8. r2 # NoRoom
  BY <1>1, <1>6 DEF NoRoom
<1>9. RoomGood(r2)
  BY <1>1, <1>3, <1>5, <1>6, KeepsGood DEF RoomGood, RoomShape, RoomNames, playing
<1> QED BY <1>1, <1>4, <1>5, <1>6, <1>7, <1>8, <1>9

\* A vote: refused, the last one or one more.
LEMMA VoteKeeps ==
  ASSUME NEW p \in Players, NEW c, RoomGood(room), room.connected \subseteq conns,
         c.approve \in BOOLEAN, voteEndGame(p, c.id, c.approve)
  PROVE  CommandKeeps(p, c)
<1> DEFINE a == approved(room, p)
<1>1. /\ p \in Active(room) /\ conns' = conns /\ resets' \subseteq resets \cup {p}
      /\ canVote(room, p, c.id)
  BY DEF voteEndGame, voteAccepted, canVote, sessionRoom, broadcastActionSuccess
<1>2. room \in Rooms /\ room # NoRoom /\ RoomShape(room)
  BY <1>1, InRoom DEF RoomGood, RoomShape
<1>3. room.proposal # NoProposal /\ c.id = room.proposal.id
  <2>1. /\ activeEndProposal(room).proposal # NoProposal
        /\ activeEndProposal(room).proposal.id = c.id
    BY <1>1 DEF canVote
  <2>2. CASE room.proposal.expired
    BY <1>2, <2>1, <2>2 DEF activeEndProposal, Rooms
  <2>3. CASE ~room.proposal.expired
    BY <2>1, <2>3 DEF activeEndProposal
  <2> QED BY <2>2, <2>3
<1>4. /\ RoomGood(a) /\ a # NoRoom /\ Active(a) = Active(room)
      /\ a.connected = room.connected /\ a.conclusion = room.conclusion
      /\ a.proposal.id = room.proposal.id /\ a.proposal.eligible = Active(room)
      /\ a.proposal.agreed = room.proposal.agreed \cup {p}
  BY <1>2, <1>3, ApprovedGood
<1>5. room' = IF ~c.approve
              THEN [room EXCEPT !.proposal = NoProposal, !.cooldown = TRUE]
              ELSE IF unanimouslyApproved(a.proposal)
              THEN [endWithoutWinner(a) EXCEPT !.pending = NoDeal]
              ELSE a
  BY DEF voteEndGame
<1> HIDE DEF a
<1>6. CASE ~c.approve
  <2> DEFINE r2 == [room EXCEPT !.proposal = NoProposal, !.cooldown = TRUE]
  <2>1. /\ r2 \in Rooms /\ r2.players = room.players /\ r2.forfeited = room.forfeited
        /\ r2.host = room.host /\ r2.connected = room.connected /\ r2.phase = room.phase
        /\ r2.turn = room.turn /\ r2.conclusion = room.conclusion /\ r2.proposal = NoProposal
    BY <1>2, NoRoomFacts DEF Rooms
  <2>2. room' = r2
    BY <1>5, <1>6
  <2> HIDE DEF r2
  <2>3. RoomGood(r2)
    BY <1>2, <2>1, KeepsGood DEF RoomGood, RoomShape, RoomNames, playing
  <2>4. VoteStep(p, c)
    BY <2>1, <2>2 DEF VoteStep
  <2> QED BY <1>1, <2>1, <2>2, <2>3, <2>4 DEF CommandKeeps
<1>7. CASE c.approve /\ unanimouslyApproved(a.proposal)
  <2> DEFINE e == endWithoutWinner(a)
             r2 == [e EXCEPT !.pending = NoDeal]
  <2>1. RoomGood(e) /\ Active(e) = Active(a) /\ e.proposal = NoProposal /\ e.connected = a.connected
    BY <1>4, EndedGood
  <2>2. e.phase = "game_over" /\ e \in Rooms
    <3>1. a \in Rooms
      BY <1>4 DEF RoomGood, RoomShape
    <3> QED BY <2>1, <3>1 DEF RoomGood, RoomShape, endWithoutWinner, Rooms
  <2>3. room' = r2
    BY <1>5, <1>7
  <2> HIDE DEF e
  <2>4. NoDeal \in [dealer : 0 .. maxPlayersPerRoom, chooser : 0 .. maxPlayersPerRoom]
    BY DEF NoDeal, maxPlayersPerRoom
  <2>5. /\ r2 \in Rooms /\ r2.players = e.players /\ r2.forfeited = e.forfeited
        /\ r2.host = e.host /\ r2.connected = e.connected /\ r2.phase = "game_over"
        /\ r2.conclusion = e.conclusion /\ r2.proposal = NoProposal
    BY <2>1, <2>2, <2>4 DEF Rooms
  <2> HIDE DEF r2
  <2>6. e # NoRoom
    BY <2>2 DEF NoRoom
  <2>7. RoomGood(r2)
    BY <2>1, <2>5, <2>6, KeepsGood DEF RoomGood, RoomShape, playing
  <2>8. Active(r2) = Active(room)
    BY <1>4, <2>1, <2>5, SameSeats
  <2>9. Active(room) \subseteq room.proposal.agreed \cup {p} /\ Vote(p, c) = {p}
    BY <1>3, <1>4, <1>7 DEF unanimouslyApproved, Vote
  <2>10. VoteStep(p, c)
    BY <1>3, <2>3, <2>5, <2>8, <2>9 DEF VoteStep
  <2> QED BY <1>1, <1>4, <2>1, <2>3, <2>5, <2>7, <2>10 DEF CommandKeeps
<1>8. CASE c.approve /\ ~unanimouslyApproved(a.proposal)
  <2>1. room' = a /\ Vote(p, c) = {p}
    BY <1>3, <1>5, <1>8 DEF Vote
  <2>2. VoteStep(p, c)
    BY <1>3, <1>4, <2>1 DEF VoteStep
  <2> QED BY <1>1, <1>4, <2>1, <2>2 DEF CommandKeeps
<1> QED BY <1>6, <1>7, <1>8

\* Every command keeps the room good.
LEMMA EveryCommandKeeps ==
  ASSUME NEW p \in Players, NEW c, RoomGood(room), room.connected \subseteq conns, p \in conns,
         c.approve \in BOOLEAN, applyCommand(p, c)
  PROVE  CommandKeeps(p, c)
<1>1. CASE createRoom(p)
  BY <1>1, CreateKeeps
<1>2. CASE joinRoom(p)
  BY <1>2, JoinKeeps
<1>3. CASE leaveRoom(p)
  BY <1>3, LeaveKeeps
<1>4. CASE startGame(p, c.seat)
  BY <1>4, StartKeeps
<1>5. CASE chooseDealing(p, c.deal)
  BY <1>5, DealKeeps
<1>6. CASE startNextRound(p)
  BY <1>6, NextRoundKeeps
<1>7. CASE applyGameAction(p)
  BY <1>7, PlayKeeps
<1>8. CASE forfeitGame(p)
  BY <1>8, ForfeitKeeps
<1>9. CASE createEndProposal(p)
  BY <1>9, ProposeKeeps
<1>10. CASE voteEndGame(p, c.id, c.approve)
  BY <1>10, VoteKeeps
<1> QED BY <1>1, <1>2, <1>3, <1>4, <1>5, <1>6, <1>7, <1>8, <1>9, <1>10 DEF applyCommand

-----------------------------------------------------------------------------
(***************************************************************************)
(* The commands on their way.                                              *)
(***************************************************************************)
\* No command on its way.
LEMMA EmptyBox == BoxGood(<<>>) /\ ToSet(<<>>) = {}
<1>1. ToSet(<<>>) = {}
  BY DEF ToSet
<1>2. <<>> \in Seq({})
  OBVIOUS
<1> QED BY <1>1, <1>2 DEF BoxGood

\* The next command is taken.
LEMMA TailBox ==
  ASSUME NEW s, BoxGood(s), s # <<>>
  PROVE  /\ BoxGood(Tail(s)) /\ ToSet(Tail(s)) \subseteq ToSet(s)
         /\ Head(s) \in ToSet(s)
<1> DEFINE S == ToSet(s)
           t == Tail(s)
           n == Len(s)
<1>1. s \in Seq(S) /\ (\A c \in S : IsCommand(c)) /\ \A i \in DOMAIN s : s[i] \in S
  BY DEF BoxGood, ToSet
<1> HIDE DEF S
<1>2. Head(s) \in S /\ t \in Seq(S)
  BY <1>1, HeadTailProperties
<1> HIDE DEF t
<1>3. Len(t) \in Nat /\ DOMAIN t = 1 .. Len(t) /\ t \in [1 .. Len(t) -> S]
  BY <1>2, LenProperties
<1>4. \A x \in ToSet(t) : x \in S
  BY <1>3 DEF ToSet
<1>5. t \in Seq(ToSet(t))
  BY <1>3 DEF ToSet
<1> QED BY <1>1, <1>2, <1>4, <1>5 DEF BoxGood, S, t

\* One more command is sent.
LEMMA AppendBox ==
  ASSUME NEW s, BoxGood(s), NEW c, IsCommand(c)
  PROVE  BoxGood(Append(s, c)) /\ ToSet(Append(s, c)) \subseteq ToSet(s) \cup {c}
<1> DEFINE S == ToSet(s) \cup {c}
           t == Append(s, c)
<1>1. s \in Seq(S) /\ \A x \in S : IsCommand(x)
  <2>1. s \in Seq(ToSet(s)) /\ ToSet(s) \subseteq S
    BY DEF BoxGood
  <2>2. \A x \in S : IsCommand(x)
    BY DEF BoxGood
  <2> HIDE DEF S
  <2>3. s \in Seq(S)
    BY <2>1
  <2> QED BY <2>2, <2>3
<1>2. c \in S
  OBVIOUS
<1> HIDE DEF S
<1>3. t \in Seq(S)
  BY <1>1, <1>2, AppendProperties
<1> HIDE DEF t
<1>4. Len(t) \in Nat /\ DOMAIN t = 1 .. Len(t) /\ t \in [1 .. Len(t) -> S]
  BY <1>3, LenProperties
<1>5. \A x \in ToSet(t) : x \in S
  BY <1>4 DEF ToSet
<1>6. t \in Seq(ToSet(t))
  BY <1>4 DEF ToSet
<1> QED BY <1>1, <1>5, <1>6 DEF BoxGood, S, t

\* The votes on their way are made votes for no present proposal.
LEMMA SupersededBox ==
  ASSUME NEW s, BoxGood(s), NEW t, t = [i \in DOMAIN s |-> [s[i] EXCEPT !.id = 0]]
  PROVE  /\ BoxGood(t) /\ (t # <<>> => s # <<>>)
         /\ \A c \in ToSet(t) : c.id = 0
<1>1. Len(s) \in Nat /\ DOMAIN s = 1 .. Len(s) /\ \A i \in DOMAIN s : IsCommand(s[i])
  BY LenProperties DEF BoxGood, ToSet
<1>2. DOMAIN t = 1 .. Len(s) /\ t = [i \in 1 .. Len(s) |-> t[i]]
  BY <1>1
<1>3. ASSUME NEW d, IsCommand(d)
      PROVE  IsCommand([d EXCEPT !.id = 0]) /\ [d EXCEPT !.id = 0].id = 0
  BY <1>3 DEF IsCommand
<1>4. \A i \in DOMAIN t : IsCommand(t[i]) /\ t[i].id = 0
  BY <1>1, <1>2, <1>3
<1>5. \A x \in ToSet(t) : IsCommand(x) /\ x.id = 0
  BY <1>4 DEF ToSet
<1>6. t \in [1 .. Len(s) -> ToSet(t)]
  BY <1>2 DEF ToSet
<1>7. t \in Seq(ToSet(t))
  BY <1>1, <1>6
<1>8. s = <<>> => t = <<>>
  OBVIOUS
<1> QED BY <1>5, <1>7, <1>8 DEF BoxGood

\* A control sends a command, over an open connection.
LEMMA ControlShape ==
  ASSUME NEW p, NEW c \in controls(p)
  PROVE  p \in conns /\ IsCommand(c)
<1>1. p \in conns
  BY DEF controls
<1> SUFFICES IsCommand(c)
  BY <1>1
<1>2. c \in lobbyControls(p) \/ c \in resultsControls(p) \/ c \in boardControls(p)
      \/ c \in panelControls(p) \/ c \in menuControls(p) \/ c \in voteControls(p)
  BY DEF controls
<1>3. \A type : IsCommand(Command(type))
  BY DEF IsCommand, Command
<1>4. ASSUME NEW d, IsCommand(d)
      PROVE  /\ \A x : IsCommand([d EXCEPT !.seat = x])
             /\ \A x : IsCommand([d EXCEPT !.deal = x])
             /\ \A x : IsCommand([d EXCEPT !.id = x])
             /\ \A x \in BOOLEAN : IsCommand([d EXCEPT !.approve = x])
  BY <1>4 DEF IsCommand
<1>5. ASSUME NEW d, IsCommand(d)
      PROVE  \A k : \A a \in BOOLEAN : IsCommand([d EXCEPT !.id = k, !.approve = a])
  <2> TAKE k
  <2> TAKE a \in BOOLEAN
  <2>1. IsCommand([d EXCEPT !.id = k])
    BY <1>4, <1>5
  <2>2. IsCommand([[d EXCEPT !.id = k] EXCEPT !.approve = a])
    BY <1>4, <2>1
  <2>3. [d EXCEPT !.id = k, !.approve = a] = [[d EXCEPT !.id = k] EXCEPT !.approve = a]
    OBVIOUS
  <2> QED BY <2>2, <2>3
<1>6. CASE c \in lobbyControls(p)
  <2>1. \/ \E type : c = Command(type)
        \/ \E i : c = [Command("start_game") EXCEPT !.seat = i]
    BY <1>6, Zenon DEF lobbyControls
  <2> QED BY <1>3, <1>4, <2>1
<1>7. CASE c \in resultsControls(p) \/ c \in boardControls(p) \/ c \in menuControls(p)
  BY <1>3, <1>7 DEF resultsControls, boardControls, menuControls
<1>8. CASE c \in panelControls(p)
  BY <1>3, <1>4, <1>8 DEF panelControls
<1>9. CASE c \in voteControls(p)
  <2>1. PICK a \in BOOLEAN :
          c = [Command("vote_end_game") EXCEPT !.id = room.proposal.id, !.approve = a]
    BY <1>9 DEF voteControls
  <2> QED BY <1>3, <1>5, <2>1
<1> QED BY <1>2, <1>6, <1>7, <1>8, <1>9

\* What a step that changes the boxes must keep of them.
LEMMA BoxesKept ==
  ASSUME NEW box, box = [q \in Players |-> box[q]],
         \A q \in Players : BoxGood(box[q]) /\ (box[q] # <<>> => q \in conns'),
         inbox' = box
  PROVE  InboxShape'
BY DEF InboxShape

\* Votes on a proposal that stays, or goes, are still known.
LEMMA VotesStay ==
  ASSUME VotesKnown, consents \subseteq consents',
         \/ room'.proposal = NoProposal
         \/ /\ room.proposal # NoProposal /\ room'.proposal.id = room.proposal.id
            /\ room'.proposal.agreed \subseteq room.proposal.agreed,
         \A q \in Players : ToSet(inbox'[q]) \subseteq ToSet(inbox[q])
  PROVE  VotesKnown'
BY DEF VotesKnown

-----------------------------------------------------------------------------
(***************************************************************************)
(* The induction.                                                          *)
(***************************************************************************)
\* What EndsByConsent says of one step.
ConsentStep ==
  room.conclusion = "none" /\ room'.conclusion = "agreed" => Active(room') \subseteq consents'

\* A command that is served, with the boxes it leaves and the approval it counts: the vote
\* it carries for the present proposal is a known one.
LEMMA ServedKeeps ==
  ASSUME RoomInv, NEW p \in Players, p \in conns, NEW c, NEW approve \in BOOLEAN,
         c.approve \in BOOLEAN, applyCommand(p, c), agreement(p, approve),
         room.proposal # NoProposal => Vote(p, c) \subseteq consents \cup (IF approve THEN {p} ELSE {}),
         NEW box, box = [q \in Players |-> box[q]], inbox' = superseded(box),
         \A q \in Players : /\ BoxGood(box[q]) /\ ToSet(box[q]) \subseteq ToSet(inbox[q])
                            /\ box[q] # <<>> => q \in conns
  PROVE  RoomInv' /\ ConsentStep
<1>1. CommandKeeps(p, c)
  BY EveryCommandKeeps DEF RoomInv
<1>2. /\ RoomGood(room') /\ room'.connected \subseteq conns' /\ conns' = conns
      /\ conns' \subseteq Players /\ resets' \subseteq Players /\ VoteStep(p, c)
  BY <1>1 DEF CommandKeeps, RoomInv
<1>3. CASE proposed
  <2>1. room.proposal = NoProposal /\ room'.proposal # NoProposal
    BY <1>3 DEF proposed
  <2>2. consents' = {p}
    BY <1>3 DEF agreement
  <2>3. room'.proposal.agreed \subseteq {p} /\ room'.proposal.id = 1
    BY <1>2, <2>1 DEF VoteStep, RoomGood, RoomNames
  <2>4. /\ inbox' = [q \in Players |-> inbox'[q]]
        /\ \A q \in Players : inbox'[q] = [i \in DOMAIN box[q] |-> [box[q][i] EXCEPT !.id = 0]]
    BY <1>3 DEF superseded
  <2>5. \A q \in Players : /\ BoxGood(inbox'[q]) /\ (inbox'[q] # <<>> => q \in conns')
                           /\ \A d \in ToSet(inbox'[q]) : d.id = 0
    <3> SUFFICES ASSUME NEW q \in Players
                 PROVE  /\ BoxGood(inbox'[q]) /\ (inbox'[q] # <<>> => q \in conns')
                        /\ \A d \in ToSet(inbox'[q]) : d.id = 0
      OBVIOUS
    <3>1. BoxGood(box[q]) /\ (box[q] # <<>> => q \in conns)
      OBVIOUS
    <3>2. inbox'[q] = [i \in DOMAIN box[q] |-> [box[q][i] EXCEPT !.id = 0]]
      BY <2>4
    <3>3. /\ BoxGood(inbox'[q]) /\ (inbox'[q] # <<>> => box[q] # <<>>)
          /\ \A d \in ToSet(inbox'[q]) : d.id = 0
      BY ONLY <3>1, <3>2, SupersededBox
    <3> QED BY <1>2, <3>1, <3>3
  <2>6. InboxShape'
    BY <2>4, <2>5 DEF InboxShape
  <2>7. VotesKnown'
    BY <2>2, <2>3, <2>5 DEF VotesKnown
  <2>8. ConsentStep
    BY <1>2, <2>1 DEF VoteStep, ConsentStep
  <2> QED BY <1>2, <2>6, <2>7, <2>8 DEF RoomInv
<1>4. CASE ~proposed
  <2>1. inbox' = box
    BY <1>4 DEF superseded
  <2>2. InboxShape'
    BY <1>2, <2>1, BoxesKept
  <2> DEFINE more == IF approve THEN {p} ELSE {}
  <2>3. \/ consents' = consents \cup more
        \/ room'.proposal = NoProposal /\ room'.conclusion = "none"
    BY <1>4 DEF agreement
  <2> HIDE DEF more
  <2>4. room.proposal # NoProposal =>
          room.proposal.agreed \cup Vote(p, c) \subseteq consents \cup more
    BY DEF RoomInv, VotesKnown, more
  <2>5. ConsentStep
    BY <1>2, <2>3, <2>4 DEF VoteStep, ConsentStep
  <2>6. VotesKnown'
    <3>1. CASE room'.proposal = NoProposal
      BY <3>1 DEF VotesKnown
    <3>2. CASE room'.proposal # NoProposal
      <4>1. room.proposal # NoProposal
        BY <1>4, <3>2 DEF proposed
      <4>2. /\ room'.proposal.id = room.proposal.id
            /\ room'.proposal.agreed \subseteq room.proposal.agreed \cup Vote(p, c)
        BY <1>2, <3>2, <4>1 DEF VoteStep
      <4>3. consents' = consents \cup more
        BY <2>3, <3>2
      <4>4. \A q \in Players : \A d \in ToSet(inbox'[q]) :
              d.approve /\ d.id = room.proposal.id => q \in consents
        BY <2>1, <4>1 DEF RoomInv, VotesKnown
      <4> QED BY <2>4, <4>1, <4>2, <4>3, <4>4 DEF VotesKnown
    <3> QED BY <3>1, <3>2
  <2> QED BY <1>2, <2>2, <2>5, <2>6 DEF RoomInv
<1> QED BY <1>3, <1>4

\* A command served at once.
LEMMA ActStep ==
  ASSUME RoomInv, NEW p \in Players, Act(p)
  PROVE  RoomInv' /\ ConsentStep
<1>1. PICK c \in controls(p) : applyCommand(p, c) /\ agreement(p, c.approve)
  BY DEF Act
<1>2. p \in conns /\ c.approve \in BOOLEAN
  BY ControlShape DEF IsCommand
<1>3. inbox' = superseded(inbox)
  BY DEF Act
<1>4. Vote(p, c) \subseteq consents \cup (IF c.approve THEN {p} ELSE {})
  BY DEF Vote
<1>5. inbox = [q \in Players |-> inbox[q]]
      /\ \A q \in Players : BoxGood(inbox[q]) /\ (inbox[q] # <<>> => q \in conns)
  BY DEF RoomInv, InboxShape
<1> QED BY <1>1, <1>2, <1>3, <1>4, <1>5, ServedKeeps

\* A command that was long on its way.
LEMMA ServeStep ==
  ASSUME RoomInv, NEW p \in Players, Serve(p)
  PROVE  RoomInv' /\ ConsentStep
<1> DEFINE c == Head(inbox[p])
           box == [inbox EXCEPT ![p] = Tail(@)]
<1>1. /\ inbox[p] # <<>> /\ applyCommand(p, c) /\ agreement(p, FALSE)
      /\ inbox' = superseded(box)
  BY DEF Serve
<1>2. inbox = [q \in Players |-> inbox[q]]
      /\ \A q \in Players : BoxGood(inbox[q]) /\ (inbox[q] # <<>> => q \in conns)
  BY DEF RoomInv, InboxShape
<1>3. /\ BoxGood(Tail(inbox[p])) /\ ToSet(Tail(inbox[p])) \subseteq ToSet(inbox[p])
      /\ c \in ToSet(inbox[p])
  BY <1>1, <1>2, TailBox
<1>4. p \in conns /\ c.approve \in BOOLEAN
  BY <1>1, <1>2, <1>3 DEF BoxGood, IsCommand
<1>5. room.proposal # NoProposal => Vote(p, c) \subseteq consents \cup (IF FALSE THEN {p} ELSE {})
  BY <1>3 DEF RoomInv, VotesKnown, Vote
<1>6. box = [q \in Players |-> box[q]]
      /\ \A q \in Players : box[q] = IF q = p THEN Tail(inbox[p]) ELSE inbox[q]
  BY <1>2
<1> HIDE DEF c, box
<1>7. \A q \in Players : /\ BoxGood(box[q]) /\ ToSet(box[q]) \subseteq ToSet(inbox[q])
                         /\ box[q] # <<>> => q \in conns
  BY <1>2, <1>3, <1>4, <1>6
<1> QED BY <1>1, <1>4, <1>5, <1>6, <1>7, ServedKeeps

\* A command is sent off.
LEMMA PressStep ==
  ASSUME RoomInv, NEW p \in Players, Press(p)
  PROVE  RoomInv' /\ ConsentStep
<1>1. PICK c \in controls(p) :
        /\ inbox' = [inbox EXCEPT ![p] = Append(@, c)]
        /\ consents' = IF c.approve THEN consents \cup {p} ELSE consents
  BY DEF Press
<1>2. room' = room /\ conns' = conns /\ resets' = resets
  BY DEF Press, roomVars
<1>3. p \in conns /\ IsCommand(c)
  BY ControlShape
<1>4. inbox = [q \in Players |-> inbox[q]]
      /\ \A q \in Players : BoxGood(inbox[q]) /\ (inbox[q] # <<>> => q \in conns)
  BY DEF RoomInv, InboxShape
<1>5. BoxGood(Append(inbox[p], c)) /\ ToSet(Append(inbox[p], c)) \subseteq ToSet(inbox[p]) \cup {c}
  BY <1>3, <1>4, AppendBox
<1>6. inbox' = [q \in Players |-> inbox'[q]]
      /\ \A q \in Players : inbox'[q] = IF q = p THEN Append(inbox[p], c) ELSE inbox[q]
  BY <1>1, <1>4
<1>7. InboxShape'
  BY <1>2, <1>3, <1>4, <1>5, <1>6 DEF InboxShape
<1>8. VotesKnown'
  <2> SUFFICES ASSUME room.proposal # NoProposal
               PROVE  /\ room.proposal.agreed \subseteq consents'
                      /\ \A q \in Players : \A d \in ToSet(inbox'[q]) :
                           d.approve /\ d.id = room.proposal.id => q \in consents'
    BY <1>2 DEF VotesKnown
  <2>1. consents \subseteq consents' /\ (c.approve => p \in consents')
    BY <1>1
  <2>2. /\ room.proposal.agreed \subseteq consents
        /\ \A q \in Players : \A d \in ToSet(inbox[q]) :
             d.approve /\ d.id = room.proposal.id => q \in consents
    BY DEF RoomInv, VotesKnown
  <2>3. \A q \in Players : \A d \in ToSet(inbox'[q]) : d \in ToSet(inbox[q]) \/ (q = p /\ d = c)
    BY <1>5, <1>6
  <2> QED BY <2>1, <2>2, <2>3
<1>9. ConsentStep
  BY <1>2 DEF ConsentStep
<1> QED BY <1>2, <1>7, <1>8, <1>9 DEF RoomInv

\* A command the server refuses.
LEMMA RefuseStep ==
  ASSUME RoomInv, NEW p \in Players, Refuse(p)
  PROVE  RoomInv' /\ ConsentStep
<1> DEFINE box == [inbox EXCEPT ![p] = Tail(@)]
<1>1. /\ inbox[p] # <<>> /\ inbox' = box
      /\ room' = room /\ conns' = conns /\ resets' = resets /\ consents' = consents
  BY DEF Refuse, roomVars
<1>2. inbox = [q \in Players |-> inbox[q]]
      /\ \A q \in Players : BoxGood(inbox[q]) /\ (inbox[q] # <<>> => q \in conns)
  BY DEF RoomInv, InboxShape
<1>3. BoxGood(Tail(inbox[p])) /\ ToSet(Tail(inbox[p])) \subseteq ToSet(inbox[p])
  BY <1>1, <1>2, TailBox
<1>4. box = [q \in Players |-> box[q]]
      /\ \A q \in Players : box[q] = IF q = p THEN Tail(inbox[p]) ELSE inbox[q]
  BY <1>2
<1> HIDE DEF box
<1>5. \A q \in Players : /\ BoxGood(box[q]) /\ ToSet(box[q]) \subseteq ToSet(inbox[q])
                         /\ box[q] # <<>> => q \in conns'
  BY <1>1, <1>2, <1>3, <1>4
<1>6. InboxShape'
  BY <1>1, <1>4, <1>5, BoxesKept
<1>7. VotesKnown'
  BY <1>1, <1>5, VotesStay DEF RoomInv
<1> QED BY <1>1, <1>6, <1>7 DEF RoomInv, ConsentStep

\* The room after a game: those who are still in it, with their host.
LEMMA ResetGood ==
  ASSUME NEW r, RoomGood(r), r # NoRoom
  PROVE  /\ RoomGood(resetForLobby(r)) /\ resetForLobby(r).connected = r.connected
         /\ resetForLobby(r).proposal = NoProposal /\ resetForLobby(r).conclusion = "none"
<1> DEFINE rest == remaining(r.players, r.forfeited)
           r2 == [NoRoom EXCEPT !.players = rest, !.connected = r.connected, !.host = r.host]
<1>1. /\ r \in Rooms /\ r.players \in Seq(Players) /\ IsInjective(r.players)
      /\ Len(r.players) <= 4 /\ r.connected \subseteq Active(r) /\ r.host \in Active(r)
      /\ r.connected \in SUBSET Players /\ r.host \in Players \cup {NoOne}
  BY DEF RoomGood, RoomShape, RoomNames, Rooms, maxPlayersPerRoom
<1>2. /\ rest \in Seq(Players) /\ IsInjective(rest) /\ ToSet(rest) = Active(r)
      /\ Len(rest) <= Len(r.players)
  BY <1>1, RemainingPlayers DEF Active, Seated
<1>3. Len(rest) <= 4
  <2>1. \A m, n \in Nat : m <= n /\ n <= 4 => m <= 4
    OBVIOUS
  <2> QED BY <1>1, <1>2, <2>1, LenProperties
<1> HIDE DEF rest
<1>4. resetForLobby(r) = r2
  BY <1>1, <1>2 DEF resetForLobby, rest
<1>5. NoRoom \in Rooms
  BY NoRoomFacts DEF RoomGood, RoomShape
<1>6. r2 \in Rooms
  BY <1>1, <1>2, <1>5 DEF Rooms
<1>7. /\ r2.players = rest /\ r2.connected = r.connected /\ r2.host = r.host
      /\ r2.forfeited = {} /\ r2.phase = "lobby" /\ r2.proposal = NoProposal
      /\ r2.conclusion = "none"
  BY DEF NoRoom
<1> HIDE DEF r2
<1>8. Active(r2) = Active(r)
  BY <1>2, <1>7 DEF Active, Seated
<1>9. RoomShape(r2)
  BY <1>1, <1>2, <1>3, <1>6, <1>7, <1>8 DEF RoomShape, maxPlayersPerRoom
<1>10. RoomNames(r2)
  BY <1>1, <1>7, <1>8 DEF RoomNames, playing
<1> QED BY <1>4, <1>7, <1>9, <1>10 DEF RoomGood

\* Another room under the same commands and consents.
LEMMA RoomChanges ==
  ASSUME RoomInv, RoomGood(room'), room'.connected \subseteq conns', conns' \subseteq Players,
         resets' \subseteq Players, consents \subseteq consents' \/ room'.proposal = NoProposal,
         room'.conclusion \in {room.conclusion, "none"},
         \/ room'.proposal = NoProposal
         \/ /\ room.proposal # NoProposal /\ room'.proposal.id = room.proposal.id
            /\ room'.proposal.agreed \subseteq room.proposal.agreed,
         InboxShape',
         \A q \in Players : ToSet(inbox'[q]) \subseteq ToSet(inbox[q])
  PROVE  RoomInv' /\ ConsentStep
<1>1. VotesKnown'
  <2>1. CASE room'.proposal = NoProposal
    BY <2>1 DEF VotesKnown
  <2>2. CASE room'.proposal # NoProposal
    BY <2>2, VotesStay DEF RoomInv
  <2> QED BY <2>1, <2>2
<1>2. ConsentStep
  BY DEF ConsentStep
<1> QED BY <1>1, <1>2 DEF RoomInv

\* The room is put back after its game.
LEMMA ResetStep ==
  ASSUME RoomInv, NEW p \in Players, Reset(p)
  PROVE  RoomInv' /\ ConsentStep
<1>1. /\ resets' = resets \ {p} /\ conns' = conns /\ inbox' = inbox
      /\ room' = IF room.phase = "game_over" THEN resetForLobby(room) ELSE room
      /\ consents' = IF room.phase = "game_over" THEN {} ELSE consents
  BY DEF Reset, resetRoomAfterGameOver
<1>2. /\ RoomGood(room) /\ room.connected \subseteq conns /\ conns \subseteq Players
      /\ resets' \subseteq Players
  BY <1>1 DEF RoomInv
<1>3. InboxShape'
  BY <1>1 DEF RoomInv, InboxShape
<1>4. CASE room.phase = "game_over"
  <2>1. room # NoRoom
    BY <1>4 DEF NoRoom
  <2>2. /\ RoomGood(room') /\ room'.connected = room.connected
        /\ room'.proposal = NoProposal /\ room'.conclusion = "none"
    BY <1>1, <1>2, <1>4, <2>1, ResetGood
  <2> QED BY <1>1, <1>2, <1>3, <2>2, RoomChanges
<1>5. CASE room.phase # "game_over"
  <2>1. room' = room /\ consents' = consents
    BY <1>1, <1>5
  <2> QED BY <1>1, <1>2, <1>3, <2>1, RoomChanges
<1> QED BY <1>4, <1>5

\* A player of the room comes or goes.
LEMMA ConnectedGood ==
  ASSUME NEW r, RoomGood(r), r # NoRoom, NEW S \in SUBSET Active(r)
  PROVE  /\ RoomGood([r EXCEPT !.connected = S])
         /\ [r EXCEPT !.connected = S].connected = S
         /\ [r EXCEPT !.connected = S].proposal = r.proposal
         /\ [r EXCEPT !.connected = S].conclusion = r.conclusion
<1> DEFINE r2 == [r EXCEPT !.connected = S]
<1>1. r \in Rooms /\ RoomShape(r)
  BY DEF RoomGood, RoomShape
<1>2. S \in SUBSET Players
  BY <1>1, SeatFacts
<1>3. /\ r2 \in Rooms /\ r2.players = r.players /\ r2.forfeited = r.forfeited /\ r2.host = r.host
      /\ r2.connected = S /\ r2.phase = r.phase /\ r2.turn = r.turn
      /\ r2.conclusion = r.conclusion /\ r2.proposal = r.proposal
  BY <1>1, <1>2 DEF Rooms
<1> HIDE DEF r2
<1>4. RoomGood(r2)
  BY <1>3, KeepsGood DEF RoomGood, RoomShape, RoomNames, playing
<1> QED BY <1>3, <1>4 DEF r2

\* A session connects or loses its connection: the room sees it when the player is in it.
LEMMA SeenGood ==
  ASSUME RoomGood(room), NEW p, NEW S \in SUBSET Active(room),
         room' = IF sessionRoom(room, p) THEN snapshot([room EXCEPT !.connected = S]) ELSE room
  PROVE  /\ RoomGood(room') /\ room'.conclusion = room.conclusion
         /\ room'.proposal \in {room.proposal, NoProposal}
         /\ room'.connected = IF p \in Active(room) THEN S ELSE room.connected
<1> DEFINE r2 == [room EXCEPT !.connected = S]
<1>1. CASE p \in Active(room)
  <2>1. /\ RoomGood(r2) /\ r2.connected = S /\ r2.proposal = room.proposal
        /\ r2.conclusion = room.conclusion
    BY <1>1, InRoom, ConnectedGood
  <2>2. room' = snapshot(r2)
    BY <1>1 DEF sessionRoom
  <2> HIDE DEF r2
  <2> QED BY <1>1, <2>1, <2>2, SnapshotGood
<1>2. CASE p \notin Active(room)
  BY <1>2 DEF sessionRoom
<1> QED BY <1>1, <1>2

\* A page connects.
LEMMA ConnectStep ==
  ASSUME RoomInv, NEW p \in Players, Connect(p)
  PROVE  RoomInv' /\ ConsentStep
<1>1. /\ conns' = conns \cup {p} /\ resets' = resets /\ inbox' = inbox /\ consents' = consents
      /\ room' = IF sessionRoom(room, p)
                 THEN snapshot([room EXCEPT !.connected = @ \cup {p}]) ELSE room
  BY DEF Connect, connectWithUser
<1>2. /\ RoomGood(room) /\ room \in Rooms /\ room.connected \subseteq Active(room)
      /\ room.connected \subseteq conns /\ conns \subseteq Players /\ resets \subseteq Players
  BY DEF RoomInv, RoomGood, RoomShape
<1>3. InboxShape'
  BY <1>1 DEF RoomInv, InboxShape
<1> DEFINE S == (room.connected \cup {p}) \cap Active(room)
<1>4. room' = IF sessionRoom(room, p) THEN snapshot([room EXCEPT !.connected = S]) ELSE room
  <2>1. CASE p \in Active(room)
    <3>1. S = room.connected \cup {p}
      BY <1>2, <2>1
    <3> HIDE DEF S
    <3> QED BY <1>1, <3>1
  <2>2. CASE p \notin Active(room)
    BY <1>1, <2>2 DEF sessionRoom
  <2> QED BY <2>1, <2>2
<1>5. S \in SUBSET Active(room) /\ S \subseteq conns'
  BY <1>1, <1>2
<1> HIDE DEF S
<1>6. /\ RoomGood(room') /\ room'.conclusion = room.conclusion
      /\ room'.proposal \in {room.proposal, NoProposal}
      /\ room'.connected \subseteq conns'
  BY <1>1, <1>2, <1>4, <1>5, SeenGood
<1> QED BY <1>1, <1>2, <1>3, <1>6, RoomChanges

\* A connection is lost, with the commands that were on it.
LEMMA DisconnectStep ==
  ASSUME RoomInv, NEW p \in Players, Disconnect(p)
  PROVE  RoomInv' /\ ConsentStep
<1> DEFINE S == room.connected \ {p}
           box == [inbox EXCEPT ![p] = <<>>]
<1>1. /\ conns' = conns \ {p} /\ resets' = resets /\ consents' = consents
      /\ inbox' = box
      /\ room' = IF sessionRoom(room, p) THEN snapshot([room EXCEPT !.connected = S]) ELSE room
  BY DEF Disconnect, disconnectWithEmitter
<1>2. /\ RoomGood(room) /\ room.connected \subseteq Active(room)
      /\ room.connected \subseteq conns /\ conns \subseteq Players /\ resets \subseteq Players
  BY DEF RoomInv, RoomGood, RoomShape
<1>3. S \in SUBSET Active(room) /\ S \subseteq conns' /\ (p \notin Active(room) => room.connected \subseteq S)
  BY <1>1, <1>2
<1> HIDE DEF S
<1>4. /\ RoomGood(room') /\ room'.conclusion = room.conclusion
      /\ room'.proposal \in {room.proposal, NoProposal}
      /\ room'.connected \subseteq conns'
  <2>1. /\ RoomGood(room') /\ room'.conclusion = room.conclusion
        /\ room'.proposal \in {room.proposal, NoProposal}
        /\ room'.connected = IF p \in Active(room) THEN S ELSE room.connected
    BY <1>1, <1>2, <1>3, SeenGood
  <2> QED BY <1>3, <2>1
<1>5. inbox = [q \in Players |-> inbox[q]]
      /\ \A q \in Players : BoxGood(inbox[q]) /\ (inbox[q] # <<>> => q \in conns)
  BY DEF RoomInv, InboxShape
<1>6. box = [q \in Players |-> box[q]]
      /\ \A q \in Players : box[q] = IF q = p THEN <<>> ELSE inbox[q]
  BY <1>5
<1> HIDE DEF box
<1>7. \A q \in Players : /\ BoxGood(box[q]) /\ ToSet(box[q]) \subseteq ToSet(inbox[q])
                         /\ box[q] # <<>> => q \in conns'
  BY <1>1, <1>5, <1>6, EmptyBox
<1>8. InboxShape'
  BY <1>1, <1>6, <1>7, BoxesKept
<1> QED BY <1>1, <1>2, <1>4, <1>7, <1>8, RoomChanges

\* Time passes for a proposal, or after one.
LEMMA TimeStep ==
  ASSUME RoomInv, Time
  PROVE  RoomInv' /\ ConsentStep
<1>1. conns' = conns /\ resets' = resets /\ inbox' = inbox /\ consents' = consents
  BY DEF Time, proposalExpires, cooldownEnds, screenVars
<1>2. /\ RoomGood(room) /\ room \in Rooms /\ room.connected \subseteq conns
      /\ conns \subseteq Players /\ resets \subseteq Players
  BY DEF RoomInv, RoomGood, RoomShape
<1>3. InboxShape'
  BY <1>1 DEF RoomInv, InboxShape
<1>4. CASE proposalExpires
  <2> DEFINE q == [room.proposal EXCEPT !.expired = TRUE]
             r2 == [room EXCEPT !.proposal = q]
  <2>1. room.proposal # NoProposal /\ room' = r2
    BY <1>2, <1>4 DEF proposalExpires, Rooms
  <2>2. room # NoRoom /\ room.phase # "lobby"
    BY <1>2, <2>1, NoRoomFacts DEF RoomGood, RoomNames
  <2>3. room.proposal \in Proposals
    BY <1>2 DEF Rooms
  <2>4. /\ q \in Proposals /\ q.id = room.proposal.id /\ q.eligible = room.proposal.eligible
        /\ q.agreed = room.proposal.agreed /\ q.proposer = room.proposal.proposer
    BY <2>3 DEF Proposals
  <2> HIDE DEF q
  <2>5. /\ r2 \in Rooms /\ r2.players = room.players /\ r2.forfeited = room.forfeited
        /\ r2.host = room.host /\ r2.connected = room.connected /\ r2.phase = room.phase
        /\ r2.turn = room.turn /\ r2.conclusion = room.conclusion /\ r2.proposal = q
    BY <1>2, <2>4 DEF Rooms
  <2> HIDE DEF r2
  <2>6. RoomGood(r2)
    BY <1>2, <2>1, <2>2, <2>4, <2>5, KeepsGood DEF RoomGood, RoomShape, RoomNames, playing
  <2> QED BY <1>1, <1>2, <1>3, <2>1, <2>4, <2>5, <2>6, RoomChanges
<1>5. CASE cooldownEnds
  <2> DEFINE r2 == [room EXCEPT !.cooldown = FALSE]
  <2>1. room.cooldown /\ room' = r2
    BY <1>5 DEF cooldownEnds
  <2>2. room # NoRoom
    BY <2>1 DEF NoRoom
  <2>3. /\ r2 \in Rooms /\ r2.players = room.players /\ r2.forfeited = room.forfeited
        /\ r2.host = room.host /\ r2.connected = room.connected /\ r2.phase = room.phase
        /\ r2.turn = room.turn /\ r2.conclusion = room.conclusion
        /\ r2.proposal = room.proposal
    BY <1>2 DEF Rooms
  <2> HIDE DEF r2
  <2>4. RoomGood(r2)
    BY <1>2, <2>2, <2>3, KeepsGood DEF RoomGood, RoomShape, RoomNames, playing
  <2> QED BY <1>1, <1>2, <1>3, <2>1, <2>3, <2>4, RoomChanges
<1> QED BY <1>4, <1>5 DEF Time

\* The server starts again.
LEMMA RestartStep ==
  ASSUME RoomInv, Restart
  PROVE  RoomInv' /\ ConsentStep
<1> DEFINE none == {}
<1>1. /\ conns' = {} /\ resets' = {} /\ consents' = consents
      /\ room' = [room EXCEPT !.connected = none]
      /\ inbox' = [q \in Players |-> <<>>]
  BY DEF Restart, restorePersistedState
<1>2. none \in SUBSET Active(room) /\ none = {}
  OBVIOUS
<1> HIDE DEF none
<1>3. RoomGood(room) /\ room \in Rooms
  BY DEF RoomInv, RoomGood, RoomShape
<1>4. /\ RoomGood(room') /\ room'.connected = {} /\ room'.conclusion = room.conclusion
      /\ room'.proposal = room.proposal
  <2>1. CASE room = NoRoom
    <3>1. room' = room
      <4>1. room.connected = none
        BY <1>2, <2>1, NoRoomFacts
      <4>2. [room EXCEPT !.connected = room.connected] = room
        BY <1>3 DEF Rooms
      <4> QED BY <1>1, <4>1, <4>2
    <3> QED BY <1>3, <2>1, <3>1, NoRoomFacts
  <2>2. CASE room # NoRoom
    BY <1>1, <1>2, <1>3, <2>2, ConnectedGood
  <2> QED BY <2>1, <2>2
<1>5. InboxShape'
  BY <1>1, EmptyBox DEF InboxShape
<1>6. \A q \in Players : ToSet(inbox'[q]) \subseteq ToSet(inbox[q])
  BY <1>1, EmptyBox
<1> QED BY <1>1, <1>4, <1>5, <1>6, RoomChanges

\* The first state.
LEMMA InitRoomInv == Init => RoomInv
<1> SUFFICES ASSUME Init PROVE RoomInv
  OBVIOUS
<1>1. /\ room = NoRoom /\ conns = {} /\ resets = {} /\ consents = {}
      /\ inbox = [p \in Players |-> <<>>]
  BY DEF Init, RoomInit
<1>2. InboxShape
  BY <1>1, EmptyBox DEF InboxShape
<1>3. VotesKnown
  BY <1>1, NoRoomFacts DEF VotesKnown
<1>4. RoomGood(room) /\ room.connected \subseteq conns
  BY <1>1, NoRoomFacts
<1> QED BY <1>1, <1>2, <1>3, <1>4 DEF RoomInv

\* Every step keeps the invariant and asks for consent.
LEMMA NextRoomInv == RoomInv /\ [Next]_vars => RoomInv' /\ ConsentStep
<1> SUFFICES ASSUME RoomInv, [Next]_vars PROVE RoomInv' /\ ConsentStep
  OBVIOUS
<1>1. CASE \E p \in Players : Act(p)
  BY <1>1, ActStep
<1>2. CASE \E p \in Players : Press(p)
  BY <1>2, PressStep
<1>3. CASE \E p \in Players : Serve(p)
  BY <1>3, ServeStep
<1>4. CASE \E p \in Players : Refuse(p)
  BY <1>4, RefuseStep
<1>5. CASE \E p \in Players : Reset(p)
  BY <1>5, ResetStep
<1>6. CASE \E p \in Players : Connect(p)
  BY <1>6, ConnectStep
<1>7. CASE \E p \in Players : Disconnect(p)
  BY <1>7, DisconnectStep
<1>8. CASE Time
  BY <1>8, TimeStep
<1>9. CASE Restart
  BY <1>9, RestartStep
<1>10. CASE UNCHANGED vars
  <2>1. /\ room' = room /\ conns' = conns /\ resets' = resets /\ inbox' = inbox
        /\ consents' = consents
    BY <1>10 DEF vars
  <2>2. RoomInv'
    BY <2>1 DEF RoomInv, InboxShape, VotesKnown
  <2> QED BY <2>1, <2>2 DEF ConsentStep
<1> QED BY <1>1, <1>2, <1>3, <1>4, <1>5, <1>6, <1>7, <1>8, <1>9, <1>10 DEF Next

\* What the invariant says of the names in the room.
LEMMA RoomInvImplies == RoomInv => TypeOK /\ RoomNamesPlayers
<1> SUFFICES ASSUME RoomInv PROVE TypeOK /\ RoomNamesPlayers
  OBVIOUS
<1>1. TypeOK
  BY DEF RoomInv, RoomGood, RoomShape, Rooms, Proposals, TypeOK
<1>2. RoomNamesPlayers
  BY DEF RoomInv, RoomGood, RoomNames, RoomNamesPlayers
<1> QED BY <1>1, <1>2

-----------------------------------------------------------------------------
(***************************************************************************)
(* The theorems.                                                           *)
(***************************************************************************)
\* The invariant holds through every command, lost connection and restart of the server.
THEOREM RoomCorrect == Spec => []RoomInv
BY InitRoomInv, NextRoomInv, PTL DEF Spec

\* The room, its connections and its handlers stay within their types; no player sits on
\* two seats, and nobody is connected to the room who has no connection.
THEOREM RoomTypeCorrect == Spec => []TypeOK
BY RoomCorrect, RoomInvImplies, PTL

\* leaveRoom, forfeitGame and resetForLobby never leave the room with a host, a turn or a
\* vote of somebody who is gone.
THEOREM RoomAlwaysNamesPlayers == Spec => []RoomNamesPlayers
BY RoomCorrect, RoomInvImplies, PTL

\* voteEndGame and forfeitGame end a game without a winner only when all who are still in
\* it have asked for that, whatever votes are still on their way.
THEOREM GamesEndByConsent == Spec => EndsByConsent
<1>1. RoomInv /\ [Next]_vars =>
        [room.conclusion = "none" /\ room'.conclusion = "agreed"
           => Active(room') \subseteq consents']_vars
  BY NextRoomInv DEF ConsentStep
<1> QED BY <1>1, RoomCorrect, PTL DEF Spec, EndsByConsent

-----------------------------------------------------------------------------
(***************************************************************************)
(* The order of the seats.  What a page enables is accepted only because   *)
(* the host is always the first of those still in the game: a game is      *)
(* started with the first seat as dealer and the last as chooser, and a    *)
(* player who leaves while that choice is open is refused.                 *)
(***************************************************************************)
\* The first seat of those still in the game is the host's.
HostIsFirst(r) ==
  \A i \in activePlayerIndexes(r) :
    (\A j \in activePlayerIndexes(r) : i <= j) => r.players[i] = r.host

\* Before a game the first seat deals and the last chooses how.
DealIsFirst(r) ==
  r.phase = "lobby" /\ r.pending # NoDeal =>
    r.pending = [dealer |-> 1, chooser |-> Len(r.players)] /\ Len(r.players) >= 2

RoomOrder(r) == HostIsFirst(r) /\ DealIsFirst(r)

\* A start on its way names the first seat too.
SeatGood(c) == c.type = "start_game" => c.seat = 1

SeatsInv ==
  /\ RoomOrder(room)
  /\ \A p \in Players : \A c \in ToSet(inbox[p]) : SeatGood(c)

\* Where nobody has forfeited every seat is in the game.
LEMMA AllSeats ==
  ASSUME NEW r, RoomShape(r), r.forfeited = {}
  PROVE  activePlayerIndexes(r) = 1 .. Len(r.players)
<1>1. DOMAIN r.players = 1 .. Len(r.players)
  BY SeatFacts
<1>2. \A i \in DOMAIN r.players : r.players[i] \in Active(r)
  BY DEF Active, Seated, ToSet
<1> QED BY <1>1, <1>2 DEF activePlayerIndexes

\* The host sits before all others who are still in the game.
LEMMA HostSeat ==
  ASSUME NEW r, RoomShape(r), HostIsFirst(r), Active(r) # {}
  PROVE  \E i \in activePlayerIndexes(r) :
           r.players[i] = r.host /\ \A j \in activePlayerIndexes(r) : i <= j
<1> DEFINE A == activePlayerIndexes(r)
<1>1. A \in SUBSET (1 .. 4) /\ A # {}
  BY SeatFacts
<1>2. PICK i \in A : \A j \in A : i <= j
  <2> HIDE DEF A
  <2> QED BY <1>1, ShortestStep
<1> QED BY <1>2 DEF HostIsFirst

\* With all seats in the game that is the first of them.
LEMMA HostOnFirst ==
  ASSUME NEW r, RoomShape(r), HostIsFirst(r), r.forfeited = {}, Active(r) # {}
  PROVE  /\ Len(r.players) \in 1 .. 4 /\ r.players[1] = r.host
         /\ \A j \in 1 .. Len(r.players) : r.players[j] = r.host => j = 1
<1>1. activePlayerIndexes(r) = 1 .. Len(r.players) /\ Len(r.players) \in 0 .. 4
      /\ DOMAIN r.players = 1 .. Len(r.players)
  BY AllSeats, SeatFacts
<1>2. PICK i \in 1 .. Len(r.players) : r.players[i] = r.host /\ \A j \in 1 .. Len(r.players) : i <= j
  BY <1>1, HostSeat
<1>3. Len(r.players) \in 1 .. 4 /\ i = 1
  BY <1>1, <1>2
<1> QED BY <1>1, <1>2, <1>3 DEF RoomShape, IsInjective

\* The converse, for a room whose seats have just changed.
LEMMA FirstIsHost ==
  ASSUME NEW r, RoomShape(r), r.forfeited = {}, r.players # <<>> => r.players[1] = r.host
  PROVE  HostIsFirst(r)
<1>1. activePlayerIndexes(r) = 1 .. Len(r.players) /\ Len(r.players) \in 0 .. 4
      /\ r.players \in Seq(Players)
  BY AllSeats, SeatFacts
<1>2. ASSUME NEW i \in 1 .. Len(r.players), \A j \in 1 .. Len(r.players) : i <= j
      PROVE  r.players[i] = r.host
  <2>1. 1 \in 1 .. Len(r.players) /\ Len(r.players) # 0
    BY <1>1
  <2>2. i = 1
    BY <1>1, <1>2, <2>1
  <2>3. r.players # <<>>
    BY <2>1
  <2> QED BY <2>2, <2>3
<1> QED BY <1>1, <1>2 DEF HostIsFirst

\* The first of those who stay keeps the first place.
LEMMA RemainingFirst ==
  ASSUME NEW S, NEW s \in Seq(S), NEW gone, NEW i \in DOMAIN s, s[i] \notin gone,
         \A j \in DOMAIN s : s[j] \notin gone => i <= j
  PROVE  remaining(s, gone)[1] = s[i]
<1> DEFINE kept == {j \in DOMAIN s : s[j] \notin gone}
           rank(k) == Cardinality({j \in kept : j <= k})
           n == Cardinality(kept)
           seat(k) == CHOOSE j \in kept : rank(j) = k
<1>1. Len(s) \in Nat /\ DOMAIN s = 1 .. Len(s)
  BY LenProperties
<1>2. IsFiniteSet(1 .. Len(s))
  BY <1>1, FS_Interval
<1>3. kept \in SUBSET (1 .. Len(s)) /\ i \in kept /\ \A j \in kept : i <= j
  BY <1>1
<1> HIDE DEF kept
<1>4. IsFiniteSet(kept) /\ n \in Nat
  BY <1>2, <1>3, FS_Subset, FS_CardinalityType
<1>5. n # 0
  BY <1>3, <1>4, FS_EmptySet
<1>6. rank(i) = 1
  <2>1. \A j \in kept : j <= i => j = i
    BY <1>3
  <2>2. i <= i
    BY <1>3
  <2>3. {j \in kept : j <= i} = {i}
    BY <1>3, <2>1, <2>2
  <2>4. Cardinality({i}) = 1
    BY FS_Singleton
  <2> QED BY <2>3, <2>4
<1>7. ASSUME NEW k \in kept, rank(k) = 1 PROVE k = i
  <2> DEFINE below == {j \in kept : j <= k}
  <2>1. k <= k
    BY <1>3
  <2>2. i \in below /\ k \in below /\ below \in SUBSET kept
    BY <1>3, <2>1
  <2>3. Cardinality(below) = 1
    BY <1>7
  <2> HIDE DEF below
  <2>4. IsFiniteSet(below)
    BY <1>4, <2>2, FS_Subset
  <2>5. PICK x : below = {x}
    BY <2>3, <2>4, FS_Singleton
  <2> QED BY <2>2, <2>5
<1> HIDE DEF rank
<1>8. seat(1) = i
  BY <1>3, <1>6, <1>7
<1>9. remaining(s, gone) = [k \in 1 .. n |-> s[seat(k)]]
  BY DEF remaining, seat, rank, n, kept
<1>10. 1 \in 1 .. n
  BY <1>4, <1>5
<1> HIDE DEF n, seat
<1> QED BY <1>8, <1>9, <1>10

\* A change that leaves seats, forfeits and host alone, and the choice before a game.
LEMMA SameOrder ==
  ASSUME NEW r, RoomOrder(r), NEW r2,
         r2.players = r.players, r2.forfeited = r.forfeited, r2.host = r.host,
         r2.phase = "lobby" => r.phase = "lobby" /\ r2.pending \in {r.pending, NoDeal}
  PROVE  RoomOrder(r2)
<1>1. activePlayerIndexes(r2) = activePlayerIndexes(r)
  BY SameSeats
<1>2. HostIsFirst(r2)
  BY <1>1 DEF RoomOrder, HostIsFirst
<1>3. DealIsFirst(r2)
  BY DEF RoomOrder, DealIsFirst
<1> QED BY <1>2, <1>3 DEF RoomOrder

\* A snapshot changes no seat and no choice.
LEMMA SnapshotOrder ==
  ASSUME NEW r, r \in Rooms, RoomOrder(r)
  PROVE  RoomOrder(snapshot(r))
<1> DEFINE r2 == snapshot(r)
<1>1. /\ r2.players = r.players /\ r2.forfeited = r.forfeited /\ r2.host = r.host
      /\ r2.phase = r.phase /\ r2.pending = r.pending
  BY DEF snapshot, activeEndProposal, Rooms
<1> HIDE DEF r2
<1>2. RoomOrder(r2)
  BY <1>1, SameOrder
<1> QED BY <1>2 DEF r2

\* The missing room.
LEMMA NoRoomOrder == RoomOrder(NoRoom)
<1>1. NoRoom.players = <<>> /\ NoRoom.pending = NoDeal
  BY DEF NoRoom
<1>2. activePlayerIndexes(NoRoom) = {}
  BY <1>1 DEF activePlayerIndexes
<1> QED BY <1>1, <1>2 DEF RoomOrder, HostIsFirst, DealIsFirst

\* The first player of a room is its host.
LEMMA CreateOrder ==
  ASSUME NEW p \in Players, RoomGood(room'), createRoom(p)
  PROVE  RoomOrder(room')
<1>1. /\ room'.players = <<p>> /\ room'.host = p /\ room'.forfeited = {}
      /\ room'.pending = NoDeal
  BY DEF createRoom, NoRoom
<1>2. HostIsFirst(room')
  BY <1>1, FirstIsHost DEF RoomGood
<1> QED BY <1>1, <1>2 DEF RoomOrder, DealIsFirst

\* Who joins sits behind the others.
LEMMA JoinOrder ==
  ASSUME NEW p \in Players, RoomGood(room), RoomOrder(room), RoomGood(room'), joinRoom(p)
  PROVE  RoomOrder(room')
<1> DEFINE s == room.players
<1>1. /\ room \in Rooms /\ RoomShape(room) /\ room # NoRoom /\ room.phase = "lobby"
      /\ room.forfeited = {} /\ room.pending = NoDeal /\ room.host \in Active(room)
      /\ s \in Seq(Players)
  BY DEF joinRoom, canJoin, RoomGood, RoomShape, RoomNames, Rooms
<1>2. /\ room'.players = Append(s, p) /\ room'.forfeited = {} /\ room'.host = room.host
      /\ room'.pending = NoDeal
  BY <1>1 DEF joinRoom, snapshot, activeEndProposal, Rooms
<1>3. Len(s) \in 1 .. 4 /\ s[1] = room.host
  BY <1>1, HostOnFirst DEF RoomOrder
<1>4. Append(s, p)[1] = s[1]
  BY <1>1, <1>3, AppendProperties
<1>5. HostIsFirst(room')
  BY <1>2, <1>3, <1>4, FirstIsHost DEF RoomGood
<1> QED BY <1>2, <1>5 DEF RoomOrder, DealIsFirst

\* Without one of its players a list is shorter.
LEMMA ShorterRest ==
  ASSUME NEW s \in Seq(Players), IsInjective(s), NEW p \in ToSet(s)
  PROVE  Len(remaining(s, {p})) < Len(s)
<1> DEFINE kept == {i \in DOMAIN s : s[i] \notin {p}}
<1>1. Len(s) \in Nat /\ DOMAIN s = 1 .. Len(s)
  BY LenProperties
<1>2. IsFiniteSet(1 .. Len(s)) /\ Cardinality(1 .. Len(s)) = Len(s)
  BY <1>1, FS_Interval
<1>3. kept \in SUBSET (1 .. Len(s)) /\ kept # 1 .. Len(s)
  BY <1>1 DEF ToSet
<1>4. DOMAIN remaining(s, {p}) = 1 .. Cardinality(kept)
  BY DEF remaining
<1> HIDE DEF kept
<1>5. Cardinality(kept) \in Nat /\ Cardinality(kept) < Len(s)
  <2>1. Cardinality(kept) \in Nat /\ Cardinality(kept) <= Len(s) /\ Cardinality(kept) # Len(s)
    BY <1>2, <1>3, FS_Subset, FS_CardinalityType
  <2> QED BY <1>1, <2>1
<1>6. remaining(s, {p}) \in Seq(Players)
  BY RemainingPlayers
<1>7. Len(remaining(s, {p})) = Cardinality(kept)
  BY <1>4, <1>5, <1>6, LenProperties
<1> QED BY <1>5, <1>7

\* The next player becomes host when the host leaves; nobody leaves while the chooser of a
\* deal would be beyond the last seat.
LEMMA LeaveOrder ==
  ASSUME NEW p \in Players, RoomGood(room), RoomOrder(room), RoomGood(room'), leaveRoom(p)
  PROVE  RoomOrder(room')
<1> DEFINE s == room.players
           rest == remaining(s, {p})
<1>1. /\ p \in Active(room) /\ room.phase = "lobby" /\ room' = snapshot(leftRoom(room, p))
      /\ ~snapshotPanics(leftRoom(room, p))
  BY DEF leaveRoom, canLeave, sessionRoom
<1>2. /\ room \in Rooms /\ RoomShape(room) /\ room.forfeited = {} /\ s \in Seq(Players)
      /\ IsInjective(s) /\ p \in ToSet(s)
  BY <1>1 DEF RoomGood, RoomShape, RoomNames, Rooms, Active, Seated
<1>3. /\ Len(s) \in 1 .. 4 /\ s[1] = room.host
      /\ \A j \in 1 .. Len(s) : s[j] = room.host => j = 1
  BY <1>1, <1>2, HostOnFirst DEF RoomOrder
<1>4. rest \in Seq(Players) /\ Len(rest) < Len(s) /\ Len(rest) \in Nat
  BY <1>2, RemainingPlayers, ShorterRest, LenProperties
<1>5. CASE rest = <<>>
  <2>1. leftRoom(room, p) = NoRoom
    BY <1>5 DEF leftRoom
  <2>2. NoRoom \in Rooms
    BY NoRoomFacts DEF RoomGood, RoomShape
  <2> QED BY <1>1, <2>1, <2>2, NoRoomOrder, SnapshotOrder
<1>6. CASE rest # <<>>
  <2>1. leftRoom(room, p) = [room EXCEPT !.players = rest, !.connected = @ \ {p},
                                        !.host = IF @ = p THEN rest[1] ELSE @,
                                        !.dealer = 0, !.turn = 0]
    BY <1>6 DEF leftRoom
  <2> HIDE DEF rest
  <2>2. leftRoom(room, p).pending = room.pending /\ leftRoom(room, p).players = rest
    BY <1>2, <2>1 DEF Rooms
  <2>3. room.pending = NoDeal
    <3>1. ~(room.pending.chooser > Len(rest))
      BY <1>1, <2>2 DEF snapshotPanics
    <3>2. room.pending # NoDeal => room.pending.chooser = Len(s)
      BY <1>1 DEF RoomOrder, DealIsFirst
    <3> QED BY <1>3, <1>4, <3>1, <3>2
  <2>4. /\ room'.players = rest /\ room'.forfeited = {} /\ room'.pending = NoDeal
        /\ room'.host = IF room.host = p THEN rest[1] ELSE room.host
    BY <1>1, <1>2, <2>1, <2>3 DEF snapshot, activeEndProposal, Rooms
  <2>5. room.host # p => rest[1] = room.host
    <3> SUFFICES ASSUME room.host # p PROVE rest[1] = room.host
      OBVIOUS
    <3>1. DOMAIN s = 1 .. Len(s)
      BY <1>2, LenProperties
    <3>2. 1 \in DOMAIN s /\ s[1] \notin {p} /\ \A j \in DOMAIN s : 1 <= j
      BY <1>3, <3>1
    <3>3. remaining(s, {p})[1] = s[1]
      BY <1>2, <3>2, RemainingFirst
    <3> QED BY <1>3, <3>3 DEF rest
  <2>6. HostIsFirst(room')
    BY <2>4, <2>5, FirstIsHost DEF RoomGood
  <2> QED BY <2>4, <2>6 DEF RoomOrder, DealIsFirst
<1> QED BY <1>5, <1>6

\* The deal before a game is chosen by the last seat when the first deals.
LEMMA StartOrder ==
  ASSUME NEW p \in Players, RoomGood(room), RoomOrder(room), startGame(p, 1)
  PROVE  RoomOrder(room')
<1> DEFINE choice == [dealer |-> 1, chooser |-> Len(room.players)]
           r2 == [room EXCEPT !.pending = choice]
<1>1. room' = snapshot(r2) /\ Len(room.players) >= 2
  BY DEF startGame, canStart, minPlayersToStart
<1>2. room \in Rooms /\ Len(room.players) \in 0 .. 4
  BY SeatFacts DEF RoomGood, RoomShape
<1>3. choice \in [dealer : 0 .. maxPlayersPerRoom, chooser : 0 .. maxPlayersPerRoom]
  BY <1>2 DEF maxPlayersPerRoom
<1> HIDE DEF choice
<1>4. /\ r2 \in Rooms /\ r2.players = room.players /\ r2.forfeited = room.forfeited
      /\ r2.host = room.host /\ r2.pending = choice
  BY <1>2, <1>3 DEF Rooms
<1> HIDE DEF r2
<1>5. activePlayerIndexes(r2) = activePlayerIndexes(room)
  BY <1>4, SameSeats
<1>6. RoomOrder(r2)
  BY <1>1, <1>4, <1>5 DEF RoomOrder, HostIsFirst, DealIsFirst, choice
<1> QED BY <1>1, <1>4, <1>6, SnapshotOrder

\* The commands of a game leave the seats alone.
LEMMA GameOrder ==
  ASSUME NEW p \in Players, NEW c, RoomGood(room), RoomOrder(room), RoomGood(room'),
         \/ startNextRound(p) \/ chooseDealing(p, c.deal) \/ applyGameAction(p)
         \/ createEndProposal(p) \/ voteEndGame(p, c.id, c.approve)
  PROVE  RoomOrder(room')
<1>1. room \in Rooms
  BY DEF RoomGood, RoomShape
<1>2. CASE startNextRound(p)
  <2>1. /\ room'.players = room.players /\ room'.forfeited = room.forfeited
        /\ room'.host = room.host /\ room'.phase # "lobby"
    BY <1>1, <1>2 DEF startNextRound, canStartNextRound, snapshot, activeEndProposal, Rooms
  <2> QED BY <2>1, SameOrder
<1>3. CASE chooseDealing(p, c.deal)
  <2>1. /\ room'.players = room.players /\ room'.forfeited = room.forfeited
        /\ room'.host = room.host /\ room'.phase # "lobby"
    BY <1>1, <1>3 DEF chooseDealing, snapshot, activeEndProposal, Rooms
  <2> QED BY <2>1, SameOrder
<1>4. CASE applyGameAction(p)
  <2>1. /\ room'.players = room.players /\ room'.forfeited = room.forfeited
        /\ room'.host = room.host /\ room'.phase # "lobby"
    BY <1>1, <1>4 DEF applyGameAction, canPlay, snapshot, activeEndProposal, Rooms
  <2> QED BY <2>1, SameOrder
<1>5. CASE createEndProposal(p)
  <2>1. /\ room'.players = room.players /\ room'.forfeited = room.forfeited
        /\ room'.host = room.host /\ room'.phase = room.phase /\ room'.pending = room.pending
    BY <1>1, <1>5 DEF createEndProposal, Rooms
  <2> QED BY <2>1, SameOrder
<1>6. CASE voteEndGame(p, c.id, c.approve)
  <2>1. /\ room'.players = room.players /\ room'.forfeited = room.forfeited
        /\ room'.host = room.host
        /\ \/ room'.phase = "game_over"
           \/ room'.phase = room.phase /\ room'.pending = room.pending
    BY <1>1, <1>6 DEF voteEndGame, approved, endWithoutWinner, Rooms
  <2> QED BY <2>1, SameOrder
<1> QED BY <1>2, <1>3, <1>4, <1>5, <1>6

\* The first of those who stay becomes host when the host forfeits.
LEMMA ForfeitOrder ==
  ASSUME NEW p \in Players, RoomGood(room), RoomOrder(room), RoomGood(room'), forfeitGame(p)
  PROVE  RoomOrder(room')
<1> DEFINE g == Gone(room, p)
           r == forfeited(room, p)
           A == activePlayerIndexes(room)
           B == activePlayerIndexes(g)
<1>1. /\ p \in Active(room) /\ playing(room)
      /\ room' = snapshot(IF unanimouslyApproved(r.proposal) THEN endWithoutWinner(r) ELSE r)
  BY DEF forfeitGame, canForfeit, sessionRoom
<1>2. /\ RoomShape(g) /\ Active(g) # {} /\ B = {i \in A : room.players[i] # p}
  BY <1>1, GoneFacts
<1>3. RoomGood(r) /\ r # NoRoom /\ r.phase # "lobby"
  BY <1>1, ForfeitGood
<1>4. room \in Rooms /\ RoomShape(room)
  BY DEF RoomGood, RoomShape
<1>5. /\ r.players = room.players /\ r.forfeited = g.forfeited /\ g.players = room.players
      /\ r.host = IF room.host = p THEN transferHostToFirstActive(g) ELSE room.host
  BY <1>4 DEF forfeited, Gone, Rooms
<1>6. activePlayerIndexes(r) = B
  BY <1>5, SameSeats
<1> HIDE DEF r, g
<1>7. ASSUME NEW i \in B, \A j \in B : i <= j PROVE room.players[i] = r.host
  <2>1. /\ A \in SUBSET (1 .. 4) /\ B \in SUBSET (1 .. 4)
    BY <1>2, <1>4, SeatFacts
  <2>2. CASE room.host = p
    <3> HIDE DEF B
    <3>1. (CHOOSE x \in B : \A y \in B : x <= y) = i
      <4> DEFINE k == CHOOSE x \in B : \A y \in B : x <= y
      <4>1. k \in B /\ \A y \in B : k <= y
        BY <1>7
      <4> HIDE DEF k
      <4>2. k <= i /\ i <= k /\ k \in Int /\ i \in Int
        BY <1>7, <2>1, <4>1
      <4>3. k = i
        BY <4>2
      <4> QED BY <4>3 DEF k
    <3>2. transferHostToFirstActive(g) = g.players[i]
      BY <3>1 DEF transferHostToFirstActive, B
    <3> QED BY <1>5, <2>2, <3>2
  <2>3. CASE room.host # p
    <3>1. PICK k \in A : room.players[k] = room.host /\ \A j \in A : k <= j
      BY <1>1, <1>4, HostSeat DEF RoomOrder
    <3>2. k \in B
      BY <1>2, <2>3, <3>1
    <3>3. i <= k /\ k <= i /\ k \in Int /\ i \in Int
      BY <1>2, <1>7, <2>1, <3>1, <3>2
    <3>4. i = k
      BY <3>3
    <3> QED BY <1>5, <2>3, <3>1, <3>4
  <2> QED BY <2>2, <2>3
<1>8. RoomOrder(r)
  BY <1>3, <1>5, <1>6, <1>7 DEF RoomOrder, HostIsFirst, DealIsFirst
<1>9. r \in Rooms
  BY <1>3 DEF RoomGood, RoomShape
<1>10. RoomOrder(endWithoutWinner(r)) /\ endWithoutWinner(r) \in Rooms
  <2>1. LET e == endWithoutWinner(r)
        IN  e.players = r.players /\ e.forfeited = r.forfeited /\ e.host = r.host
            /\ e.phase = "game_over"
    BY <1>9 DEF endWithoutWinner, Rooms
  <2>2. RoomOrder(endWithoutWinner(r))
    BY <1>8, <2>1, SameOrder
  <2> QED BY <1>3, <2>2, EndedGood DEF RoomGood, RoomShape
<1> QED BY <1>1, <1>8, <1>9, <1>10, SnapshotOrder DEF r

\* Every command that starts a game, if any, with the first seat.
LEMMA CommandOrder ==
  ASSUME NEW p \in Players, NEW c, RoomGood(room), RoomOrder(room), RoomGood(room'),
         SeatGood(c), applyCommand(p, c)
  PROVE  RoomOrder(room')
<1>1. CASE c.type = "create_room" /\ createRoom(p)
  BY <1>1, CreateOrder
<1>2. CASE c.type = "join_room" /\ joinRoom(p)
  BY <1>2, JoinOrder
<1>3. CASE c.type = "leave_room" /\ leaveRoom(p)
  BY <1>3, LeaveOrder
<1>4. CASE c.type = "start_game" /\ startGame(p, c.seat)
  BY <1>4, StartOrder DEF SeatGood
<1>5. CASE forfeitGame(p)
  BY <1>5, ForfeitOrder
<1>6. CASE \/ startNextRound(p) \/ chooseDealing(p, c.deal) \/ applyGameAction(p)
           \/ createEndProposal(p) \/ voteEndGame(p, c.id, c.approve)
  BY <1>6, GameOrder
<1> QED BY <1>1, <1>2, <1>3, <1>4, <1>5, <1>6 DEF applyCommand

\* After a game the host is still the first of those who stay.
LEMMA ResetOrder ==
  ASSUME NEW r, RoomGood(r), r # NoRoom, RoomOrder(r)
  PROVE  RoomOrder(resetForLobby(r))
<1> DEFINE s == r.players
           rest == remaining(s, r.forfeited)
           r2 == resetForLobby(r)
<1>1. /\ RoomShape(r) /\ s \in Seq(Players) /\ IsInjective(s) /\ r.host \in Active(r)
  BY DEF RoomGood, RoomShape, RoomNames, Rooms
<1>2. PICK i \in activePlayerIndexes(r) : s[i] = r.host /\ \A j \in activePlayerIndexes(r) : i <= j
  BY <1>1, HostSeat DEF RoomOrder
<1>3. \A j \in DOMAIN s : s[j] \notin r.forfeited => j \in activePlayerIndexes(r)
  BY DEF activePlayerIndexes, Active, Seated, ToSet
<1>4. i \in DOMAIN s /\ s[i] \notin r.forfeited
  BY DEF activePlayerIndexes, Active
<1>5. rest[1] = r.host
  <2>1. \A j \in DOMAIN s : s[j] \notin r.forfeited => i <= j
    BY <1>2, <1>3
  <2> QED BY <1>1, <1>2, <1>4, <2>1, RemainingFirst
<1>6. /\ r2.players = rest /\ r2.forfeited = {} /\ r2.pending = NoDeal
      /\ r2.host = rest[1]
  BY <1>5 DEF resetForLobby, NoRoom
<1>7. RoomShape(r2)
  BY ResetGood DEF RoomGood
<1> HIDE DEF r2, rest
<1>8. HostIsFirst(r2)
  BY <1>6, <1>7, FirstIsHost
<1>9. RoomOrder(r2)
  BY <1>6, <1>8 DEF RoomOrder, DealIsFirst
<1> QED BY <1>9 DEF r2

\* A start that a page sends names the host's seat, the first.
LEMMA ControlSeat ==
  ASSUME RoomGood(room), RoomOrder(room), NEW p \in Players, NEW c \in controls(p)
  PROVE  SeatGood(c)
<1>1. \/ screen(p) = "lobby" /\ c \in lobbyControls(p)
      \/ c \in resultsControls(p) \/ c \in boardControls(p)
      \/ c \in panelControls(p) \/ c \in menuControls(p) \/ c \in voteControls(p)
  BY DEF controls
<1>2. \A type : Command(type).type = type
  BY DEF Command
<1>3. CASE c \in resultsControls(p) \/ c \in boardControls(p) \/ c \in menuControls(p)
  BY <1>2, <1>3 DEF resultsControls, boardControls, menuControls, SeatGood
<1>4. CASE c \in panelControls(p)
  BY <1>4 DEF panelControls, Command, SeatGood
<1>5. CASE c \in voteControls(p)
  BY <1>5 DEF voteControls, Command, SeatGood
<1>6. CASE screen(p) = "lobby" /\ c \in lobbyControls(p)
  <2>1. \/ c \in {Command("create_room"), Command("join_room"), Command("leave_room")}
        \/ \E i \in DOMAIN room.players :
             /\ c = [Command("start_game") EXCEPT !.seat = i]
             /\ room.players[i] = room.host /\ room.host = p
    BY <1>6 DEF lobbyControls
  <2>2. CASE c \in {Command("create_room"), Command("join_room"), Command("leave_room")}
    BY <1>2, <2>2 DEF SeatGood
  <2>3. CASE \E i \in DOMAIN room.players :
               /\ c = [Command("start_game") EXCEPT !.seat = i]
               /\ room.players[i] = room.host /\ room.host = p
    <3>1. PICK i \in DOMAIN room.players :
                 /\ c = [Command("start_game") EXCEPT !.seat = i]
                 /\ room.players[i] = room.host /\ room.host = p
      BY <2>3
    <3>2. room # NoRoom
      BY DEF NoRoom
    <3>3. RoomShape(room) /\ p \in Active(room)
      BY <3>1, <3>2 DEF RoomGood, RoomNames
    <3>4. room.phase = "lobby" /\ room.forfeited = {}
      BY <1>6, <3>3 DEF screen, RoomGood, RoomNames
    <3>5. i = 1
      BY <3>1, <3>3, <3>4, HostOnFirst, SeatFacts DEF RoomOrder
    <3>6. c.seat = 1
      BY <3>1, <3>5 DEF Command
    <3> QED BY <3>6 DEF SeatGood
  <2> QED BY <2>1, <2>2, <2>3
<1> QED BY <1>1, <1>3, <1>4, <1>5, <1>6

\* The commands on their way after a proposal name the same seats.
LEMMA SupersededSeats ==
  ASSUME NEW s, BoxGood(s), \A c \in ToSet(s) : SeatGood(c),
         NEW t, t = [i \in DOMAIN s |-> [s[i] EXCEPT !.id = 0]]
  PROVE  \A c \in ToSet(t) : SeatGood(c)
<1>1. ASSUME NEW d, IsCommand(d), SeatGood(d)
      PROVE  SeatGood([d EXCEPT !.id = 0])
  BY <1>1 DEF IsCommand, SeatGood
<1>2. \A i \in DOMAIN s : IsCommand(s[i]) /\ SeatGood(s[i])
  BY DEF BoxGood, ToSet
<1>3. \A i \in DOMAIN t : SeatGood(t[i])
  BY <1>1, <1>2
<1> QED BY <1>3 DEF ToSet

\* A command that is served, with the boxes it leaves.
LEMMA ServedOrder ==
  ASSUME RoomInv, RoomInv', SeatsInv, NEW p \in Players, NEW c, SeatGood(c), applyCommand(p, c),
         NEW box, box = [q \in Players |-> box[q]], inbox' = superseded(box),
         \A q \in Players : BoxGood(box[q]) /\ ToSet(box[q]) \subseteq ToSet(inbox[q])
  PROVE  SeatsInv'
<1>1. RoomOrder(room')
  BY CommandOrder DEF RoomInv, SeatsInv
<1>2. \A q \in Players : \A d \in ToSet(box[q]) : SeatGood(d)
  BY DEF SeatsInv
<1>3. ASSUME NEW q \in Players PROVE \A d \in ToSet(inbox'[q]) : SeatGood(d)
  <2>1. CASE proposed
    <3>1. inbox'[q] = [i \in DOMAIN box[q] |-> [box[q][i] EXCEPT !.id = 0]]
      BY <2>1 DEF superseded
    <3> QED BY <1>2, <3>1, SupersededSeats
  <2>2. CASE ~proposed
    BY <1>2, <2>2 DEF superseded
  <2> QED BY <2>1, <2>2
<1> QED BY <1>1, <1>3 DEF SeatsInv

\* Every step keeps the order of the seats.
LEMMA NextSeats == RoomInv /\ RoomInv' /\ SeatsInv /\ [Next]_vars => SeatsInv'
<1> SUFFICES ASSUME RoomInv, RoomInv', SeatsInv, [Next]_vars PROVE SeatsInv'
  OBVIOUS
<1>1. /\ RoomGood(room) /\ RoomOrder(room) /\ room \in Rooms
      /\ inbox = [q \in Players |-> inbox[q]]
      /\ \A q \in Players : BoxGood(inbox[q])
      /\ \A q \in Players : \A c \in ToSet(inbox[q]) : SeatGood(c)
  BY DEF RoomInv, InboxShape, SeatsInv, RoomGood, RoomShape
<1>2. ASSUME RoomOrder(room'), \A q \in Players : ToSet(inbox'[q]) \subseteq ToSet(inbox[q])
      PROVE  SeatsInv'
  BY <1>1, <1>2 DEF SeatsInv
<1>3. ASSUME NEW p \in Players, Act(p) PROVE SeatsInv'
  <2>1. PICK c \in controls(p) : applyCommand(p, c)
    BY <1>3 DEF Act
  <2>2. SeatGood(c) /\ inbox' = superseded(inbox)
    BY <1>1, <1>3, ControlSeat DEF Act
  <2> QED BY <1>1, <2>1, <2>2, ServedOrder
<1>4. ASSUME NEW p \in Players, Press(p) PROVE SeatsInv'
  <2>1. PICK c \in controls(p) : inbox' = [inbox EXCEPT ![p] = Append(@, c)]
    BY <1>4 DEF Press
  <2>2. SeatGood(c) /\ IsCommand(c) /\ room' = room
    BY <1>1, <1>4, ControlSeat, ControlShape DEF Press, roomVars
  <2>3. ToSet(Append(inbox[p], c)) \subseteq ToSet(inbox[p]) \cup {c}
    BY <1>1, <2>2, AppendBox
  <2>4. \A q \in Players : inbox'[q] = IF q = p THEN Append(inbox[p], c) ELSE inbox[q]
    BY <1>1, <2>1
  <2>5. \A q \in Players : \A d \in ToSet(inbox'[q]) : SeatGood(d)
    BY <1>1, <2>2, <2>3, <2>4
  <2> QED BY <1>1, <2>2, <2>5 DEF SeatsInv
<1>5. ASSUME NEW p \in Players, inbox[p] # <<>>
      PROVE  LET box == [inbox EXCEPT ![p] = Tail(@)]
             IN  /\ box = [q \in Players |-> box[q]]
                 /\ \A q \in Players : BoxGood(box[q]) /\ ToSet(box[q]) \subseteq ToSet(inbox[q])
                 /\ SeatGood(Head(inbox[p]))
  <2> DEFINE box == [inbox EXCEPT ![p] = Tail(@)]
  <2>1. /\ BoxGood(Tail(inbox[p])) /\ ToSet(Tail(inbox[p])) \subseteq ToSet(inbox[p])
        /\ Head(inbox[p]) \in ToSet(inbox[p])
    BY <1>1, <1>5, TailBox
  <2>2. box = [q \in Players |-> box[q]]
        /\ \A q \in Players : box[q] = IF q = p THEN Tail(inbox[p]) ELSE inbox[q]
    BY <1>1
  <2> HIDE DEF box
  <2>3. \A q \in Players : BoxGood(box[q]) /\ ToSet(box[q]) \subseteq ToSet(inbox[q])
    BY <1>1, <2>1, <2>2
  <2> QED BY <1>1, <2>1, <2>2, <2>3 DEF box
<1>6. ASSUME NEW p \in Players, Serve(p) PROVE SeatsInv'
  <2> DEFINE box == [inbox EXCEPT ![p] = Tail(@)]
             c == Head(inbox[p])
  <2>1. inbox[p] # <<>> /\ applyCommand(p, c) /\ inbox' = superseded(box)
    BY <1>6 DEF Serve
  <2>2. /\ box = [q \in Players |-> box[q]]
        /\ \A q \in Players : BoxGood(box[q]) /\ ToSet(box[q]) \subseteq ToSet(inbox[q])
        /\ SeatGood(c)
    BY <1>5, <2>1
  <2> HIDE DEF box, c
  <2> QED BY <2>1, <2>2, ServedOrder
<1>7. ASSUME NEW p \in Players, Refuse(p) PROVE SeatsInv'
  <2>1. inbox[p] # <<>> /\ room' = room /\ inbox' = [inbox EXCEPT ![p] = Tail(@)]
    BY <1>7 DEF Refuse, roomVars
  <2>2. \A q \in Players : ToSet(inbox'[q]) \subseteq ToSet(inbox[q])
    BY <1>5, <2>1
  <2> QED BY <1>1, <1>2, <2>1, <2>2
<1>8. ASSUME NEW p \in Players, Reset(p) PROVE SeatsInv'
  <2>1. inbox' = inbox /\ room' = IF room.phase = "game_over" THEN resetForLobby(room) ELSE room
    BY <1>8 DEF Reset, resetRoomAfterGameOver
  <2>2. room.phase = "game_over" => room # NoRoom
    BY DEF NoRoom
  <2>3. RoomOrder(room')
    BY <1>1, <2>1, <2>2, ResetOrder
  <2> QED BY <1>2, <2>1, <2>3
<1>9. ASSUME NEW S, room' = snapshot([room EXCEPT !.connected = S]) PROVE RoomOrder(room')
  <2> DEFINE r2 == [room EXCEPT !.connected = S]
  <2>1. /\ room'.players = room.players /\ room'.forfeited = room.forfeited
        /\ room'.host = room.host /\ room'.phase = room.phase /\ room'.pending = room.pending
    BY <1>1, <1>9 DEF snapshot, activeEndProposal, Rooms
  <2> QED BY <1>1, <2>1, SameOrder
<1>10. ASSUME NEW p \in Players, Connect(p) PROVE SeatsInv'
  <2>1. /\ inbox' = inbox
        /\ room' = IF sessionRoom(room, p)
                   THEN snapshot([room EXCEPT !.connected = @ \cup {p}]) ELSE room
    BY <1>10 DEF Connect, connectWithUser
  <2>2. room' = room \/ room' = snapshot([room EXCEPT !.connected = room.connected \cup {p}])
    BY <2>1
  <2> QED BY <1>1, <1>2, <1>9, <2>1, <2>2
<1>11. ASSUME NEW p \in Players, Disconnect(p) PROVE SeatsInv'
  <2>1. /\ inbox' = [inbox EXCEPT ![p] = <<>>]
        /\ room' = IF sessionRoom(room, p)
                   THEN snapshot([room EXCEPT !.connected = @ \ {p}]) ELSE room
    BY <1>11 DEF Disconnect, disconnectWithEmitter
  <2>2. room' = room \/ room' = snapshot([room EXCEPT !.connected = room.connected \ {p}])
    BY <2>1
  <2>3. \A q \in Players : ToSet(inbox'[q]) \subseteq ToSet(inbox[q])
    <3>1. \A q \in Players : inbox'[q] = IF q = p THEN <<>> ELSE inbox[q]
      BY <1>1, <2>1
    <3> QED BY <3>1, EmptyBox
  <2> QED BY <1>1, <1>2, <1>9, <2>2, <2>3
<1>12. ASSUME Time PROVE SeatsInv'
  <2>1. /\ inbox' = inbox /\ room'.players = room.players /\ room'.forfeited = room.forfeited
        /\ room'.host = room.host /\ room'.phase = room.phase /\ room'.pending = room.pending
    BY <1>1, <1>12 DEF Time, proposalExpires, cooldownEnds, screenVars, Rooms
  <2>2. RoomOrder(room')
    BY <1>1, <2>1, SameOrder
  <2> QED BY <1>2, <2>1, <2>2
<1>13. ASSUME Restart PROVE SeatsInv'
  <2>1. /\ inbox' = [p \in Players |-> <<>>]
        /\ room'.players = room.players /\ room'.forfeited = room.forfeited
        /\ room'.host = room.host /\ room'.phase = room.phase /\ room'.pending = room.pending
    BY <1>1, <1>13 DEF Restart, restorePersistedState, Rooms
  <2>2. RoomOrder(room')
    BY <1>1, <2>1, SameOrder
  <2> QED BY <1>2, <2>1, <2>2, EmptyBox
<1>14. CASE UNCHANGED vars
  <2>1. room' = room /\ inbox' = inbox
    BY <1>14 DEF vars
  <2> QED BY <1>1, <1>2, <2>1
<1> QED BY <1>3, <1>4, <1>6, <1>7, <1>8, <1>10, <1>11, <1>12, <1>13, <1>14 DEF Next

\* As many players are in the game as seats, four at most.
LEMMA SeatCount ==
  ASSUME NEW r, RoomShape(r)
  PROVE  /\ IsFiniteSet(activePlayerIndexes(r))
         /\ Cardinality(activePlayerIndexes(r)) \in 0 .. 4
         /\ Cardinality(Active(r)) = Cardinality(activePlayerIndexes(r))
<1> DEFINE A == activePlayerIndexes(r)
           f == [i \in A |-> r.players[i]]
<1>1. /\ A \in SUBSET (1 .. 4) /\ A \subseteq DOMAIN r.players
      /\ (\A i \in A : r.players[i] \in Active(r))
      /\ \A p \in Active(r) : \E i \in A : r.players[i] = p
  BY SeatFacts
<1>2. IsFiniteSet(1 .. 4) /\ Cardinality(1 .. 4) = 4
  <2>1. 1 \in Int /\ 4 \in Int
    OBVIOUS
  <2>2. IsFiniteSet(1 .. 4) /\ Cardinality(1 .. 4) = IF 1 > 4 THEN 0 ELSE 4 - 1 + 1
    BY <2>1, FS_Interval
  <2> QED BY <2>2
<1> HIDE DEF A
<1>3. IsFiniteSet(A) /\ Cardinality(A) \in Nat /\ Cardinality(A) <= 4
  BY <1>1, <1>2, FS_Subset, FS_CardinalityType
<1>4. f \in Surjection(A, Active(r))
  BY <1>1 DEF Surjection
<1>5. \A i, j \in A : f[i] = f[j] => i = j
  BY <1>1 DEF RoomShape, IsInjective
<1>6. f \in Injection(A, Active(r))
  BY <1>4, <1>5 DEF Surjection, Injection, IsInjective
<1> HIDE DEF f
<1>7. Cardinality(Active(r)) = Cardinality(A)
  BY <1>3, <1>4, <1>6, FS_Surjection
<1>8. Cardinality(A) \in 0 .. 4
  BY <1>3
<1> QED BY <1>3, <1>7, <1>8 DEF A

\* A list without repetitions is as long as the set of its members is large.
LEMMA ListCount ==
  ASSUME NEW S, NEW s \in Seq(S), IsInjective(s)
  PROVE  Cardinality(ToSet(s)) = Len(s)
<1>1. Len(s) \in Nat /\ DOMAIN s = 1 .. Len(s)
  BY LenProperties
<1>2. IsFiniteSet(1 .. Len(s)) /\ Cardinality(1 .. Len(s)) = Len(s)
  BY <1>1, FS_Interval
<1>3. s \in [1 .. Len(s) -> ToSet(s)]
  BY <1>1 DEF ToSet
<1>4. s \in Surjection(1 .. Len(s), ToSet(s)) /\ s \in Injection(1 .. Len(s), ToSet(s))
  BY <1>1, <1>3 DEF Surjection, Injection, ToSet, IsInjective
<1> QED BY <1>2, <1>4, FS_Surjection

\* To go round the table from the seat after the d-th meets each of n seats once.
LEMMA RoundTable ==
  ASSUME NEW n \in 1 .. 4, NEW d \in 1 .. n
  PROVE  /\ \A i \in 1 .. n : ((d + i - 1) % n) + 1 \in 1 .. n
         /\ \A i, j \in 1 .. n : ((d + i - 1) % n) + 1 = ((d + j - 1) % n) + 1 => i = j
<1>1. CASE n = 1
  BY <1>1
<1>2. CASE n = 2
  BY <1>2
<1>3. CASE n = 3
  BY <1>3
<1>4. CASE n = 4
  BY <1>4
<1> QED BY <1>1, <1>2, <1>3, <1>4

\* The order of tapping a page starts from names each seat of the game once.
LEMMA TapOrder ==
  ASSUME NEW r, RoomShape(r)
  PROVE  LET n == Cardinality(activePlayerIndexes(r))
         IN  /\ DOMAIN defaultTapOrder(r) = 1 .. n
             /\ ToSet(defaultTapOrder(r)) = activePlayerIndexes(r)
<1> DEFINE A == activePlayerIndexes(r)
           D == DOMAIN r.players
           seats == [i \in D |-> i]
           active == remaining(seats, D \ A)
           n == Len(active)
           at == {i \in 1 .. n : active[i] = r.pending.dealer}
           d == CHOOSE i \in at : TRUE
           turned == [i \in 1 .. n |-> active[((d + i - 1) % n) + 1]]
<1>1. Len(r.players) \in Nat /\ D = 1 .. Len(r.players) /\ A \subseteq D
  BY SeatFacts
<1>2. seats \in Seq(D) /\ IsInjective(seats) /\ ToSet(seats) = D
  <2>1. seats \in [1 .. Len(r.players) -> D]
    BY <1>1
  <2>2. DOMAIN seats = D /\ \A i \in D : seats[i] = i
    OBVIOUS
  <2> HIDE DEF seats
  <2>3. seats \in Seq(D)
    BY <1>1, <2>1
  <2> HIDE DEF D
  <2> QED BY <2>2, <2>3 DEF IsInjective, ToSet
<1> HIDE DEF seats
<1>3. active \in Seq(D) /\ IsInjective(active) /\ ToSet(active) = D \ (D \ A)
  BY <1>2, RemainingPlayers
<1>4. ToSet(active) = A
  BY <1>1, <1>3
<1> HIDE DEF active
<1>5. n \in Nat /\ DOMAIN active = 1 .. n /\ n = Cardinality(A)
  BY <1>3, <1>4, ListCount, LenProperties
<1>6. n \in 0 .. 4
  BY <1>5, SeatCount
<1>7. defaultTapOrder(r) = IF at = {} THEN active ELSE turned
  BY DEF defaultTapOrder, active, seats
<1>8. CASE at = {}
  BY <1>4, <1>5, <1>7, <1>8
<1>9. CASE at # {}
  <2>1. d \in 1 .. n
    BY <1>9
  <2> HIDE DEF d, n
  <2>2. n \in 1 .. 4
    BY <1>6, <2>1
  <2>3. \A i \in 1 .. n : ((d + i - 1) % n) + 1 \in 1 .. n
    BY <2>1, <2>2, RoundTable
  <2>4. \A j \in 1 .. n : \E i \in 1 .. n : ((d + i - 1) % n) + 1 = j
    <3>1. d \in 0 .. 4
      BY <2>1, <2>2
    <3> QED BY <2>2, <3>1, SeatSteps
  <2>5. DOMAIN turned = 1 .. n /\ \A i \in 1 .. n : turned[i] = active[((d + i - 1) % n) + 1]
    OBVIOUS
  <2> HIDE DEF turned
  <2>6. \A x : x \in ToSet(turned) <=> \E i \in 1 .. n : turned[i] = x
    BY <2>5 DEF ToSet
  <2>7. \A x : x \in ToSet(active) <=> \E i \in 1 .. n : active[i] = x
    BY <1>5 DEF ToSet, n
  <2>8. ToSet(turned) = ToSet(active)
    <3>1. ASSUME NEW x \in ToSet(turned) PROVE x \in ToSet(active)
      <4>1. PICK i \in 1 .. n : turned[i] = x
        BY <2>6, <3>1
      <4>2. ((d + i - 1) % n) + 1 \in 1 .. n /\ active[((d + i - 1) % n) + 1] = x
        BY <2>3, <2>5, <4>1
      <4> QED BY ONLY <2>7, <4>2
    <3>2. ASSUME NEW x \in ToSet(active) PROVE x \in ToSet(turned)
      <4>1. PICK j \in 1 .. n : active[j] = x
        BY <2>7, <3>2
      <4>2. PICK i \in 1 .. n : ((d + i - 1) % n) + 1 = j
        BY <2>4
      <4>3. turned[i] = x
        BY <2>5, <4>1, <4>2
      <4> QED BY ONLY <2>6, <4>2, <4>3
    <3> QED BY <3>1, <3>2
  <2> QED BY <1>4, <1>5, <1>7, <1>9, <2>5, <2>8 DEF n
<1> QED BY <1>8, <1>9

\* Any arrangement of these seats is an order the server can deal in.
LEMMA ArrangedOrder ==
  ASSUME NEW r, RoomShape(r),
         NEW order \in [DOMAIN defaultTapOrder(r) -> ToSet(defaultTapOrder(r))],
         IsInjective(order)
  PROVE  /\ Len(order) = Cardinality(activePlayerIndexes(r))
         /\ ToSet(order) = activePlayerIndexes(r)
<1> DEFINE A == activePlayerIndexes(r)
           n == Cardinality(A)
<1>1. IsFiniteSet(A) /\ n \in Nat
  BY SeatCount
<1>2. order \in [1 .. n -> A]
  BY TapOrder
<1>3. IsFiniteSet(1 .. n) /\ Cardinality(1 .. n) = n
  BY <1>1, FS_Interval
<1> HIDE DEF A, n
<1>4. order \in Injection(1 .. n, A)
  BY <1>2 DEF Injection, IsInjective
<1>5. order \in Surjection(1 .. n, A)
  BY <1>1, <1>3, <1>4, FS_Injection DEF n
<1>6. ToSet(order) = A
  <2>1. \A x : x \in ToSet(order) <=> \E i \in 1 .. n : order[i] = x
    BY <1>2 DEF ToSet
  <2>2. \A x \in A : \E i \in 1 .. n : order[i] = x
    BY <1>5 DEF Surjection
  <2> QED BY <1>2, <2>1, <2>2
<1>7. Len(order) = n
  BY <1>1, <1>2
<1> QED BY <1>6, <1>7 DEF A, n

\* With all seats taken, the seat before the first is the last.
LEMMA LastBeforeFirst ==
  ASSUME NEW r, RoomShape(r), activePlayerIndexes(r) = 1 .. Len(r.players), Len(r.players) \in 1 .. 4
  PROVE  previousActivePlayerIndex(r, 1) = Len(r.players)
<1>0. 1 \in 1 .. Len(r.players) /\ Len(r.players) \in activePlayerIndexes(r)
  <2>1. \A m \in 1 .. 4 : 1 \in 1 .. m /\ m \in 1 .. m
    OBVIOUS
  <2> QED BY <2>1
<1> DEFINE n == Len(r.players)
           T == {d \in 1 .. n : ((1 + n - d - 1) % n) + 1 \in activePlayerIndexes(r)}
           back == CHOOSE x \in T : \A y \in T : x <= y
<1>1. ((1 + n - 1 - 1) % n) + 1 = n
  <2> SUFFICES ASSUME NEW m \in 1 .. 4 PROVE ((1 + m - 1 - 1) % m) + 1 = m
    OBVIOUS
  <2>1. m = 1 \/ m = 2 \/ m = 3 \/ m = 4
    OBVIOUS
  <2> QED BY <2>1
<1>2. 1 \in T
  <2>1. 1 \in 1 .. n /\ n \in activePlayerIndexes(r)
    BY ONLY <1>0
  <2>2. ((1 + n - 1 - 1) % n) + 1 \in activePlayerIndexes(r)
    BY <1>1, <2>1
  <2> HIDE DEF n
  <2> QED BY ONLY <2>1, <2>2
<1>3. \A y \in T : y \in Nat /\ 1 <= y
  OBVIOUS
<1>4. back = 1
  <2> HIDE DEF T
  <2>1. back \in T /\ \A y \in T : back <= y
    BY <1>2, <1>3
  <2> HIDE DEF back
  <2> QED BY <1>2, <1>3, <2>1
<1>5. previousActivePlayerIndex(r, 1) = ((1 + n - back - 1) % n) + 1
  BY DEF previousActivePlayerIndex
<1> HIDE DEF back
<1> QED BY <1>1, <1>4, <1>5

\* The panel's chooser sees a deal of the engine: its seats are the server's.
LEMMA PanelSeats ==
  ASSUME NEW r, RoomGood(r), RoomOrder(r), Active(r) # {}, r.pending # NoDeal,
         r.phase \in {"lobby", "round_over"}
  PROVE  /\ Cardinality(activePlayerIndexes(r)) >= 2
         /\ dealSeats(r).dealer \in activePlayerIndexes(r)
         /\ dealSeats(r).chooser = previousActivePlayerIndex(r, dealSeats(r).dealer)
<1>1. RoomShape(r) /\ r.dealer \in 0 .. 4
  BY DEF RoomGood, RoomShape, Rooms, maxPlayersPerRoom
<1>2. CASE r.phase = "lobby"
  <2>1. /\ dealSeats(r) = [dealer |-> 1, chooser |-> Len(r.players)] /\ Len(r.players) >= 2
        /\ r.forfeited = {}
    BY <1>2 DEF dealSeats, RoomOrder, DealIsFirst, RoomGood, RoomNames
  <2>2. activePlayerIndexes(r) = 1 .. Len(r.players) /\ Len(r.players) \in 0 .. 4
    BY <1>1, <2>1, AllSeats, SeatFacts
  <2>3. Len(r.players) \in 1 .. 4 /\ Len(r.players) \in Nat
    BY <2>1, <2>2
  <2>4. Cardinality(1 .. Len(r.players)) = Len(r.players)
    BY <2>3, FS_Interval
  <2>5. previousActivePlayerIndex(r, 1) = Len(r.players)
    BY <1>1, <2>2, <2>3, LastBeforeFirst
  <2>6. 1 \in 1 .. Len(r.players)
    BY <2>3
  <2> QED BY <2>1, <2>2, <2>4, <2>5, <2>6
<1>3. CASE r.phase = "round_over"
  <2> DEFINE dealer == nextActivePlayerIndex(r, r.dealer)
  <2>1. dealSeats(r) = [dealer |-> dealer, chooser |-> previousActivePlayerIndex(r, dealer)]
    BY <1>3 DEF dealSeats
  <2>2. dealer \in activePlayerIndexes(r)
    BY <1>1, NextSeat
  <2>3. Cardinality(activePlayerIndexes(r)) >= 2
    <3>1. PICK p \in Active(r), q \in Active(r) : p # q
      BY <1>3 DEF RoomGood, RoomNames, playing
    <3>2. PICK i \in activePlayerIndexes(r), j \in activePlayerIndexes(r) :
            r.players[i] = p /\ r.players[j] = q
      BY <1>1, SeatFacts
    <3>3. IsFiniteSet({i, j}) /\ Cardinality({i, j}) = 2
      <4>1. i # j
        BY <3>1, <3>2
      <4>2. IsFiniteSet({i}) /\ Cardinality({i}) = 1 /\ j \notin {i}
        BY <4>1, FS_Singleton
      <4>3. IsFiniteSet({i} \cup {j}) /\ Cardinality({i} \cup {j}) = 2
        BY <4>2, FS_AddElement
      <4>4. {i} \cup {j} = {i, j}
        OBVIOUS
      <4> QED BY <4>3, <4>4
    <3>4. {i, j} \in SUBSET activePlayerIndexes(r)
      OBVIOUS
    <3>5. IsFiniteSet(activePlayerIndexes(r)) /\ Cardinality(activePlayerIndexes(r)) \in 0 .. 4
      BY <1>1, SeatCount
    <3>6. Cardinality({i, j}) <= Cardinality(activePlayerIndexes(r))
      BY <3>4, <3>5, FS_Subset
    <3> QED BY <3>3, <3>5, <3>6
  <2> HIDE DEF dealer
  <2> QED BY <2>1, <2>2, <2>3
<1> QED BY <1>2, <1>3

\* Every deal the panel can be made to say is one the server accepts.
LEMMA PanelAdmitted ==
  ASSUME RoomGood(room), RoomOrder(room), NEW p \in Active(room), NEW c \in panelControls(p)
  PROVE  admitted(p, c)
<1>1. /\ room.pending # NoDeal /\ room.players[room.pending.chooser] = p
      /\ room.phase \in {"lobby", "round_over"}
  BY DEF panelControls, panelShown, isDealChooser
<1>2. PICK deal \in dealChoices(room) : c = [Command("choose_dealing") EXCEPT !.deal = deal]
  BY DEF panelControls
<1>3. c.type = "choose_dealing" /\ c.deal = deal
  BY <1>2 DEF Command
<1> DEFINE n == Cardinality(activePlayerIndexes(room))
<1>4. RoomShape(room) /\ n \in 0 .. 4 /\ Cardinality(Active(room)) = n
  BY SeatCount DEF RoomGood
<1>5. /\ deal.cut = clampCutSize(DeckSize, maxCutSize(room))
      /\ \/ deal.order = <<>>
         \/ /\ deal.order \in [DOMAIN defaultTapOrder(room) -> ToSet(defaultTapOrder(room))]
            /\ IsInjective(deal.order)
  BY DEF dealChoices
<1>6. deal.order = <<>> \/ (Len(deal.order) = n /\ ToSet(deal.order) = activePlayerIndexes(room))
  BY <1>4, <1>5, ArrangedOrder
<1>7. deal.cut <= DeckSize - InitialHandSize * n
  <2> HIDE DEF n
  <2>1. DeckSize \in Nat /\ DeckSize - 12 * n >= 0
    BY <1>4, RoomAssumption DEF InitialHandSize, maxPlayersPerRoom
  <2>2. maxCutSize(room) = DeckSize - 12 * n
    BY <1>4, <2>1 DEF maxCutSize, InitialHandSize
  <2> QED BY <1>5, <2>1, <2>2, <1>4 DEF clampCutSize, InitialHandSize
<1>8. validDeal(room, deal)
  BY <1>1, <1>6, <1>7, PanelSeats DEF validDeal
<1> QED BY <1>1, <1>3, <1>8 DEF admitted, canChooseDealing, sessionRoom

\* A start is enabled for the host when everybody is there.
LEMMA LobbyAdmitted ==
  ASSUME RoomGood(room), NEW p \in Active(room), screen(p) = "lobby", NEW c \in lobbyControls(p)
  PROVE  admitted(p, c) \/ knownRefusal(c)
<1>1. room.phase = "lobby" /\ room # NoRoom
  BY InRoom DEF screen
<1>2. \/ c = Command("leave_room")
      \/ \E j \in DOMAIN room.players :
           /\ c = [Command("start_game") EXCEPT !.seat = j]
           /\ room.players[j] = room.host /\ room.host = p /\ Len(room.players) >= 2
           /\ Active(room) \subseteq room.connected /\ room.pending = NoDeal
  BY DEF lobbyControls
<1>3. CASE c = Command("leave_room") /\ room.pending = NoDeal
  <2>1. leftRoom(room, p).pending = NoDeal
    BY <1>3 DEF leftRoom, NoRoom, RoomGood, RoomShape, Rooms
  <2>2. ~snapshotPanics(leftRoom(room, p))
    <3>1. Len(leftRoom(room, p).players) \in Nat
      <4>1. room.players \in Seq(Players) /\ IsInjective(room.players) /\ room \in Rooms
        BY DEF RoomGood, RoomShape, Rooms
      <4>2. remaining(room.players, {p}) \in Seq(Players)
        BY <4>1, RemainingPlayers
      <4>3. leftRoom(room, p).players \in {<<>>, remaining(room.players, {p})}
        BY <4>1 DEF leftRoom, NoRoom, Rooms
      <4> QED BY <4>2, <4>3, LenProperties
    <3>2. leftRoom(room, p).pending.chooser = 0
      BY <2>1 DEF NoDeal
    <3> QED BY <3>1, <3>2 DEF snapshotPanics
  <2>3. c.type = "leave_room"
    BY <1>3 DEF Command
  <2> QED BY <1>1, <2>2, <2>3 DEF admitted, canLeave, sessionRoom
<1>4. CASE c = Command("leave_room") /\ room.pending # NoDeal
  BY <1>4 DEF knownRefusal, Command
<1>5. CASE \E j \in DOMAIN room.players :
             /\ c = [Command("start_game") EXCEPT !.seat = j]
             /\ room.players[j] = room.host /\ room.host = p /\ Len(room.players) >= 2
             /\ Active(room) \subseteq room.connected /\ room.pending = NoDeal
  <2>1. PICK j \in DOMAIN room.players :
               /\ c = [Command("start_game") EXCEPT !.seat = j]
               /\ room.players[j] = room.host /\ room.host = p /\ Len(room.players) >= 2
               /\ Active(room) \subseteq room.connected /\ room.pending = NoDeal
    BY <1>5
  <2>2. c.type = "start_game" /\ c.seat = j
    BY <2>1 DEF Command
  <2>3. canStart(room, p, j)
    BY <2>1 DEF canStart, sessionRoom, minPlayersToStart, allPlayersConnected
  <2> QED BY <2>2, <2>3 DEF admitted
<1> QED BY <1>2, <1>3, <1>4, <1>5

\* The controls of a game.
LEMMA GameAdmitted ==
  ASSUME RoomGood(room), NEW p \in Active(room),
         NEW c, c \in resultsControls(p) \cup boardControls(p) \cup menuControls(p)
  PROVE  admitted(p, c) \/ knownRefusal(c)
<1>1. /\ Command("start_next_round").type = "start_next_round" /\ Command("play").type = "play"
      /\ Command("forfeit_game").type = "forfeit_game"
      /\ Command("request_end_game").type = "request_end_game"
  BY DEF Command
<1>2. CASE c \in resultsControls(p)
  <2>1. /\ c.type = "start_next_round" /\ room.phase = "round_over" /\ room.pending = NoDeal
        /\ room.host = p
    BY <1>1, <1>2 DEF resultsControls
  <2> QED BY <2>1 DEF admitted, canStartNextRound, sessionRoom, knownRefusal
<1>3. CASE c \in boardControls(p)
  <2>1. c.type = "play" /\ room.phase = "in_progress" /\ isCurrentTurn(room, p)
    BY <1>1, <1>3 DEF boardControls
  <2> QED BY <2>1 DEF admitted, canPlay, sessionRoom
<1>4. CASE c \in menuControls(p)
  <2>1. /\ playing(room)
        /\ c.type = "forfeit_game" \/ (c.type = "request_end_game" /\ room.proposal = NoProposal)
    BY <1>1, <1>4 DEF menuControls
  <2>2. CASE c.type = "forfeit_game"
    BY <2>1, <2>2 DEF admitted, canForfeit, sessionRoom
  <2>3. CASE c.type = "request_end_game" /\ room.proposal = NoProposal
    <3>1. activeEndProposal(room) = room
      BY <2>3, NoRoomFacts DEF activeEndProposal
    <3> QED BY <2>1, <2>3, <3>1 DEF admitted, canPropose, sessionRoom, knownRefusal
  <2> QED BY <2>1, <2>2, <2>3
<1> QED BY <1>2, <1>3, <1>4

\* A vote is for the proposal that is there, and the game is not back in the lobby.
LEMMA VoteAdmitted ==
  ASSUME RoomGood(room), NEW p \in Active(room), NEW c \in voteControls(p)
  PROVE  admitted(p, c) \/ knownRefusal(c)
<1>1. PICK a \in BOOLEAN :
        /\ c = [Command("vote_end_game") EXCEPT !.id = room.proposal.id, !.approve = a]
        /\ room.proposal # NoProposal /\ ~room.proposal.expired
  BY DEF voteControls
<1>2. c.type = "vote_end_game" /\ c.id = room.proposal.id /\ c.approve = a
  BY <1>1 DEF Command
<1>3. activeEndProposal(room) = room
  BY <1>1 DEF activeEndProposal
<1>4. room.proposal.eligible = Active(room) /\ room.phase # "lobby"
  BY <1>1 DEF RoomGood, RoomNames
<1>5. canVote(room, p, c.id)
  BY <1>1, <1>2, <1>3, <1>4 DEF canVote, sessionRoom
<1>6. room.phase \in {"in_progress", "round_over", "game_over"}
  BY <1>4 DEF RoomGood, RoomShape, Rooms
<1>7. CASE room.phase = "game_over" /\ c.approve
  BY <1>2, <1>7 DEF knownRefusal
<1>8. CASE room.phase # "game_over" \/ ~c.approve
  <2>1. playing(room) \/ ~c.approve
    BY <1>6, <1>8 DEF playing
  <2> QED BY <1>2, <1>5, <2>1 DEF admitted, voteAccepted
<1> QED BY <1>7, <1>8

\* The order of the seats makes every other enabled control one the server accepts.
LEMMA SeatsImply == RoomInv /\ SeatsInv => EnabledIsAdmitted
<1> SUFFICES ASSUME RoomInv, SeatsInv, NEW p \in Active(room), NEW c \in controls(p)
             PROVE  admitted(p, c) \/ knownRefusal(c)
  BY DEF EnabledIsAdmitted
<1>1. RoomGood(room) /\ RoomOrder(room)
  BY DEF RoomInv, SeatsInv
<1>2. \/ screen(p) = "lobby" /\ c \in lobbyControls(p)
      \/ c \in resultsControls(p) \cup boardControls(p) \cup menuControls(p)
      \/ c \in panelControls(p)
      \/ c \in voteControls(p)
  BY DEF controls
<1> QED BY <1>1, <1>2, LobbyAdmitted, GameAdmitted, PanelAdmitted, VoteAdmitted

\* In the first state there is no room.
LEMMA InitSeats == Init => SeatsInv
<1> SUFFICES ASSUME Init PROVE SeatsInv
  OBVIOUS
<1>1. room = NoRoom /\ inbox = [p \in Players |-> <<>>]
  BY DEF Init, RoomInit
<1> QED BY <1>1, NoRoomOrder, EmptyBox DEF SeatsInv

\* The host is the first of those in the game, and a deal before a game is chosen by the
\* last of them for the first, through every order of joining, leaving and forfeiting.
THEOREM SeatsCorrect == Spec => []SeatsInv
BY RoomCorrect, InitSeats, NextSeats, PTL DEF Spec

\* What a page enables of its controls (lobby, results, board, deal panel, menu and vote)
\* is what the server accepts, but for the refusals that knownRefusal lists.
THEOREM EnabledControlsAreAdmitted == Spec => []EnabledIsAdmitted
BY RoomCorrect, SeatsCorrect, SeatsImply, PTL
=============================================================================
