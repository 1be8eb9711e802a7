----------------------- MODULE LobbyTransactionProofs -----------------------
(***************************************************************************)
(* Commands of the lobby are atomic and durable, and no statistics are     *)
(* lost or written out of order, for any players, line-ups and bounds.     *)
(*                                                                         *)
(* Four copies of the lobby are about at a time: in memory, the one kept   *)
(* by lockMutation, the one being saved and the one in the database.  The  *)
(* inductive invariant says of each of them that it is sound (Sound), that *)
(* a game that is over in it has its record (Recorded), and how the copies *)
(* are related at every point of a command (Copies).                       *)
(***************************************************************************)
EXTENDS LobbyTransaction, TLAPS, WellFoundedInduction

Rooms == [game : 0 .. MaxGames, team : Teams \cup {{}},
          phase : {"none", "playing", "over"}, saved : BOOLEAN]
Records == [team : Teams, sequence : 1 .. MaxGames]
Pendings == UNION {[D -> Records] : D \in SUBSET (1 .. MaxGames)}
Lobbies == [room : Rooms, pending : Pendings]

(* A room is played by the team that began its game, and is older than no  *)
(* game that has a record or is in the statistics.                         *)
SoundRoom(m, tm, lg) ==
  /\ m.room.game <= Len(tm)
  /\ m.room.phase # "none" => m.room.game > 0 /\ m.room.team = tm[m.room.game]
  /\ m.room.saved => Contains(lg, m.room.game)
  /\ \A j \in 1 .. Len(lg) : lg[j] <= m.room.game

(* The records are numbered in the order of the games. *)
SoundPending(m, tm) ==
  /\ \A g \in DOMAIN m.pending :
       /\ g <= m.room.game /\ m.pending[g].team = tm[g]
       /\ m.pending[g].sequence <= g
  /\ \A g, h \in DOMAIN m.pending :
       g < h => m.pending[g].sequence < m.pending[h].sequence

Keeps(m, lg, fin) == \A g \in fin : Contains(lg, g) \/ g \in DOMAIN m.pending

Sound(m, tm, lg, fin) ==
  m \in Lobbies /\ SoundRoom(m, tm, lg) /\ SoundPending(m, tm) /\ Keeps(m, lg, fin)

Recorded(m) ==
  m.room.phase = "over" => m.room.saved \/ m.room.game \in DOMAIN m.pending

IsSound(m) == Sound(m, teams, ledger, finished)

(* What the copy kept by lockMutation, if there is one, has to do with the *)
(* state m that the command has made.                                      *)
Undoes(m) ==
  /\ IsSound(before) /\ Recorded(before)
  /\ view(m.room) \in Abstract!Commands(view(before.room))

Copies ==
  /\ pc \in {"idle", "writing", "marking"} => before = None /\ Recorded(mem)
  /\ pc = "locked" => before = mem /\ Recorded(mem)
  /\ pc = "changed" => Undoes(mem)
  /\ pc \in {"saving", "saved"} =>
       /\ IsSound(tentative) /\ Recorded(tentative)
       /\ \/ before = None /\ mem = tentative
          \/ mem = before /\ Undoes(tentative)
  /\ pc = "saved" => disk = tentative

(* While statistics are written, a record is still to come or has blocked  *)
(* its players.                                                            *)
Writing ==
  pc = "writing" =>
    /\ disk.room.game = mem.room.game
    /\ jobs \subseteq DOMAIN mem.pending
    /\ \A g \in DOMAIN mem.pending \ jobs : mem.pending[g].team \subseteq blocked

Histories ==
  /\ teams \in Seq(Teams) /\ Len(teams) <= MaxGames
  /\ ledger \in Seq(1 .. MaxGames) /\ IsInjective(ledger)
  /\ finished \subseteq 1 .. Len(teams) /\ blocked \subseteq Players
  /\ StatisticsInOrder

(* The inductive invariant. *)
TransactionInv ==
  /\ pc \in {"idle", "locked", "changed", "saving", "saved", "writing",
             "marking"}
  /\ Histories
  /\ IsSound(mem) /\ IsSound(disk) /\ Recorded(disk)
  /\ Copies /\ Writing

-----------------------------------------------------------------------------
(***************************************************************************)
(* Lemmas about the parts of the state.                                    *)
(***************************************************************************)
\* A nonempty set of naturals has a least element.
LEMMA LeastNatural ==
  ASSUME NEW T \in SUBSET Nat, T # {}
  PROVE  \E x \in T : \A y \in T : x <= y
<1> DEFINE R == {ss \in Nat \X Nat : ss[1] < ss[2]}
<1>1. IsWellFoundedOn(R, Nat)
  BY NatLessThanWellFounded, Zenon DEF OpToRel
<1> HIDE DEF R
<1>2. PICK x \in T : \A y \in T : ~(<<y, x>> \in R)
  BY <1>1, WFMin
<1>3. \A y \in T : ~(y < x)
  BY <1>2 DEF R
<1> QED BY <1>3

\* The greatest of a bounded set of naturals is one of them.
LEMMA GreatestNatural ==
  ASSUME NEW S \in SUBSET Nat, S # {}, NEW b \in Nat, \A x \in S : x <= b
  PROVE  Max(S) \in S /\ \A x \in S : x <= Max(S)
<1> DEFINE T == {b - x : x \in S}
<1>1. T \in SUBSET Nat /\ T # {}
  <2>1. \A x \in S : x \in Nat /\ x <= b
    OBVIOUS
  <2>2. \A x \in S : b - x \in Nat
    BY <2>1
  <2> QED BY <2>2
<1>2. PICK y \in T : \A z \in T : y <= z
  BY <1>1, LeastNatural
<1>3. PICK m \in S : y = b - m
  BY <1>2
<1>4. \A x \in S : m >= x
  <2>1. ASSUME NEW x \in S PROVE m >= x
    <3>1. b - m <= b - x
      BY <1>2, <1>3
    <3> QED BY <3>1, <1>3
  <2> QED BY <2>1
<1>5. Max(S) \in S /\ \A x \in S : Max(S) >= x
  BY <1>4, Zenon DEF Max
<1> QED BY <1>5

\* A lobby is never mistaken for the absence of a copy.
LEMMA LobbyIsSome ==
  ASSUME NEW m \in Lobbies
  PROVE  m # None
<1>1. "pending" \in DOMAIN m /\ "pending" \notin DOMAIN None
  BY DEF Lobbies, None
<1> QED BY <1>1

\* The fields of a lobby.
LEMMA LobbyFields ==
  ASSUME NEW m \in Lobbies
  PROVE  /\ m.room \in Rooms /\ m.room.game \in 0 .. MaxGames
         /\ m.room.team \in Teams \cup {{}} /\ m.room.saved \in BOOLEAN
         /\ DOMAIN m.pending \subseteq 1 .. MaxGames
         /\ m.pending \in [DOMAIN m.pending -> Records]
         /\ \A g \in DOMAIN m.pending :
              m.pending[g].team \in Teams /\ m.pending[g].sequence \in 1 .. MaxGames
<1>1. m.room \in Rooms /\ m.pending \in Pendings
  BY DEF Lobbies
<1>2. PICK D \in SUBSET (1 .. MaxGames) : m.pending \in [D -> Records]
  BY <1>1 DEF Pendings
<1>3. DOMAIN m.pending = D
  BY <1>2
<1>4. \A g \in D : m.pending[g] \in Records
  BY <1>2
<1> QED BY <1>1, <1>2, <1>3, <1>4 DEF Rooms, Records

\* A function from game numbers to records is a set of pending records.
LEMMA PendingsIntro ==
  ASSUME NEW p, DOMAIN p \subseteq 1 .. MaxGames, p \in [DOMAIN p -> Records]
  PROVE  p \in Pendings
  BY DEF Pendings

\* statisticsJobsLocked leaves the room alone and numbers a new record after all others.
LEMMA JobsSound ==
  ASSUME NEW m, NEW tm \in Seq(Teams), Len(tm) <= MaxGames, NEW lg, NEW fin,
         Sound(m, tm, lg, fin)
  PROVE  /\ Sound(statisticsJobsLocked(m), tm, lg, fin)
         /\ Recorded(statisticsJobsLocked(m))
         /\ statisticsJobsLocked(m).room = m.room
<1> DEFINE n == statisticsJobsLocked(m)
           r == m.room
           p == m.pending
<1>0. m \in Lobbies /\ SoundRoom(m, tm, lg) /\ SoundPending(m, tm) /\ Keeps(m, lg, fin)
  BY DEF Sound
<1>1. CASE r.phase # "over" \/ r.saved \/ r.game \in DOMAIN p
  <2>1. n = m
    BY <1>1 DEF statisticsJobsLocked
  <2> QED BY <2>1, <1>1 DEF Recorded
<1>2. CASE ~(r.phase # "over" \/ r.saved \/ r.game \in DOMAIN p)
  <2> DEFINE S == {0} \cup {p[h].sequence : h \in DOMAIN p}
             s == 1 + Max(S)
             q == [g \in DOMAIN p \cup {r.game} |->
                     IF g \in DOMAIN p THEN p[g]
                     ELSE [team |-> r.team, sequence |-> s]]
  <2>1. n = [m EXCEPT !.pending = q]
    BY <1>2 DEF statisticsJobsLocked
  <2>2. /\ r.game \in 1 .. MaxGames /\ r.team = tm[r.game] /\ r.game <= Len(tm)
        /\ r.phase = "over" /\ r.game \notin DOMAIN p /\ ~r.saved
    BY <1>0, <1>2, LobbyFields DEF SoundRoom
  <2>3. r.team \in Teams
    BY <2>2
  <2>4. /\ DOMAIN p \subseteq 1 .. MaxGames
        /\ \A g \in DOMAIN p : /\ g < r.game /\ p[g].sequence \in 1 .. MaxGames
                               /\ p[g].sequence <= g /\ p[g].team = tm[g]
                               /\ p[g] \in Records
    <3>1. /\ DOMAIN p \subseteq 1 .. MaxGames /\ p \in [DOMAIN p -> Records]
          /\ \A g \in DOMAIN p : p[g].sequence \in 1 .. MaxGames
      BY <1>0, LobbyFields
    <3>2. \A g \in DOMAIN p : g <= r.game /\ p[g].sequence <= g /\ p[g].team = tm[g]
      BY <1>0 DEF SoundPending
    <3> QED BY <3>1, <3>2, <2>2
  <2>5. S \in SUBSET Nat /\ S # {} /\ r.game - 1 \in Nat /\ \A x \in S : x <= r.game - 1
    BY <2>2, <2>4
  <2>6. Max(S) \in S /\ \A x \in S : x <= Max(S)
    <3> HIDE DEF S
    <3> QED BY <2>5, GreatestNatural
  <2>7. s \in 1 .. r.game /\ \A g \in DOMAIN p : p[g].sequence < s
    <3>1. Max(S) \in Nat /\ Max(S) <= r.game - 1
      BY <2>5, <2>6
    <3>2. \A g \in DOMAIN p : p[g].sequence \in S
      OBVIOUS
    <3> HIDE DEF S
    <3> QED BY <3>1, <3>2, <2>2, <2>4, <2>6
  <2> HIDE DEF s
  <2>8. /\ DOMAIN q = DOMAIN p \cup {r.game} /\ q[r.game] = [team |-> r.team, sequence |-> s]
        /\ \A g \in DOMAIN p : q[g] = p[g]
    BY <2>2
  <2>9. q \in Pendings
    <3>1. [team |-> r.team, sequence |-> s] \in Records
      <4>1. s \in 1 .. MaxGames
        BY <2>2, <2>7, TransactionAssumption
      <4> QED BY <4>1, <2>3 DEF Records
    <3>2. q \in [DOMAIN q -> Records] /\ DOMAIN q \subseteq 1 .. MaxGames
      BY <3>1, <2>2, <2>4
    <3> HIDE DEF q
    <3> QED BY <3>2, PendingsIntro
  <2> HIDE DEF q
  <2>10. n \in Lobbies /\ n.room = r /\ n.pending = q
    BY <1>0, <2>1, <2>9 DEF Lobbies
  <2> HIDE DEF n
  <2>11. SoundRoom(n, tm, lg) /\ Keeps(n, lg, fin) /\ Recorded(n)
    BY <1>0, <2>8, <2>10 DEF SoundRoom, Keeps, Recorded
  <2>12. \A g \in DOMAIN q : g <= r.game /\ q[g].team = tm[g] /\ q[g].sequence <= g
    BY <2>2, <2>4, <2>7, <2>8
  <2>13. ASSUME NEW g \in DOMAIN q, NEW h \in DOMAIN q, g < h
         PROVE  q[g].sequence < q[h].sequence
    <3>1. g \in DOMAIN p
      BY <2>2, <2>4, <2>8, <2>13
    <3>2. CASE h \in DOMAIN p
      BY <1>0, <2>8, <2>13, <3>1, <3>2 DEF SoundPending
    <3>3. CASE h = r.game
      BY <2>7, <2>8, <3>1, <3>3
    <3> QED BY <2>8, <3>2, <3>3
  <2>14. SoundPending(n, tm)
    BY <2>10, <2>12, <2>13 DEF SoundPending
  <2>15. Sound(n, tm, lg, fin)
    BY <2>10, <2>11, <2>14 DEF Sound
  <2> QED BY <2>10, <2>11, <2>15 DEF n
<1> QED BY <1>1, <1>2

\* What the ledger contains after one more game.
LEMMA ContainsAppend ==
  ASSUME NEW lg \in Seq(1 .. MaxGames), NEW g \in 1 .. MaxGames
  PROVE  \A h : Contains(Append(lg, g), h) <=> Contains(lg, h) \/ h = g
<1>1. /\ Len(Append(lg, g)) = Len(lg) + 1 /\ Append(lg, g)[Len(lg) + 1] = g
      /\ \A i \in 1 .. Len(lg) : Append(lg, g)[i] = lg[i]
  OBVIOUS
<1>2. Len(lg) \in Nat
  OBVIOUS
<1>3. ASSUME NEW h, Contains(lg, h) \/ h = g PROVE Contains(Append(lg, g), h)
  BY <1>1, <1>2, <1>3 DEF Contains
<1>4. ASSUME NEW h, Contains(Append(lg, g), h) PROVE Contains(lg, h) \/ h = g
  BY <1>1, <1>2, <1>4 DEF Contains
<1> QED BY <1>3, <1>4

\* Beginning another game keeps every copy sound.
LEMMA SoundTeams ==
  ASSUME NEW m, NEW tm \in Seq(Teams), NEW lg, NEW fin, Sound(m, tm, lg, fin),
         NEW t \in Teams
  PROVE  Sound(m, Append(tm, t), lg, fin)
<1>1. /\ Len(Append(tm, t)) = Len(tm) + 1 /\ Len(tm) \in Nat
      /\ \A i \in 1 .. Len(tm) : Append(tm, t)[i] = tm[i]
  OBVIOUS
<1>2. m \in Lobbies /\ SoundRoom(m, tm, lg) /\ SoundPending(m, tm) /\ Keeps(m, lg, fin)
  BY DEF Sound
<1>3. m.room.game \in Nat /\ DOMAIN m.pending \subseteq 1 .. MaxGames
  BY <1>2, LobbyFields
<1>4. SoundRoom(m, Append(tm, t), lg)
  BY <1>1, <1>2, <1>3 DEF SoundRoom
<1>5. \A g \in DOMAIN m.pending : g \in 1 .. Len(tm)
  BY <1>1, <1>2, <1>3, TransactionAssumption DEF SoundPending, SoundRoom
<1>6. SoundPending(m, Append(tm, t))
  BY <1>1, <1>2, <1>5 DEF SoundPending
<1> QED BY <1>2, <1>4, <1>6 DEF Sound

\* Writing a game no later than its room keeps a copy sound.
LEMMA SoundLedger ==
  ASSUME NEW m, NEW tm, NEW lg \in Seq(1 .. MaxGames), NEW fin,
         Sound(m, tm, lg, fin), NEW g \in 1 .. MaxGames, g <= m.room.game
  PROVE  Sound(m, tm, Append(lg, g), fin)
<1>1. m \in Lobbies /\ SoundRoom(m, tm, lg) /\ SoundPending(m, tm) /\ Keeps(m, lg, fin)
  BY DEF Sound
<1>2. \A h : Contains(lg, h) => Contains(Append(lg, g), h)
  BY ContainsAppend
<1>3. \A j \in 1 .. Len(Append(lg, g)) : Append(lg, g)[j] <= m.room.game
  BY <1>1 DEF SoundRoom
<1>4. SoundRoom(m, tm, Append(lg, g)) /\ Keeps(m, Append(lg, g), fin)
  BY <1>1, <1>2, <1>3 DEF SoundRoom, Keeps
<1> QED BY <1>1, <1>4 DEF Sound

\* Showing the end of a recorded game keeps the copy sound.
LEMMA SoundFinished ==
  ASSUME NEW m, NEW tm, NEW lg, NEW fin, Sound(m, tm, lg, fin), Recorded(m)
  PROVE  Sound(m, tm, lg, fin \cup {g \in {m.room.game} : m.room.phase = "over"})
<1>1. SoundRoom(m, tm, lg) /\ Keeps(m, lg, fin)
  BY DEF Sound
<1>2. Keeps(m, lg, fin \cup {g \in {m.room.game} : m.room.phase = "over"})
  BY <1>1 DEF Keeps, Recorded, SoundRoom
<1> QED BY <1>2 DEF Sound

\* Dropping the record of a written game leaves a lobby with the same room but for its mark.
LEMMA SettledFields ==
  ASSUME NEW m \in Lobbies, NEW g \in DOMAIN m.pending
  PROVE  LET n == settled(m, g, TRUE)
         IN  /\ n \in Lobbies /\ view(n.room) = view(m.room)
             /\ (n.room.saved <=> m.room.saved \/ m.room.game = g)
             /\ DOMAIN n.pending = DOMAIN m.pending \ {g}
             /\ \A h \in DOMAIN m.pending \ {g} : n.pending[h] = m.pending[h]
<1> DEFINE n == settled(m, g, TRUE)
           p == m.pending
           q == [h \in DOMAIN p \ {g} |-> p[h]]
<1>1. m.room \in Rooms /\ DOMAIN p \subseteq 1 .. MaxGames /\ p \in [DOMAIN p -> Records]
  BY LobbyFields
<1>2. DOMAIN q = DOMAIN p \ {g} /\ \A h \in DOMAIN q : q[h] = p[h]
  OBVIOUS
<1>3. q \in Pendings
  <2>1. q \in [DOMAIN q -> Records] /\ DOMAIN q \subseteq 1 .. MaxGames
    BY <1>1
  <2> HIDE DEF q
  <2> QED BY <2>1, PendingsIntro
<1>4. n = [m EXCEPT !.pending = q, !.room.saved = @ \/ m.room.game = g]
  BY DEF settled
<1> HIDE DEF q, n
<1>5. /\ n \in [room : Rooms, pending : Pendings] /\ n.pending = q
      /\ n.room = [m.room EXCEPT !.saved = @ \/ m.room.game = g]
  <2>1. m \in [room : Rooms, pending : Pendings]
    BY DEF Lobbies
  <2>2. [m.room EXCEPT !.saved = @ \/ m.room.game = g] \in Rooms
    BY <1>1 DEF Rooms
  <2> QED BY <1>3, <1>4, <2>1, <2>2
<1>6. /\ n.room.game = m.room.game /\ n.room.team = m.room.team
      /\ n.room.phase = m.room.phase /\ (n.room.saved <=> m.room.saved \/ m.room.game = g)
  BY <1>1, <1>5 DEF Rooms
<1>7. view(n.room) = view(m.room) /\ n \in Lobbies
  BY <1>5, <1>6 DEF view, Lobbies
<1> QED BY <1>2, <1>5, <1>6, <1>7 DEF n

\* Such a lobby is as sound as it was.
LEMMA SettledSound ==
  ASSUME NEW m, NEW tm, NEW lg, NEW fin, Sound(m, tm, lg, fin), Recorded(m),
         NEW g \in DOMAIN m.pending, Contains(lg, g),
         NEW n \in Lobbies, view(n.room) = view(m.room),
         (n.room.saved <=> m.room.saved \/ m.room.game = g),
         DOMAIN n.pending = DOMAIN m.pending \ {g},
         \A h \in DOMAIN m.pending \ {g} : n.pending[h] = m.pending[h]
  PROVE  Sound(n, tm, lg, fin) /\ Recorded(n) /\ n.room.game = m.room.game
<1>1. m \in Lobbies /\ SoundRoom(m, tm, lg) /\ SoundPending(m, tm) /\ Keeps(m, lg, fin)
  BY DEF Sound
<1>2. /\ n.room.game = m.room.game /\ n.room.team = m.room.team
      /\ n.room.phase = m.room.phase
  BY DEF view
<1>3. SoundRoom(n, tm, lg) /\ SoundPending(n, tm)
  BY <1>1, <1>2 DEF SoundRoom, SoundPending
<1>4. Keeps(n, lg, fin) /\ Recorded(n)
  BY <1>1, <1>2 DEF Keeps, Recorded
<1> QED BY <1>2, <1>3, <1>4 DEF Sound

-----------------------------------------------------------------------------
(***************************************************************************)
(* The inductive invariant.                                                *)
(***************************************************************************)
\* The server begins with an empty lobby, in memory and in the database.
LEMMA InitTransaction == Init => TransactionInv
<1> SUFFICES ASSUME Init PROVE TransactionInv
  OBVIOUS
<1>1. Empty.room = NoTeam /\ Empty.pending = NoPending /\ DOMAIN NoPending = {}
  BY DEF Empty, NoPending
<1>2. Empty \in Lobbies
  <2>1. NoTeam \in Rooms
    BY TransactionAssumption DEF NoTeam, Rooms
  <2>2. NoPending \in [DOMAIN NoPending -> Records]
    BY DEF NoPending
  <2>3. NoPending \in Pendings
    BY <1>1, <2>2, PendingsIntro
  <2> QED BY <2>1, <2>3 DEF Empty, Lobbies
<1>3. Sound(Empty, <<>>, <<>>, {})
  BY <1>1, <1>2 DEF Sound, SoundRoom, SoundPending, Keeps, NoTeam
<1>4. Recorded(Empty)
  BY <1>1 DEF Recorded, NoTeam
<1>5. Histories
  BY TransactionAssumption DEF Init, Histories, StatisticsInOrder, IsInjective
<1> QED BY <1>3, <1>4, <1>5 DEF Init, TransactionInv, IsSound, Copies, Writing

\* A room may stay as it is.
LEMMA CommandsStay ==
  ASSUME NEW r
  PROVE  r \in Abstract!Commands(r)
  BY DEF Abstract!Commands

\* The body of a command makes of the room what AtomicLobby allows, and keeps it sound.
LEMMA CommandSound ==
  ASSUME TransactionInv, Command
  PROVE  /\ teams' \in Seq(Teams) /\ Len(teams') <= MaxGames
         /\ teams' = teams \/ \E t \in Teams : teams' = Append(teams, t)
         /\ Sound(mem', teams', ledger, finished)
         /\ view(mem'.room) \in Abstract!Commands(view(mem.room))
<1> DEFINE CommandGoal ==
             /\ teams' \in Seq(Teams) /\ Len(teams') <= MaxGames
             /\ teams' = teams \/ \E t \in Teams : teams' = Append(teams, t)
             /\ Sound(mem', teams', ledger, finished)
             /\ view(mem'.room) \in Abstract!Commands(view(mem.room))
<1>1. /\ teams \in Seq(Teams) /\ Len(teams) <= MaxGames /\ Len(teams) \in Nat
      /\ Sound(mem, teams, ledger, finished)
  BY DEF TransactionInv, Histories, IsSound
<1>2. /\ mem \in Lobbies /\ SoundRoom(mem, teams, ledger) /\ SoundPending(mem, teams)
      /\ Keeps(mem, ledger, finished)
  BY <1>1 DEF Sound
<1>3. /\ mem.room \in Rooms /\ mem.room.game \in 0 .. MaxGames
      /\ DOMAIN mem.pending \subseteq 1 .. MaxGames
  BY <1>2, LobbyFields
<1>4. ASSUME mem.room.phase = "none", Len(teams) < MaxGames, NEW t \in Teams,
             teams' = Append(teams, t),
             mem' = [mem EXCEPT !.room = [game |-> Len(teams'), team |-> t,
                                          phase |-> "playing", saved |-> FALSE]]
      PROVE  CommandGoal
  <2> DEFINE r == [game |-> Len(teams) + 1, team |-> t, phase |-> "playing", saved |-> FALSE]
  <2>1. teams' \in Seq(Teams) /\ Len(teams') = Len(teams) + 1 /\ teams'[Len(teams) + 1] = t
    BY <1>1, <1>4
  <2>2. Sound(mem, teams', ledger, finished)
    BY <1>1, <1>4, SoundTeams
  <2>3. r \in Rooms
    BY <1>1, <1>4, TransactionAssumption DEF Rooms
  <2>4. mem' \in Lobbies /\ mem'.room = r /\ mem'.pending = mem.pending
    BY <1>2, <1>4, <2>1, <2>3 DEF Lobbies
  <2>5. mem.room.game <= Len(teams)
    BY <1>2 DEF SoundRoom
  <2>6. SoundPending(mem', teams')
    BY <1>3, <2>2, <2>4, <2>5, <1>1, TransactionAssumption DEF Sound, SoundPending
  <2>7. \A j \in 1 .. Len(ledger) : ledger[j] <= r.game
    <3>1. \A j \in 1 .. Len(ledger) : ledger[j] \in Nat
      BY TransactionAssumption DEF TransactionInv, Histories
    <3>2. \A j \in 1 .. Len(ledger) : ledger[j] <= mem.room.game
      BY <1>2 DEF SoundRoom
    <3>3. mem.room.game \in Nat /\ r.game = Len(teams) + 1
      BY <1>3
    <3> QED BY <1>1, <2>5, <3>1, <3>2, <3>3
  <2>8. SoundRoom(mem', teams', ledger) /\ Keeps(mem', ledger, finished)
    BY <1>1, <1>2, <2>1, <2>4, <2>7 DEF SoundRoom, Keeps
  <2>9. view(mem'.room) \in Abstract!Commands(view(mem.room))
    <3> DEFINE v == view(mem.room)
               w == [game |-> Len(teams) + 1, team |-> t, phase |-> "playing"]
    <3>1. view(mem'.room) = w
      BY <2>4 DEF view
    <3>2. v.game = mem.room.game /\ v.phase = "none"
      BY <1>4 DEF view
    <3>3. Len(teams) + 1 \in {n \in (v.game + 1) .. MaxGames : v.phase = "none"}
      BY <1>1, <1>3, <1>4, <2>5, <3>2, TransactionAssumption
    <3> HIDE DEF v
    <3>4. w \in Abstract!Commands(v)
      BY <3>3 DEF Abstract!Commands
    <3> QED BY <3>1, <3>4 DEF v
  <2>10. Sound(mem', teams', ledger, finished)
    BY <2>4, <2>6, <2>8 DEF Sound
  <2>11. Len(teams') <= MaxGames
    BY <1>1, <1>4, <2>1, TransactionAssumption
  <2> QED BY <1>4, <2>1, <2>9, <2>10, <2>11
<1>5. ASSUME mem.room.phase = "playing", teams' = teams,
             mem' = [mem EXCEPT !.room.phase = "over"]
      PROVE  CommandGoal
  <2>1. mem' \in Lobbies /\ mem'.room = [mem.room EXCEPT !.phase = "over"]
        /\ mem'.pending = mem.pending
    BY <1>2, <1>3, <1>5 DEF Lobbies, Rooms
  <2>2. /\ mem'.room.game = mem.room.game /\ mem'.room.team = mem.room.team
        /\ mem'.room.phase = "over" /\ mem'.room.saved = mem.room.saved
    BY <1>3, <2>1 DEF Rooms
  <2>3. Sound(mem', teams', ledger, finished)
    BY <1>2, <1>5, <2>1, <2>2 DEF Sound, SoundRoom, SoundPending, Keeps
  <2>4. view(mem'.room) \in Abstract!Commands(view(mem.room))
    BY <1>5, <2>2 DEF Abstract!Commands, view
  <2> QED BY <1>1, <1>5, <2>3, <2>4
<1>6. ASSUME mem.room.phase = "over", teams' = teams,
             mem' = [mem EXCEPT !.room.phase = "none", !.room.saved = FALSE]
      PROVE  CommandGoal
  <2>1. mem' \in Lobbies /\ mem'.room = [mem.room EXCEPT !.phase = "none", !.saved = FALSE]
        /\ mem'.pending = mem.pending
    BY <1>2, <1>3, <1>6 DEF Lobbies, Rooms
  <2>2. /\ mem'.room.game = mem.room.game /\ mem'.room.team = mem.room.team
        /\ mem'.room.phase = "none" /\ mem'.room.saved = FALSE
    BY <1>3, <2>1 DEF Rooms
  <2>3. Sound(mem', teams', ledger, finished)
    BY <1>2, <1>6, <2>1, <2>2 DEF Sound, SoundRoom, SoundPending, Keeps
  <2>4. view(mem'.room) \in Abstract!Commands(view(mem.room))
    BY <1>6, <2>2 DEF Abstract!Commands, view
  <2> QED BY <1>1, <1>6, <2>3, <2>4
<1>7. CASE UNCHANGED <<mem, teams>>
  BY <1>1, <1>7, CommandsStay
<1> QED BY <1>4, <1>5, <1>6, <1>7 DEF Command

\* While the histories stand still, what the invariant says of them does.
LEMMA HistoriesKept ==
  ASSUME Histories, UNCHANGED <<teams, ledger, finished>>, blocked' \in {blocked, {}}
  PROVE  Histories'
  BY DEF Histories, StatisticsInOrder, IsInjective

\* lockMutation keeps a copy of a sound lobby.
LEMMA LockStep ==
  ASSUME TransactionInv, lockMutation
  PROVE  TransactionInv'
<1>1. Histories'
  BY HistoriesKept DEF TransactionInv, lockMutation
<1> QED BY <1>1 DEF TransactionInv, lockMutation, IsSound, Copies, Writing, Recorded

\* The body of a command can be undone.
LEMMA CommandStep ==
  ASSUME TransactionInv, Command
  PROVE  TransactionInv'
<1>1. /\ teams' \in Seq(Teams) /\ Len(teams') <= MaxGames
      /\ teams' = teams \/ \E t \in Teams : teams' = Append(teams, t)
      /\ Sound(mem', teams', ledger, finished)
      /\ view(mem'.room) \in Abstract!Commands(view(mem.room))
  BY CommandSound
<1>2. /\ pc = "locked" /\ pc' = "changed" /\ before = mem /\ Recorded(mem)
      /\ UNCHANGED <<before, tentative, disk, jobs, blocked, ledger, finished>>
  BY DEF Command, TransactionInv, Copies
<1>3. teams \in Seq(Teams) /\ Histories /\ Len(teams) \in Nat /\ IsSound(mem) /\ IsSound(disk) /\ Recorded(disk)
  BY DEF TransactionInv, Histories
<1>4. \A g \in 1 .. Len(teams) : teams'[g] = teams[g] /\ g \in 1 .. Len(teams')
  BY <1>1, <1>3
<1>5. /\ Sound(mem, teams', ledger, finished)
      /\ Sound(disk, teams', ledger, finished)
  BY <1>1, <1>3, SoundTeams DEF IsSound
<1>6. \A j \in 1 .. Len(ledger) : ledger[j] \in 1 .. Len(teams)
  <2>1. /\ \A j \in 1 .. Len(ledger) : ledger[j] \in 1 .. MaxGames /\ ledger[j] <= mem.room.game
        /\ mem.room.game \in Nat /\ mem.room.game <= Len(teams)
    <3>1. mem \in Lobbies /\ SoundRoom(mem, teams, ledger) /\ ledger \in Seq(1 .. MaxGames)
      BY <1>3 DEF Histories, IsSound, Sound
    <3>2. mem.room.game \in Nat
      BY <3>1, LobbyFields
    <3>3. \A j \in 1 .. Len(ledger) : ledger[j] \in 1 .. MaxGames
      BY <3>1, TransactionAssumption
    <3>4. mem.room.game <= Len(teams) /\ \A j \in 1 .. Len(ledger) : ledger[j] <= mem.room.game
      BY <3>1 DEF SoundRoom
    <3> QED BY <3>2, <3>3, <3>4
  <2> QED BY <2>1, <1>3, TransactionAssumption
<1>7. StatisticsInOrder'
  <2>1. DOMAIN ledger = 1 .. Len(ledger)
    BY <1>3 DEF Histories
  <2>2. \A j \in DOMAIN ledger : teams'[ledger[j]] = teams[ledger[j]]
    BY <1>4, <1>6, <2>1
  <2>3. \A g \in finished : teams'[g] = teams[g]
    BY <1>3, <1>4 DEF Histories
  <2> QED BY <1>2, <1>3, <2>2, <2>3 DEF Histories, StatisticsInOrder
<1>8. Histories'
  BY <1>1, <1>2, <1>3, <1>4, <1>7 DEF Histories, IsInjective
<1>9. Copies' /\ Writing'
  BY <1>1, <1>2, <1>5 DEF Copies, Writing, Undoes, IsSound, Recorded
<1> QED BY <1>1, <1>2, <1>3, <1>5, <1>8, <1>9 DEF TransactionInv, IsSound, Recorded

\* What rolling back would give is sound and has its records.
LEMMA RolledBackSound ==
  ASSUME TransactionInv
  PROVE  IsSound(rolledBack) /\ Recorded(rolledBack)
<1>1. /\ IsSound(mem) /\ mem \in Lobbies /\ Copies
      /\ pc \in {"idle", "locked", "changed", "saving", "saved", "writing", "marking"}
  BY DEF TransactionInv, IsSound, Sound
<1>2. CASE pc \in {"idle", "writing", "marking"}
  BY <1>1, <1>2 DEF rolledBack, Copies
<1>3. CASE pc = "locked"
  BY <1>1, <1>3 DEF rolledBack, Copies
<1>4. ASSUME IsSound(before), Recorded(before)
      PROVE  IsSound(rolledBack) /\ Recorded(rolledBack)
  <2>1. before # None
    BY <1>4, LobbyIsSome DEF IsSound, Sound
  <2> QED BY <1>4, <2>1 DEF rolledBack
<1>5. CASE pc = "changed"
  BY <1>1, <1>4, <1>5 DEF Copies, Undoes
<1>6. CASE pc \in {"saving", "saved"}
  <2>1. CASE before = None /\ mem = tentative
    BY <1>1, <1>6, <2>1 DEF rolledBack, Copies
  <2> QED BY <1>1, <1>4, <1>6, <2>1 DEF Copies, Undoes
<1> QED BY <1>1, <1>2, <1>3, <1>5, <1>6

\* A refused command leaves what was before it.
LEMMA RefusedStep ==
  ASSUME TransactionInv, Refused
  PROVE  TransactionInv'
<1>1. IsSound(rolledBack) /\ Recorded(rolledBack)
  BY RolledBackSound DEF Refused
<1>2. Histories'
  BY HistoriesKept DEF TransactionInv, Refused, unlock
<1>3. mem' = rolledBack /\ before' = None /\ pc' = "idle" /\ UNCHANGED <<disk, teams, ledger, finished>>
  BY DEF Refused, unlock
<1> QED BY <1>1, <1>2, <1>3 DEF TransactionInv, IsSound, Copies, Writing, Recorded

\* persistLocked saves a sound state, and shows the copy or that state meanwhile.
LEMMA PersistStep ==
  ASSUME TransactionInv, persistLocked(mem),
         \/ pc = "idle" \/ pc = "changed"
  PROVE  TransactionInv'
<1>1. /\ Sound(mem, teams, ledger, finished) /\ teams \in Seq(Teams) /\ Len(teams) <= MaxGames
      /\ pc' = "saving" /\ tentative' = statisticsJobsLocked(mem)
      /\ mem' = IF before # None THEN before ELSE tentative'
      /\ UNCHANGED <<before, disk, blocked, teams, ledger, finished>>
  BY DEF TransactionInv, Histories, IsSound, persistLocked
<1>2. /\ Sound(tentative', teams, ledger, finished) /\ Recorded(tentative')
      /\ tentative'.room = mem.room
  BY <1>1, JobsSound
<1>3. Histories'
  BY <1>1, HistoriesKept DEF TransactionInv
<1>4. CASE pc = "idle"
  <2>1. before = None /\ mem' = tentative'
    BY <1>1, <1>4 DEF TransactionInv, Copies
  <2> QED BY <1>1, <1>2, <1>3, <2>1 DEF TransactionInv, IsSound, Copies, Writing, Recorded
<1>5. CASE pc = "changed"
  <2>1. Undoes(mem) /\ before # None
    BY <1>5, LobbyIsSome DEF TransactionInv, Copies, Undoes, IsSound, Sound
  <2>2. Sound(before, teams, ledger, finished) /\ Recorded(before) /\ mem' = before
    BY <1>1, <2>1 DEF Undoes, IsSound
  <2>3. view(tentative'.room) \in Abstract!Commands(view(before.room))
    BY <1>2, <2>1 DEF Undoes
  <2>4. Undoes(tentative)'
    BY <1>1, <2>2, <2>3 DEF Undoes, IsSound, Recorded
  <2> QED BY <1>1, <1>2, <1>3, <2>2, <2>4 DEF TransactionInv, IsSound, Copies, Writing, Recorded
<1> QED BY <1>4, <1>5

\* A save that succeeds makes the state being saved durable.
LEMMA SaveStep ==
  ASSUME TransactionInv, SaveSucceeds
  PROVE  TransactionInv'
<1>1. /\ pc = "saving" /\ pc' = "saved" /\ disk' = tentative
      /\ UNCHANGED <<mem, before, tentative, blocked, teams, ledger, finished>>
  BY DEF SaveSucceeds
<1>2. Histories'
  BY <1>1, HistoriesKept DEF TransactionInv
<1>3. IsSound(tentative) /\ Recorded(tentative)
  BY <1>1 DEF TransactionInv, Copies
<1> QED BY <1>1, <1>2, <1>3
        DEF TransactionInv, IsSound, Copies, Writing, Recorded, Undoes

\* A save that fails is rolled back, whether or not it was written.
LEMMA SaveFailsStep ==
  ASSUME TransactionInv, SaveFails
  PROVE  TransactionInv'
<1>1. IsSound(rolledBack) /\ Recorded(rolledBack)
  BY RolledBackSound
<1>2. /\ mem' = rolledBack /\ before' = None /\ pc' = "idle" /\ pc = "saving"
      /\ disk' \in {disk, tentative}
      /\ UNCHANGED <<blocked, teams, ledger, finished>>
  BY DEF SaveFails, unlock
<1>3. Histories'
  BY <1>2, HistoriesKept DEF TransactionInv
<1>4. IsSound(disk)' /\ Recorded(disk)'
  <2>1. IsSound(tentative) /\ Recorded(tentative) /\ IsSound(disk) /\ Recorded(disk)
    BY <1>2 DEF TransactionInv, Copies
  <2> QED BY <1>2, <2>1 DEF IsSound, Recorded
<1>5. IsSound(mem)' /\ Recorded(mem)'
  BY <1>1, <1>2 DEF IsSound, Recorded
<1> QED BY <1>2, <1>3, <1>4, <1>5 DEF TransactionInv, Copies, Writing

\* The games that players see end become known to the histories in order.
LEMMA FinishedKept ==
  ASSUME Histories, NEW m, IsSound(m),
         UNCHANGED <<teams, ledger>>, blocked' = {}, finished' = seenToEnd(m)
  PROVE  Histories'
<1>1. m \in Lobbies /\ SoundRoom(m, teams, ledger)
  BY DEF IsSound, Sound
<1>2. m.room.game \in Nat /\ Len(teams) \in Nat /\ DOMAIN ledger = 1 .. Len(ledger)
      /\ \A j \in DOMAIN ledger : ledger[j] \in Nat
  BY <1>1, LobbyFields, TransactionAssumption DEF Histories
<1>3. finished' \subseteq 1 .. Len(teams)
  <2>1. m.room.phase = "over" => m.room.game > 0 /\ m.room.game <= Len(teams)
    BY <1>1 DEF SoundRoom
  <2>2. finished \subseteq 1 .. Len(teams)
    BY DEF Histories
  <2>3. finished' = finished \cup {g \in {m.room.game} : m.room.phase = "over"}
    BY DEF seenToEnd
  <2>4. {g \in {m.room.game} : m.room.phase = "over"} \subseteq 1 .. Len(teams)
    BY <1>2, <2>1
  <2> QED BY <2>2, <2>3, <2>4
<1>4. StatisticsInOrder'
  <2> SUFFICES ASSUME NEW j \in DOMAIN ledger, NEW g \in finished',
                      g < ledger[j], teams[g] \cap teams[ledger[j]] # {}
               PROVE  \E i \in 1 .. j - 1 : ledger[i] = g
    BY DEF StatisticsInOrder
  <2>1. ledger[j] <= m.room.game
    BY <1>1, <1>2 DEF SoundRoom
  <2>2. g # m.room.game
    BY <1>2, <2>1
  <2>3. g \in finished
    BY <2>2 DEF seenToEnd
  <2> QED BY <2>3 DEF Histories, StatisticsInOrder
<1> QED BY <1>3, <1>4 DEF Histories, IsInjective

\* Commit shows what is durable and sets out to write the statistics.
LEMMA CommitStep ==
  ASSUME TransactionInv, Commit
  PROVE  TransactionInv'
<1>1. /\ pc = "saved" /\ pc' = "writing" /\ mem' = tentative /\ before' = None
      /\ jobs' = DOMAIN tentative.pending /\ blocked' = {}
      /\ finished' = seenToEnd(tentative) /\ UNCHANGED <<disk, ledger, teams>>
  BY DEF Commit
<1>2. disk = tentative /\ IsSound(tentative) /\ Recorded(tentative)
  BY <1>1 DEF TransactionInv, Copies
<1>3. Histories'
  BY <1>1, <1>2, FinishedKept DEF TransactionInv
<1>4. Sound(tentative, teams, ledger, finished')
  BY <1>1, <1>2, SoundFinished DEF IsSound, seenToEnd
<1> QED BY <1>1, <1>2, <1>3, <1>4
        DEF TransactionInv, IsSound, Copies, Writing, Recorded

\* A restart finds a sound lobby that has its records.
LEMMA RestoreStep ==
  ASSUME TransactionInv, restorePersistedState
  PROVE  TransactionInv'
<1>1. /\ mem' = disk /\ before' = None /\ pc' = "idle" /\ blocked' = {}
      /\ finished' = seenToEnd(disk) /\ UNCHANGED <<disk, ledger, teams>>
  BY DEF restorePersistedState
<1>2. IsSound(disk) /\ Recorded(disk)
  BY DEF TransactionInv
<1>3. Histories'
  BY <1>1, <1>2, FinishedKept DEF TransactionInv
<1>4. Sound(disk, teams, ledger, finished')
  BY <1>1, <1>2, SoundFinished DEF IsSound, seenToEnd
<1> QED BY <1>1, <1>2, <1>3, <1>4
        DEF TransactionInv, IsSound, Copies, Writing, Recorded

\* One more game in the ledger, of which every earlier finished game that shares a player
\* is there already, leaves the statistics in order.
LEMMA LedgerKept ==
  ASSUME Histories, UNCHANGED <<teams, finished>>, blocked' \subseteq Players,
         NEW g \in 1 .. MaxGames, ~Contains(ledger, g), ledger' = Append(ledger, g),
         \A h \in finished : h < g /\ teams[h] \cap teams[g] # {} => Contains(ledger, h)
  PROVE  Histories'
<1>1. ledger \in Seq(1 .. MaxGames) /\ Len(ledger) \in Nat /\ DOMAIN ledger = 1 .. Len(ledger)
  BY DEF Histories
<1>2. /\ ledger' \in Seq(1 .. MaxGames) /\ DOMAIN ledger' = 1 .. Len(ledger) + 1
      /\ ledger'[Len(ledger) + 1] = g /\ \A i \in 1 .. Len(ledger) : ledger'[i] = ledger[i]
  BY <1>1
<1>3. IsInjective(ledger')
  BY <1>1, <1>2 DEF Histories, IsInjective, Contains
<1>4. StatisticsInOrder'
  <2> SUFFICES ASSUME NEW j \in 1 .. Len(ledger) + 1, NEW h \in finished,
                      h < ledger'[j], teams[h] \cap teams[ledger'[j]] # {}
               PROVE  \E i \in 1 .. j - 1 : ledger'[i] = h
    BY <1>2 DEF StatisticsInOrder
  <2>1. CASE j = Len(ledger) + 1
    <3>1. PICK i \in 1 .. Len(ledger) : ledger[i] = h
      BY <1>2, <2>1 DEF Contains
    <3> QED BY <1>1, <1>2, <2>1, <3>1
  <2>2. CASE j \in 1 .. Len(ledger)
    <3>1. PICK i \in 1 .. j - 1 : ledger[i] = h
      BY <1>1, <1>2, <2>2 DEF Histories, StatisticsInOrder
    <3> QED BY <1>1, <1>2, <2>2, <3>1
  <2> QED BY <1>1, <2>1, <2>2
<1> QED BY <1>2, <1>3, <1>4 DEF Histories

\* Writing the statistics of a game: those of its players' earlier games were written before.
LEMMA WriteStep ==
  ASSUME TransactionInv, WriteStatistics
  PROVE  TransactionInv'
<1>1. PICK g \in jobs :
        LET team == mem.pending[g].team
            skipped == blocked \cap team # {}
            ok == ~skipped /\ ~down
        IN  /\ terminalJobs(g) /\ jobs' = jobs \ {g}
            /\ mem' = settled(mem, g, ok)
            /\ blocked' = IF ok THEN blocked ELSE blockedAfter(team, skipped)
            /\ \/ ledger' = IF ok /\ ~Contains(ledger, g)
                            THEN Append(ledger, g) ELSE ledger
               \/ /\ ~ok /\ ~skipped /\ ~Contains(ledger, g)
                  /\ ledger' = Append(ledger, g)
  BY DEF WriteStatistics
<1>2. /\ pc = "writing" /\ UNCHANGED <<before, pc, tentative, disk, finished, teams>>
      /\ IsSound(mem) /\ IsSound(disk) /\ Recorded(disk) /\ Histories
      /\ before = None /\ Recorded(mem)
  BY DEF WriteStatistics, TransactionInv, Copies
<1>3. /\ disk.room.game = mem.room.game /\ jobs \subseteq DOMAIN mem.pending
      /\ \A h \in DOMAIN mem.pending \ jobs : mem.pending[h].team \subseteq blocked
  BY <1>2 DEF TransactionInv, Writing
<1>4. /\ mem \in Lobbies /\ SoundPending(mem, teams) /\ Keeps(mem, ledger, finished)
      /\ ledger \in Seq(1 .. MaxGames) /\ g \in DOMAIN mem.pending
      /\ blocked \subseteq Players
  BY <1>2, <1>3 DEF IsSound, Sound, Histories
<1>5. /\ mem.pending[g].team \subseteq Players /\ g \in 1 .. MaxGames /\ g <= mem.room.game
      /\ DOMAIN mem.pending \subseteq 1 .. MaxGames
      /\ \A h \in DOMAIN mem.pending : mem.pending[h].sequence \in Nat
  BY <1>4, LobbyFields, TransactionAssumption DEF SoundPending
<1>6. blocked' \subseteq Players /\ blocked \subseteq blocked'
  BY <1>1, <1>4, <1>5 DEF blockedAfter
<1>7. ASSUME blocked \cap mem.pending[g].team = {}
      PROVE  \A h \in finished : h < g /\ teams[h] \cap teams[g] # {} => Contains(ledger, h)
  <2> SUFFICES ASSUME NEW h \in finished, h < g, teams[h] \cap teams[g] # {},
                      h \in DOMAIN mem.pending
               PROVE  FALSE
    BY <1>4 DEF Keeps
  <2>1. mem.pending[h].team = teams[h] /\ mem.pending[g].team = teams[g]
    BY <1>4 DEF SoundPending
  <2>2. ~(mem.pending[h].team \subseteq blocked)
    BY <1>7, <2>1
  <2>3. h \in jobs
    BY <1>3, <2>2
  <2>4. mem.pending[h].sequence < mem.pending[g].sequence
    BY <1>4 DEF SoundPending
  <2>5. mem.pending[g].sequence <= mem.pending[h].sequence
    BY <1>1, <2>3 DEF terminalJobs
  <2> QED BY <1>4, <1>5, <2>4, <2>5
<1>8. Histories' /\ IsSound(disk)' /\ Sound(mem, teams, ledger', finished)
  <2>1. CASE ledger' = ledger
    <3>1. Histories'
      BY <1>2, <1>6, <2>1 DEF Histories, StatisticsInOrder, IsInjective
    <3> QED BY <1>2, <2>1, <3>1 DEF IsSound
  <2>2. CASE ledger' # ledger
    <3>1. /\ ledger' = Append(ledger, g) /\ ~Contains(ledger, g)
          /\ blocked \cap mem.pending[g].team = {}
      BY <1>1, <2>2
    <3>2. Histories'
      BY <1>2, <1>5, <1>6, <1>7, <3>1, LedgerKept
    <3>3. Sound(disk, teams, ledger', finished) /\ Sound(mem, teams, ledger', finished)
      BY <1>2, <1>3, <1>4, <1>5, <3>1, SoundLedger DEF IsSound
    <3> QED BY <1>2, <3>2, <3>3 DEF IsSound
  <2> QED BY <2>1, <2>2
<1>9. CASE ~(blocked \cap mem.pending[g].team = {} /\ ~down)
  <2>1. mem' = mem /\ jobs' = jobs \ {g} /\ mem.pending[g].team \subseteq blocked'
    BY <1>1, <1>9 DEF settled, blockedAfter
  <2>2. Writing'
    BY <1>2, <1>3, <1>6, <2>1 DEF Writing
  <2> QED BY <1>2, <1>8, <2>1, <2>2 DEF TransactionInv, IsSound, Copies, Recorded
<1>10. CASE blocked \cap mem.pending[g].team = {} /\ ~down
  <2>1. mem' = settled(mem, g, TRUE) /\ jobs' = jobs \ {g} /\ blocked' = blocked
    BY <1>1, <1>10
  <2>2. Contains(ledger', g)
    BY <1>1, <1>4, <1>5, <1>10, ContainsAppend
  <2>3. /\ Sound(mem', teams, ledger', finished) /\ Recorded(mem')
        /\ mem'.room.game = mem.room.game
        /\ DOMAIN mem'.pending = DOMAIN mem.pending \ {g}
        /\ \A h \in DOMAIN mem.pending \ {g} : mem'.pending[h] = mem.pending[h]
    <3>1. /\ mem' \in Lobbies /\ view(mem'.room) = view(mem.room)
          /\ (mem'.room.saved <=> mem.room.saved \/ mem.room.game = g)
          /\ DOMAIN mem'.pending = DOMAIN mem.pending \ {g}
          /\ \A h \in DOMAIN mem.pending \ {g} : mem'.pending[h] = mem.pending[h]
      BY <1>4, <2>1, SettledFields
    <3>2. /\ Sound(mem, teams, ledger', finished) /\ Recorded(mem)
          /\ g \in DOMAIN mem.pending /\ Contains(ledger', g)
      BY <1>2, <1>4, <1>8, <2>2
    <3>3. Sound(mem', teams, ledger', finished) /\ Recorded(mem') /\ mem'.room.game = mem.room.game
      BY <3>1, <3>2, SettledSound
    <3> QED BY <3>1, <3>3
  <2>4. Writing'
    BY <1>2, <1>3, <2>1, <2>3 DEF Writing
  <2> QED BY <1>2, <1>8, <2>3, <2>4 DEF TransactionInv, IsSound, Copies, Recorded
<1> QED BY <1>9, <1>10

\* Every step of the holder of commandMu, of the timer and of the failures keeps the invariant.
LEMMA NextTransaction ==
  ASSUME TransactionInv, [Next]_vars
  PROVE  TransactionInv'
<1>1. CASE WrittenNone
  <2>1. Histories'
    BY <1>1, HistoriesKept DEF TransactionInv, WrittenNone
  <2>2. pc' \in {"idle", "marking"} /\ pc = "writing"
        /\ UNCHANGED <<mem, before, disk, ledger, finished, teams>>
    BY <1>1 DEF WrittenNone
  <2> QED BY <2>1, <2>2 DEF TransactionInv, IsSound, Copies, Writing, Recorded
<1>2. CASE MarkSaved
  <2>1. Histories'
    BY <1>2, HistoriesKept DEF TransactionInv, MarkSaved
  <2>2. /\ pc' = "idle" /\ pc = "marking" /\ disk' \in {disk, mem}
        /\ UNCHANGED <<mem, before, ledger, finished, teams>>
    BY <1>2 DEF MarkSaved
  <2> QED BY <2>1, <2>2 DEF TransactionInv, IsSound, Copies, Writing, Recorded
<1>3. CASE Outage \/ UNCHANGED vars
  <2>1. UNCHANGED <<mem, before, pc, tentative, disk, jobs, blocked, ledger, finished, teams>>
    BY <1>3 DEF Outage, vars
  <2>2. Histories'
    BY <2>1, HistoriesKept DEF TransactionInv
  <2> QED BY <2>1, <2>2 DEF TransactionInv, IsSound, Copies, Writing, Recorded, Undoes
<1>4. CASE Persist \/ disconnectWithEmitter \/ retryPendingStatistics
  BY <1>4, PersistStep DEF Persist, disconnectWithEmitter, retryPendingStatistics
<1>5. CASE lockMutation
  BY <1>5, LockStep
<1>6. CASE Command
  BY <1>6, CommandStep
<1>7. CASE Refused
  BY <1>7, RefusedStep
<1>8. CASE SaveSucceeds
  BY <1>8, SaveStep
<1>9. CASE SaveFails
  BY <1>9, SaveFailsStep
<1>10. CASE Commit
  BY <1>10, CommitStep
<1>11. CASE WriteStatistics
  BY <1>11, WriteStep
<1>12. CASE restorePersistedState
  BY <1>12, RestoreStep
<1> QED BY <1>1, <1>2, <1>3, <1>4, <1>5, <1>6, <1>7, <1>8, <1>9, <1>10, <1>11, <1>12
        DEF Next, GoOn

\* The invariant holds of every behaviour.
THEOREM TransactionCorrect == Spec => []TransactionInv
  BY InitTransaction, NextTransaction, PTL DEF Spec

\* The state of the lobby in memory and in the database, the ledger and the games seen to
\* end are well formed through every failed save and restart.
THEOREM TransactionTypeCorrect == Spec => []TypeOK
<1>1. TransactionInv => TypeOK
  <2> SUFFICES ASSUME TransactionInv PROVE TypeOK
    OBVIOUS
  <2>1. Histories /\ mem \in Lobbies /\ disk \in Lobbies /\ Copies
    BY DEF TransactionInv, IsSound, Sound
  <2>2. ASSUME NEW m \in Lobbies
        PROVE  /\ m.room \in [game : 0 .. MaxGames, team : Teams \cup {{}},
                              phase : {"none", "playing", "over"}, saved : BOOLEAN]
               /\ m.pending \in [DOMAIN m.pending ->
                                   [team : Teams, sequence : 1 .. MaxGames]]
               /\ DOMAIN m.pending \subseteq 1 .. MaxGames
    BY <2>2, LobbyFields DEF Rooms, Records
  <2>3. finished \subseteq 1 .. MaxGames
    BY <2>1, TransactionAssumption DEF Histories
  <2> QED BY <2>1, <2>2, <2>3 DEF TypeOK, TransactionInv, Histories, Copies
<1> QED BY <1>1, TransactionCorrect, PTL

\* A game that its players have seen end is in the statistics or still has its record in
\* the saved state, through failed saves, crashes and the reset of the room.
THEOREM StatisticsNeverLost == Spec => []NothingLost
<1>1. TransactionInv => NothingLost
  BY DEF TransactionInv, IsSound, Sound, Keeps, NothingLost
<1> QED BY <1>1, TransactionCorrect, PTL

\* The games of a player enter the statistics in the order they ended, whatever failed in
\* between.
THEOREM StatisticsWrittenInOrder == Spec => []StatisticsInOrder
<1>1. TransactionInv => StatisticsInOrder
  BY DEF TransactionInv, Histories
<1> QED BY <1>1, TransactionCorrect, PTL

-----------------------------------------------------------------------------
(***************************************************************************)
(* The lobby implements AtomicLobby: every step is a write of a whole      *)
(* command, its acknowledgement, a restart, or nothing.                    *)
(***************************************************************************)
Seen == view(readable.room)
Durable == view(disk.room)

\* The lobby as it is found while a command works on it, and at any other time.
LEMMA SeenIs ==
  ASSUME TransactionInv
  PROVE  /\ pc \in {"locked", "changed"} => Seen = view(before.room)
         /\ pc \notin {"locked", "changed"} => Seen = view(mem.room)
         /\ pc \in {"idle", "locked"} => Seen = view(mem.room)
<1>1. pc = "locked" => before = mem
  BY DEF TransactionInv, Copies
<1> QED BY <1>1 DEF Seen, readable

\* A command being saved is a command of the room that is found meanwhile.
LEMMA SavingIsCommand ==
  ASSUME TransactionInv, pc \in {"saving", "saved"}
  PROVE  view(tentative.room) \in Abstract!Commands(Seen)
<1>1. Seen = view(mem.room)
  BY SeenIs
<1>2. CASE before = None /\ mem = tentative
  BY <1>1, <1>2, CommandsStay
<1>3. CASE mem = before /\ Undoes(tentative)
  BY <1>1, <1>3 DEF Undoes
<1> QED BY <1>2, <1>3 DEF TransactionInv, Copies

\* Every step of the lobby is a step of AtomicLobby or changes nothing of it.
LEMMA AtomicStep ==
  ASSUME TransactionInv, [Next]_vars
  PROVE  [Abstract!Next]_<<Seen, Durable>>
<1> DEFINE Stutter == Seen' = Seen /\ Durable' = Durable
           Write == Durable' \in Abstract!Commands(Seen) /\ Seen' = Seen
           Acknowledge == Seen' = Durable /\ Durable \in Abstract!Commands(Seen) /\ Durable' = Durable
           Restart == Seen' = Durable /\ Durable' = Durable
<1>1. mem \in Lobbies
  BY DEF TransactionInv, IsSound, Sound
<1>2. pc' \notin {"locked", "changed"} => Seen' = view(mem'.room)
  BY DEF Seen, readable
<1>3. pc' \in {"locked", "changed"} => Seen' = view(before'.room)
  BY DEF Seen, readable
<1>4. disk' = disk => Durable' = Durable
  BY DEF Durable
<1>5. pc \notin {"locked", "changed"} /\ pc' \notin {"locked", "changed"} /\ mem' = mem => Seen' = Seen
  BY <1>2, SeenIs
<1>6. CASE lockMutation
  <2>1. Seen = view(mem.room)
    BY <1>6, SeenIs DEF lockMutation
  <2>2. Seen' = view(before'.room) /\ before' = mem
    BY <1>3, <1>6 DEF lockMutation
  <2> QED BY <1>4, <1>6, <2>1, <2>2 DEF lockMutation
<1>7. CASE Command
  <2>1. Seen = view(before.room) /\ Seen' = view(before'.room)
    BY <1>3, <1>7, SeenIs DEF Command
  <2> QED BY <1>4, <1>7, <2>1 DEF Command
<1>8. CASE Refused
  <2>1. before \in Lobbies /\ pc = "changed"
    BY <1>8 DEF Refused, TransactionInv, Copies, Undoes, IsSound, Sound
  <2>2. mem' = before /\ pc' = "idle" /\ disk' = disk
    BY <1>8, <2>1, LobbyIsSome DEF Refused, unlock, rolledBack
  <2> QED BY <1>2, <1>4, <2>1, <2>2, SeenIs
<1>9. CASE Persist \/ disconnectWithEmitter \/ retryPendingStatistics
  <2>1. persistLocked(mem) /\ (pc = "idle" \/ pc = "changed")
    BY <1>9 DEF Persist, disconnectWithEmitter, retryPendingStatistics
  <2>2. pc' = "saving" /\ disk' = disk /\ Seen' = view(mem'.room)
    BY <1>2, <2>1 DEF persistLocked
  <2>3. CASE pc = "changed"
    <3>1. before \in Lobbies
      BY <2>3 DEF TransactionInv, Copies, Undoes, IsSound, Sound
    <3>2. mem' = before
      BY <2>1, <3>1, LobbyIsSome DEF persistLocked
    <3> QED BY <1>4, <2>2, <2>3, <3>2, SeenIs
  <2>4. CASE pc = "idle"
    <3>1. before = None
      BY <2>4 DEF TransactionInv, Copies
    <3>2. mem' = statisticsJobsLocked(mem)
      BY <2>1, <3>1 DEF persistLocked
    <3>3. statisticsJobsLocked(mem).room = mem.room
      BY JobsSound DEF TransactionInv, IsSound, Histories
    <3> QED BY <1>4, <2>2, <2>4, <3>2, <3>3, SeenIs
  <2> QED BY <2>1, <2>3, <2>4
<1>10. CASE SaveSucceeds
  <2>1. Durable' = view(tentative.room) /\ Seen' = Seen
    BY <1>5, <1>10 DEF SaveSucceeds, Durable
  <2>2. Write
    BY <1>10, <2>1, SavingIsCommand DEF SaveSucceeds
  <2> QED BY <2>2 DEF Abstract!Next, Abstract!Write, Seen, Durable
<1>11. CASE SaveFails
  <2>1. Seen' = Seen /\ disk' \in {disk, tentative}
    <3>1. pc = "saving" /\ pc' = "idle" /\ mem' = rolledBack /\ disk' \in {disk, tentative}
      BY <1>11 DEF SaveFails, unlock
    <3>2. before = None \/ mem = before
      BY <3>1 DEF TransactionInv, Copies
    <3>3. rolledBack = mem
      BY <3>2 DEF rolledBack
    <3> QED BY <1>5, <3>1, <3>3
  <2>2. CASE disk' = disk
    BY <1>4, <2>1, <2>2
  <2>3. CASE disk' = tentative
    <3>1. Write
      BY <1>11, <2>1, <2>3, SavingIsCommand DEF SaveFails, Durable
    <3> QED BY <3>1 DEF Abstract!Next, Abstract!Write, Seen, Durable
  <2> QED BY <2>1, <2>2, <2>3
<1>12. CASE Commit
  <2>1. /\ disk = tentative /\ pc = "saved" /\ disk' = disk /\ pc' = "writing"
        /\ mem' = tentative
    BY <1>12 DEF Commit, TransactionInv, Copies
  <2>2. Acknowledge
    BY <1>2, <1>4, <2>1, SavingIsCommand DEF Durable
  <2> QED BY <2>2 DEF Abstract!Next, Abstract!Acknowledge, Seen, Durable
<1>13. CASE WriteStatistics
  <2>1. PICK g \in jobs : \E ok \in BOOLEAN : mem' = settled(mem, g, ok)
    BY <1>13 DEF WriteStatistics
  <2>2. pc = "writing" /\ pc' = pc /\ disk' = disk /\ g \in DOMAIN mem.pending
    BY <1>13 DEF WriteStatistics, TransactionInv, Copies, Writing
  <2>3. view(mem'.room) = view(mem.room)
    <3>1. CASE mem' = settled(mem, g, FALSE)
      BY <3>1 DEF settled
    <3>2. CASE mem' = settled(mem, g, TRUE)
      BY <1>1, <2>2, <3>2, SettledFields
    <3> QED BY <2>1, <3>1, <3>2
  <2> QED BY <1>2, <1>4, <2>2, <2>3, SeenIs
<1>14. CASE WrittenNone \/ Outage \/ UNCHANGED vars
  <2>1. CASE WrittenNone
    BY <1>4, <1>5, <2>1 DEF WrittenNone
  <2>2. CASE Outage \/ UNCHANGED vars
    <3>1. UNCHANGED <<mem, before, pc, disk>>
      BY <2>2 DEF Outage, vars
    <3>2. Seen' = Seen
      BY <3>1 DEF Seen, readable
    <3> QED BY <1>4, <3>1, <3>2
  <2> QED BY <1>14, <2>1, <2>2
<1>15. CASE MarkSaved
  <2>1. pc = "marking" /\ pc' = "idle" /\ mem' = mem /\ disk' \in {disk, mem}
    BY <1>15 DEF MarkSaved
  <2>2. CASE disk' = disk
    BY <1>4, <1>5, <2>1, <2>2
  <2>3. CASE disk' = mem
    <3>1. Write
      BY <1>5, <2>1, <2>3, SeenIs, CommandsStay DEF Durable
    <3> QED BY <3>1 DEF Abstract!Next, Abstract!Write, Seen, Durable
  <2> QED BY <2>1, <2>2, <2>3
<1>16. CASE restorePersistedState
  <2>1. Restart
    BY <1>2, <1>4, <1>16 DEF restorePersistedState, Durable
  <2> QED BY <2>1 DEF Abstract!Next, Abstract!Restart, Seen, Durable
<1> QED BY <1>6, <1>7, <1>8, <1>9, <1>10, <1>11, <1>12, <1>13, <1>14, <1>15, <1>16
        DEF Next, GoOn

\* The locks, the copy and the two writes make every command one step of AtomicLobby:
\* whoever takes mu, while a command waits for the database too, finds whole commands that
\* are already durable; a command that is refused or whose save fails was never seen; and a
\* crash anywhere leaves the lobby they saw or the command under way.
THEOREM LobbyIsAtomic == Spec => ImplementsAtomicLobby
<1>1. Init => Abstract!Init
  <2> SUFFICES ASSUME Init PROVE Abstract!Init
    OBVIOUS
  <2>1. readable = Empty /\ disk = Empty
    BY DEF Init, readable
  <2>2. view(Empty.room) = [game |-> 0, team |-> {}, phase |-> "none"]
    BY DEF Empty, NoTeam, view
  <2> QED BY <2>1, <2>2 DEF Abstract!Init, Abstract!EmptyRoom
<1>2. TransactionInv /\ [Next]_vars => [Abstract!Next]_<<view(readable.room), view(disk.room)>>
  BY AtomicStep DEF Seen, Durable
<1> QED BY <1>1, <1>2, TransactionCorrect, PTL DEF Spec, ImplementsAtomicLobby, Abstract!Spec
=============================================================================
