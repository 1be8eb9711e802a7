-------------------------- MODULE LobbyTransaction --------------------------
(***************************************************************************)
(* One command of the lobby from its locks to its last write, and the      *)
(* statistics of the games that have ended.                                *)
(*                                                                         *)
(* commandMu is held from lockMutation to its unlock, so one command is    *)
(* under way at a time; mu, which everybody who reads the lobby takes, is  *)
(* given up around every write to the database.  lockMutation keeps a copy *)
(* of the state; persistLocked shows that copy while the new state is      *)
(* being saved.  A save may fail, and a failed save may have been written. *)
(* A disconnect and the retry of statistics save without a copy.           *)
(*                                                                         *)
(* A game that is over leaves a pending record in the saved state, from    *)
(* which its statistics are written until that succeeds.  The checkpoints  *)
(* of games still being played are left out.                               *)
(***************************************************************************)
EXTENDS Naturals, Sequences, FiniteSets, SequencesExt, FiniteSetsExt

CONSTANTS
  Players,      \* the authenticated users
  Teams,        \* the line-ups a game may be played by
  MaxGames,     \* bound on the games
  MaxFaults,    \* bound on failed saves of the lobby and on crashes
  MaxOutages    \* bound on the times the statistics cannot be written

ASSUME TransactionAssumption ==
  /\ Teams \subseteq SUBSET Players
  /\ {} \notin Teams     \* a game of nobody leaves no statistics
  /\ MaxGames \in Nat /\ MaxFaults \in Nat /\ MaxOutages \in Nat

VARIABLES
  mem,       \* sessions, rooms and pendingStatistics in memory
  before,    \* mutationBefore, or None
  pc,        \* where the holder of commandMu is
  tentative, \* the state of persistLocked's local variable
  disk,      \* the lobby state in the database
  jobs,      \* the games whose statistics are still to be written
  blocked,   \* blockedPlayers
  changed,   \* whether saveStatisticsJobsLocked has changed anything
  ledger,    \* the games in the statistics tables, in the order written
  finished,  \* the games that the players have seen end
  teams,     \* who plays in each game that was ever started
  down,      \* the statistics cannot be written
  faults, outages

vars == <<mem, before, pc, tentative, disk, jobs, blocked, changed, ledger,
          finished, teams, down, faults, outages>>

None == [room |-> "none"]
NoTeam == [game |-> 0, team |-> {}, phase |-> "none", saved |-> FALSE]
NoPending == [g \in {} |-> {}]
Empty == [room |-> NoTeam, pending |-> NoPending]

----------------------------------------------------------------------------
(* The statistics still to be written. *)

(* statisticsJobsLocked: a game that has ended gets a record, after those  *)
(* that are still waiting.                                                 *)
statisticsJobsLocked(m) ==
  IF m.room.phase # "over" \/ m.room.saved \/ m.room.game \in DOMAIN m.pending
  THEN m
  ELSE [m EXCEPT !.pending = [g \in DOMAIN @ \cup {m.room.game} |->
          IF g \in DOMAIN @ THEN @[g]
          ELSE [team |-> m.room.team,
                sequence |-> 1 + Max({0} \cup {@[h].sequence : h \in DOMAIN @})]]]

(* The jobs are sorted by their sequence numbers: the one that is next. *)
terminalJobs(g) ==
  \A h \in jobs : mem.pending[g].sequence <= mem.pending[h].sequence

(* A slip: a game that is passed over holds nobody else back. *)
blockedAfterSlip(team, skipped) == IF skipped THEN blocked ELSE blocked \cup team

(* A game that fails or is passed over holds back every later game of any  *)
(* of its players.                                                         *)
blockedAfter(team, skipped) == blocked \cup team

(* A slip: a record is dropped whether or not its game was written. *)
settledSlip(m, g, ok) ==
  [m EXCEPT !.pending = [h \in DOMAIN @ \ {g} |-> @[h]]]

(* What writing the statistics of g leaves in memory. *)
settled(m, g, ok) ==
  IF ~ok THEN m
  ELSE [m EXCEPT !.pending = [h \in DOMAIN @ \ {g} |-> @[h]],
                 !.room.saved = @ \/ m.room.game = g]

----------------------------------------------------------------------------
(* A command. *)

lockMutation ==
  /\ pc = "idle"
  /\ before' = mem /\ pc' = "locked"
  /\ UNCHANGED <<mem, tentative, disk, jobs, blocked, changed, ledger,
                 finished, teams, down, faults, outages>>

(* The body of a command, which may stop half way. *)
Command ==
  /\ pc = "locked" /\ pc' = "changed"
  /\ \/ /\ mem.room.phase = "none" /\ Len(teams) < MaxGames
        /\ \E t \in Teams :
             /\ teams' = Append(teams, t)
             /\ mem' = [mem EXCEPT !.room =
                  [game |-> Len(teams'), team |-> t, phase |-> "playing",
                   saved |-> FALSE]]
     \/ /\ mem.room.phase = "playing"
        /\ mem' = [mem EXCEPT !.room.phase = "over"]
        /\ UNCHANGED teams
     \/ /\ mem.room.phase = "over"
        /\ mem' = [mem EXCEPT !.room.phase = "none", !.room.saved = FALSE]
        /\ UNCHANGED teams
     \/ UNCHANGED <<mem, teams>>
  /\ UNCHANGED <<before, tentative, disk, jobs, blocked, changed, ledger,
                 finished, down, faults, outages>>

(* A slip: a command that fails leaves what it has done so far. *)
rolledBackSlip == mem

rolledBack == IF before # None THEN before ELSE mem

(* The function lockMutation returns. *)
unlock ==
  /\ mem' = rolledBack
  /\ before' = None /\ tentative' = None /\ pc' = "idle"

(* A command that is refused after it has changed something. *)
Refused ==
  /\ pc = "changed"
  /\ unlock
  /\ UNCHANGED <<disk, jobs, blocked, changed, ledger, finished, teams, down,
                 faults, outages>>

(* A slip: what the command has made is shown while it is being saved. *)
persistLockedSlip(m) ==
  /\ tentative' = statisticsJobsLocked(m)
  /\ mem' = tentative'
  /\ pc' = "saving"
  /\ UNCHANGED <<before, disk, jobs, blocked, changed, ledger, finished,
                 teams, down, faults, outages>>

(* persistLocked up to its first save, for which it gives mu up: the copy  *)
(* is shown meanwhile.                                                     *)
persistLocked(m) ==
  /\ tentative' = statisticsJobsLocked(m)
  /\ mem' = IF before # None THEN before ELSE tentative'
  /\ pc' = "saving"
  /\ UNCHANGED <<before, disk, jobs, blocked, changed, ledger, finished,
                 teams, down, faults, outages>>

Persist == pc = "changed" /\ persistLocked(mem)

(* disconnectWithEmitter: nothing of the room but who is there. *)
disconnectWithEmitter == pc = "idle" /\ persistLocked(mem)

(* A slip: only a room that still has its game is looked at again. *)
retryPendingStatisticsSlip ==
  pc = "idle" /\ DOMAIN mem.pending # {} /\ mem.room.phase = "over"
    /\ persistLocked(mem)

retryPendingStatistics ==
  pc = "idle" /\ DOMAIN mem.pending # {} /\ persistLocked(mem)

(* saveLobbySnapshotLocked, first write. *)
SaveSucceeds ==
  /\ pc = "saving" /\ pc' = "saved"
  /\ disk' = tentative
  /\ UNCHANGED <<mem, before, tentative, jobs, blocked, changed, ledger,
                 finished, teams, down, faults, outages>>

SaveFails ==
  /\ pc = "saving" /\ faults < MaxFaults
  /\ faults' = faults + 1
  /\ disk' \in {disk, tentative}
  /\ unlock
  /\ UNCHANGED <<jobs, blocked, changed, ledger, finished, teams, down,
                 outages>>

seenToEnd(m) == finished \cup {g \in {m.room.game} : m.room.phase = "over"}

(* The save has succeeded: the new state is the state, and there is        *)
(* nothing left to roll back to.                                           *)
Commit ==
  /\ pc = "saved" /\ pc' = "writing"
  /\ mem' = tentative /\ before' = None /\ tentative' = None
  /\ jobs' = DOMAIN tentative.pending /\ blocked' = {} /\ changed' = FALSE
  /\ finished' = seenToEnd(tentative)
  /\ UNCHANGED <<disk, ledger, teams, down, faults, outages>>

----------------------------------------------------------------------------
(* saveStatisticsJobsLocked. *)

WriteStatistics ==
  /\ pc = "writing"
  /\ \E g \in jobs :
       LET team == mem.pending[g].team
           skipped == blocked \cap team # {}
           ok == ~skipped /\ ~down
       IN  /\ terminalJobs(g) /\ jobs' = jobs \ {g}
           /\ mem' = settled(mem, g, ok)
           /\ changed' = (changed \/ ok)
           /\ blocked' = IF ok THEN blocked ELSE blockedAfter(team, skipped)
           /\ \/ ledger' = IF ok /\ ~Contains(ledger, g)
                           THEN Append(ledger, g) ELSE ledger
              \/ /\ ~ok /\ ~skipped /\ ~Contains(ledger, g)
                 /\ ledger' = Append(ledger, g)
  /\ UNCHANGED <<before, pc, tentative, disk, finished, teams, down, faults,
                 outages>>

WrittenNone ==
  /\ pc = "writing" /\ jobs = {}
  /\ pc' = IF changed THEN "marking" ELSE "idle"
  /\ UNCHANGED <<mem, before, tentative, disk, jobs, blocked, changed, ledger,
                 finished, teams, down, faults, outages>>

(* saveLobbySnapshotLocked, second write: its failure is only logged. *)
MarkSaved ==
  /\ pc = "marking" /\ pc' = "idle"
  /\ \/ disk' = mem /\ UNCHANGED faults
     \/ UNCHANGED disk /\ faults < MaxFaults /\ faults' = faults + 1
  /\ UNCHANGED <<mem, before, tentative, jobs, blocked, changed, ledger,
                 finished, teams, down, outages>>

----------------------------------------------------------------------------
(* The database and the server fail. *)

Outage ==
  /\ \/ ~down /\ outages < MaxOutages /\ outages' = outages + 1
     \/ down /\ UNCHANGED outages
  /\ down' = ~down
  /\ UNCHANGED <<mem, before, pc, tentative, disk, jobs, blocked, changed,
                 ledger, finished, teams, faults>>

(* restorePersistedState. *)
restorePersistedState ==
  /\ faults < MaxFaults /\ faults' = faults + 1
  /\ mem' = disk /\ before' = None /\ tentative' = None /\ pc' = "idle"
  /\ jobs' = {} /\ blocked' = {} /\ changed' = FALSE
  /\ finished' = seenToEnd(disk)
  /\ UNCHANGED <<disk, ledger, teams, down, outages>>

Init ==
  /\ mem = Empty /\ before = None /\ pc = "idle" /\ tentative = None
  /\ disk = Empty /\ jobs = {} /\ blocked = {} /\ changed = FALSE
  /\ ledger = <<>> /\ finished = {} /\ teams = <<>> /\ down = FALSE
  /\ faults = 0 /\ outages = 0

(* What the holder of commandMu does next by itself. *)
GoOn ==
  \/ Command \/ Refused \/ Persist \/ SaveSucceeds \/ SaveFails \/ Commit
  \/ WriteStatistics \/ WrittenNone \/ MarkSaved

Next ==
  \/ lockMutation \/ GoOn \/ disconnectWithEmitter \/ retryPendingStatistics
  \/ Outage \/ restorePersistedState

(* Handlers run on, the timer of the retries keeps firing and gets the     *)
(* lock in the end, an outage of the database does not last for ever.      *)
Fairness ==
  /\ WF_vars(GoOn)
  /\ SF_vars(retryPendingStatistics)
  /\ WF_vars(down /\ Outage)

Spec == Init /\ [][Next]_vars /\ Fairness

----------------------------------------------------------------------------
(* Type invariant. *)
TypeOK ==
  /\ pc \in {"idle", "locked", "changed", "saving", "saved", "writing",
             "marking"}
  /\ \A m \in {mem, disk} :
       /\ m.room \in [game : 0 .. MaxGames, team : Teams \cup {{}},
                      phase : {"none", "playing", "over"}, saved : BOOLEAN]
       /\ m.pending \in [DOMAIN m.pending ->
                           [team : Teams, sequence : 1 .. MaxGames]]
       /\ DOMAIN m.pending \subseteq 1 .. MaxGames
  /\ pc \in {"idle", "writing", "marking"} => before = None
  /\ ledger \in Seq(1 .. MaxGames) /\ IsInjective(ledger)
  /\ finished \subseteq 1 .. MaxGames /\ blocked \subseteq Players

(* Through failed saves, crashes and the reset of the room, a game that    *)
(* its players have seen end is in the statistics or is still waiting in   *)
(* the saved state, where a restart will find it.                          *)
NothingLost ==
  \A g \in finished : Contains(ledger, g) \/ g \in DOMAIN disk.pending

(* The games of a player enter the statistics in the order they ended,     *)
(* whatever failed in between: ratings and streaks depend on it.           *)
StatisticsInOrder ==
  \A j \in DOMAIN ledger : \A g \in finished :
    g < ledger[j] /\ teams[g] \cap teams[ledger[j]] # {} =>
      \E i \in 1 .. j - 1 : ledger[i] = g

(* Every game that has ended is in the statistics in the end, without      *)
(* another command having to come.                                         *)
AllWritten ==
  \A g \in 1 .. MaxGames : (g \in finished) ~> Contains(ledger, g)

(* The lobby as whoever takes mu finds it.  From lockMutation until the    *)
(* command is refused or persistLocked waits for its save nobody else can  *)
(* take mu, and what was found last is the state before the command.  (A   *)
(* report of an issue gives mu up once more, with only its sender's        *)
(* cooldown changed, which is no part of the room here.)  At every other   *)
(* point, the wait included, it is what is in memory.                      *)
readable == IF pc \in {"locked", "changed"} THEN before ELSE mem

view(r) == [game |-> r.game, team |-> r.team, phase |-> r.phase]

Abstract == INSTANCE AtomicLobby WITH
              lobby <- view(readable.room), durable <- view(disk.room)

(* The locks, the copy and the two writes make every command one step of   *)
(* AtomicLobby: whoever takes mu, while a command waits for the database   *)
(* too, finds whole commands that are already durable; a command that is   *)
(* refused or whose save fails was never seen; and a crash anywhere leaves *)
(* the lobby they saw or the command under way.                            *)
ImplementsAtomicLobby == Abstract!Spec
============================================================================
