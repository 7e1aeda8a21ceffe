---------------------------- MODULE DeadGiveaway ----------------------------
(***************************************************************************)
(* One table of the party game Dead Giveaway: the rules                    *)
(* (dead-giveaway-server/src/rules.js) and the clock that drives them      *)
(* (rooms.js, tick).  Every handler is synchronous, so an intent is one    *)
(* step.  A handler calls others that change the room further; they are    *)
(* operators from a room to a room, under the names they have in rules.js. *)
(*                                                                         *)
(* Time: a phase's deadline is off, running or due, and a tick may find a  *)
(* running one elapsed; a host's drop becomes overdue (HOST_HANDOVER) and  *)
(* a dropped player's grace ends at any tick.  Words, cards and media are   *)
(* left out, and so is what only the snapshots show (round number, winners, *)
(* the vote's tally); a field no later handler reads is emptied.           *)
(***************************************************************************)
EXTENDS Naturals, Sequences, FiniteSets, SequencesExt, Lists

CONSTANTS
    Players,          \* player ids; an id is never seated twice
    SeatCount,        \* seats at the table (8 in the code)
    MinPlayers,       \* settings.minPlayers
    Lives,            \* settings.lives
    None,
    MaxDrops,         \* bound: sockets dropped or taken over by another tab
    MaxSeatMoves      \* bound: seat changes in the lobby

(* createMatch clamps minPlayers to 3..maxPlayers and lives to 1..9. *)
ASSUME TableAssumption ==
    /\ SeatCount \in Nat /\ MinPlayers \in 3..SeatCount
    /\ Lives \in 1..9 /\ None \notin Players /\ None \notin 0..SeatCount
    /\ MaxDrops \in Nat /\ MaxSeatMoves \in Nat

VARIABLES
    room,             \* the room record
    open,             \* the registry still holds the table
    known,            \* ids ever seated
    dealtLives,       \* history: everyone's lives when the round was dealt
    drops, seatMoves
vars == <<room, open, known, dealtLives, drops, seatMoves>>

Seats == 0..(SeatCount - 1)
RoundOpen == {"DEAL", "CLUES", "DISCUSS", "VOTE"}
Phases == RoundOpen \cup {"LOBBY", "VOTE_RESULT", "ROLE_REVEAL", "LAST_WORD",
                          "PAYBACK", "RESOLVE", "MATCH_OVER"}
NoVotes == [p \in {} |-> None]
NoResult == [caught |-> FALSE, lifeLoss |-> None]

(* The room record: the table's fields, then the round's. *)
Room ==
    [order: Seq(Players),                 \* players, longest seated first (joinSeq)
     seat: [Players -> Seats \cup {None}], lives: [Players -> 0..Lives],
     connected: SUBSET Players, out: SUBSET Players, abandoned: SUBSET Players,
     host: Players \cup {None}, overdue: BOOLEAN,
     phase: Phases, timer: {"off", "running", "due"},
     ready: SUBSET Players, voted: SUBSET Players,
     votes: UNION {[voters -> Players] : voters \in SUBSET Players},
     rat: Players \cup {None}, lastStart: Seats \cup {None},
     turnOrder: Seq(Players), turnIdx: Nat, clues: Seq(Players),
     result: [caught: BOOLEAN, lifeLoss: Players \cup {None}]]

-----------------------------------------------------------------------------
(* Queries *)

Seated(r) == ToSet(r.order)
Alive(r) == {p \in Seated(r) : p \notin r.out /\ r.lives[p] > 0}
Voters(r) == Alive(r) \cap r.connected        \* aliveConnected
BySeat(r, S) == InOrder(S, r.seat)
FirstOf(r, S) == r.order[FirstPlace(r.order, S)]
Speaker(r) == r.turnOrder[r.turnIdx]
FreeSeats(r) == Seats \ {r.seat[p] : p \in Seated(r)}

SeatAfterLast(r) == Cardinality(Seated(r))                       \* mutant
LowestFreeSeat(r) == CHOOSE s \in FreeSeats(r) : \A t \in FreeSeats(r) : s <= t

KeepsLastHost(r) == r.host                                       \* mutant
(* With nobody connected, a vacant chair goes to the longest seated. *)
HostOffline(r) == IF r.host \in Seated(r) THEN r.host
                  ELSE IF r.order = <<>> THEN None ELSE r.order[1]
ReassignHost(r) ==
    LET host == IF r.host \in r.connected THEN r.host
                ELSE IF r.connected # {} THEN FirstOf(r, r.connected)
                ELSE HostOffline(r)
    IN  [r EXCEPT !.host = host, !.overdue = @ /\ host = r.host]

-----------------------------------------------------------------------------
(* Round flow *)

SetPhase(r, phase, timer) == [r EXCEPT !.phase = phase, !.timer = timer]

(* No ledger of the talk or the vote is read once the next phase begins. *)
DropLedgers(r) == [r EXCEPT !.turnOrder = <<>>, !.turnIdx = 0, !.clues = <<>>,
                            !.ready = {}, !.votes = NoVotes, !.voted = {}]

EnterResolve(r) ==
    SetPhase([DropLedgers(r) EXCEPT !.rat = None, !.result.caught = FALSE,
                !.out = @ \cup {p \in Seated(r) : r.lives[p] = 0}],
             "RESOLVE", "running")

VoidRound(r) == EnterResolve([r EXCEPT !.result = NoResult])

LoseLife(r, p) ==
    IF p \notin Seated(r) THEN r
    ELSE [r EXCEPT !.lives[p] = IF @ = 0 THEN 0 ELSE @ - 1,
                   !.result.lifeLoss = p]

UntimedVote(r) == SetPhase(DropLedgers(r), "VOTE", "off")        \* mutant
EnterVote(r) == SetPhase(DropLedgers(r), "VOTE", "running")

MaybeAllReady(r) ==
    IF Voters(r) # {} /\ Voters(r) \subseteq r.ready THEN EnterVote(r) ELSE r

Tally(r, p) == Cardinality({v \in DOMAIN r.votes : r.votes[v] = p})
Leaders(r) == {p \in Players : Tally(r, p) > 0 /\ \A q \in Players : Tally(r, q) <= Tally(r, p)}

(* A tie, or no vote, means the Rat walks. *)
CloseVote(r) ==
    SetPhase([DropLedgers(r) EXCEPT
                 !.result = [NoResult EXCEPT !.caught = Leaders(r) = {r.rat}]],
             "VOTE_RESULT", "running")

MaybeAllVoted(r) ==
    IF Voters(r) # {} /\ Voters(r) \subseteq r.voted THEN CloseVote(r) ELSE r

SettleProgress(r) ==
    IF r.phase = "DISCUSS" THEN MaybeAllReady(r)
    ELSE IF r.phase = "VOTE" THEN MaybeAllVoted(r) ELSE r

(* The turns still to come: of the players still alive.                    *)
TurnsLeft(r) == {i \in DOMAIN r.turnOrder : i > r.turnIdx /\ r.turnOrder[i] \in Alive(r)}

(* Every turn gets its own clock. *)
TurnTimer(r) == "running"

AdvanceTurn(r) ==
    IF TurnsLeft(r) = {}
      THEN MaybeAllReady(SetPhase([r EXCEPT !.turnIdx = Len(r.turnOrder) + 1],
                                  "DISCUSS", "off"))
      ELSE [r EXCEPT !.turnIdx = CHOOSE i \in TurnsLeft(r) : \A j \in TurnsLeft(r) : i <= j,
                     !.timer = TurnTimer(r)]

BeginClues(r) == AdvanceTurn(SetPhase([r EXCEPT !.turnIdx = 0], "CLUES", "off"))

RecordClue(r) == [r EXCEPT !.clues = Append(@, Speaker(r))]

(* The round starts at the alive seat after the last one's. *)
StartSeats(r) ==
    LET after == {p \in Alive(r) : r.lastStart # None /\ r.seat[p] > r.lastStart}
    IN  IF after = {} THEN Alive(r) ELSE after

Deal(r, rat) ==
    LET first == BySeat(r, StartSeats(r))[1]
        before == {p \in Alive(r) : r.seat[p] < r.seat[first]}
    IN  SetPhase([r EXCEPT !.lastStart = r.seat[first], !.rat = rat, !.turnIdx = 0,
                    !.turnOrder = BySeat(r, Alive(r) \ before) \o BySeat(r, before),
                    !.votes = NoVotes, !.voted = {}, !.ready = {}, !.clues = <<>>,
                    !.result = NoResult],
                 "DEAL", "running")

AfterResolve(r) ==
    IF Cardinality(Alive(r)) <= 2
      THEN {SetPhase(r, "MATCH_OVER", "off")}
      ELSE {Deal(r, rat) : rat \in Alive(r)}

ResolveLastWord(r, correct) == EnterResolve(IF correct THEN r ELSE LoseLife(r, r.rat))

(* What unseating p leaves of the room. *)
Unseat(r, p) ==
    [r EXCEPT !.order = Dropping(@, {p}), !.seat[p] = None,
              !.lives[p] = 0, !.connected = @ \ {p}, !.out = @ \ {p}, !.abandoned = @ \ {p},
              !.ready = @ \ {p}, !.voted = @ \ {p}]

ToLobby(r) ==
    LET gone == r.abandoned
        stay == Seated(r) \ gone
    IN  ReassignHost(
          [r EXCEPT !.order = Only(@, stay),
              !.seat = [p \in Players |-> IF p \in stay THEN r.seat[p] ELSE None],
              !.lives = [p \in Players |-> IF p \in stay THEN Lives ELSE 0],
              !.connected = @ \ gone, !.out = {}, !.abandoned = {},
              !.ready = {}, !.voted = {}, !.phase = "LOBBY", !.timer = "off",
              !.lastStart = None, !.rat = None, !.turnOrder = <<>>, !.turnIdx = 0, !.votes = NoVotes, !.clues = <<>>,
              !.result = NoResult])

VoidsForCount(r, p) == Cardinality(Alive(r)) < MinPlayers        \* mutant
(* A departure calls the round off when it was the Rat, or too few remain. *)
CallsOff(r, p) == p = r.rat \/ Cardinality(Alive(r)) < MinPlayers

BallotsFor(r, p) == {v \in DOMAIN r.votes : r.votes[v] = p}
AllMarksStay(r, p) == {}                                         \* mutant
(* A departure takes out the player's own ballot and those for them; those   *)
(* who cast the latter vote again.  The mark of a player abandoned stays.    *)
VoteAgain(r, p) == BallotsFor(r, p)

PlayerGone(r, p) ==
    LET lost == BallotsFor(r, p) \cup {p}
    IN  IF r.phase \in {"LAST_WORD", "PAYBACK"} /\ p = r.rat
          THEN [r EXCEPT !.timer = "due"]
        ELSE IF r.phase \notin RoundOpen THEN r
        ELSE IF CallsOff(r, p) THEN VoidRound(r)
        ELSE IF r.phase = "CLUES"
          THEN IF Speaker(r) = p THEN AdvanceTurn(r) ELSE r
        ELSE IF r.phase = "VOTE"
          THEN SettleProgress([r EXCEPT
                 !.votes = [v \in DOMAIN r.votes \ lost |-> r.votes[v]],
                 !.voted = @ \ VoteAgain(r, p)])
        ELSE SettleProgress(r)

RemovePlayer(r, p) ==
    LET left == Unseat(r, p)
        seatless == ReassignHost([left EXCEPT !.host = IF @ = p THEN None ELSE @])
    IN  IF r.phase = "LOBBY" THEN seatless ELSE PlayerGone(seatless, p)

LosesAll(r, p) == [r.lives EXCEPT ![p] = 0]                       \* mutant
(* An abandoned player is out for the match, with lives kept. *)
LivesKept(r, p) == r.lives

AbandonPlayer(r, p) ==
    IF r.phase = "LOBBY" THEN RemovePlayer(r, p)
    ELSE PlayerGone(ReassignHost(
           [r EXCEPT !.connected = @ \ {p}, !.abandoned = @ \cup {p},
                     !.out = @ \cup {p}, !.ready = @ \ {p},
                     !.lives = LivesKept(r, p)]), p)

NeverSweeps(r) == FALSE                                          \* mutant
(* sweepHost acts on a host offline for HOST_HANDOVER_MS. *)
HostHandsOver(r) == r.overdue
SweepHost(r) == IF HostHandsOver(r) THEN ReassignHost(r) ELSE r

(* due, on an elapsed deadline: the rooms it may leave. *)
Due(r) ==
    CASE r.phase = "DEAL" -> {BeginClues(r)}
      [] r.phase = "CLUES" -> {AdvanceTurn(RecordClue(r))}
      [] r.phase = "VOTE" -> {CloseVote(r)}
      [] r.phase = "VOTE_RESULT" -> {SetPhase(r, "ROLE_REVEAL", "running")}
      [] r.phase = "ROLE_REVEAL" ->
            {SetPhase(r, IF r.result.caught THEN "LAST_WORD" ELSE "PAYBACK", "running")}
      [] r.phase = "LAST_WORD" -> {ResolveLastWord(r, FALSE)}
      [] r.phase = "PAYBACK" ->
            LET victims == Alive(r) \ {r.rat}
            IN  IF victims = {} THEN {EnterResolve(r)}
                ELSE {EnterResolve(LoseLife(r, v)) : v \in victims}
      [] r.phase = "RESOLVE" -> AfterResolve(r)

-----------------------------------------------------------------------------
(* Actions.  Commit leaves the room as r, noting the lives a deal starts on *)

Commit(r) ==
    /\ room' = r
    /\ dealtLives' = IF r.phase = "DEAL" /\ room.phase # "DEAL" THEN r.lives
                                                                ELSE dealtLives
Keeps == UNCHANGED <<open, known, drops, seatMoves>>

Empty ==
    [order |-> <<>>, seat |-> [p \in Players |-> None],
     lives |-> [p \in Players |-> 0], connected |-> {}, overdue |-> FALSE,
     out |-> {}, abandoned |-> {}, ready |-> {}, voted |-> {},
     phase |-> "LOBBY", timer |-> "off", host |-> None, lastStart |-> None,
     rat |-> None, turnOrder |-> <<>>, turnIdx |-> 0, votes |-> NoVotes,
     clues |-> <<>>, result |-> NoResult]

(* addPlayer; mid-match a newcomer sits out until the next match. *)
AddPlayer(r, p) ==
    LET lobby == r.phase = "LOBBY"
        takesChair == r.host = None \/ r.overdue
    IN  [r EXCEPT !.order = Append(@, p), !.seat[p] = LowestFreeSeat(r),
                  !.lives[p] = IF lobby THEN Lives ELSE 0,
                  !.out = IF lobby THEN @ ELSE @ \cup {p},
                  !.connected = @ \cup {p}, !.host = IF takesChair THEN p ELSE @,
                  !.overdue = FALSE]

(* create: the table and its first player. *)
Init ==
    \E p \in Players :
        /\ room = AddPlayer(Empty, p)
        /\ known = {p}
        /\ open = TRUE
        /\ dealtLives = [q \in Players |-> 0]
        /\ drops = 0 /\ seatMoves = 0

Join(p) ==
    /\ p \notin known
    /\ FreeSeats(room) # {}
    /\ Commit(AddPlayer(room, p))
    /\ known' = known \cup {p}
    /\ UNCHANGED <<open, drops, seatMoves>>

(* A join with the token of a seated player, dropped or on another socket. *)
Rejoin(p) ==
    /\ p \in Seated(room)
    /\ p \in room.connected => drops < MaxDrops
    /\ drops' = IF p \in room.connected THEN drops + 1 ELSE drops
    /\ Commit(ReassignHost([room EXCEPT
           !.order = Append(Dropping(@, {p}), p),
           !.connected = @ \cup {p}, !.abandoned = @ \ {p},
           !.overdue = @ /\ room.host # p]))
    /\ UNCHANGED <<open, known, seatMoves>>

(* disconnect: the host keeps the chair for now, and the progress settles. *)
Disconnect(p) ==
    LET dropped == [room EXCEPT !.connected = @ \ {p}]
    IN  /\ p \in room.connected
        /\ drops < MaxDrops
        /\ drops' = drops + 1
        /\ Commit(SettleProgress(IF room.host = p THEN dropped
                                                  ELSE ReassignHost(dropped)))
        /\ UNCHANGED <<open, known, seatMoves>>

(* HOST_HANDOVER_MS have passed since the host dropped. *)
HandoverElapses ==
    /\ room.host \in Seated(room) \ room.connected
    /\ ~room.overdue
    /\ Commit([room EXCEPT !.overdue = TRUE])
    /\ Keeps

(* room:leave; the table goes with its last player. *)
Leave(p) ==
    /\ p \in room.connected
    /\ Commit(RemovePlayer(room, p))
    /\ open' = (Seated(room) # {p})
    /\ UNCHANGED <<known, drops, seatMoves>>

(* The grace of a dropped player, which an abandoned one no longer has *)
InGrace(r) == Seated(r) \ (r.connected \cup r.abandoned)

(* tick: at most one grace has ended since the last tick (bound); then the  *)
(* host is swept and a deadline that has elapsed, unless the abandonment    *)
(* restarted it, is applied.  A table nobody was at for the whole grace, or *)
(* with nobody seated, is reaped.                                           *)
Tick(expired, elapsed) ==
    LET swept == SweepHost(IF expired = {} THEN room
                           ELSE AbandonPlayer(room, CHOOSE p \in expired : TRUE))
        restarted == swept.phase # room.phase \/ swept.turnIdx # room.turnIdx
        timedOut == \/ swept.timer = "due"
                    \/ swept.timer = "running" /\ elapsed /\ ~restarted
    IN  /\ expired \subseteq InGrace(room)
        /\ \E r \in (IF timedOut THEN Due(swept) ELSE {swept}) :
              /\ Commit(r)
              /\ \/ open' = (r.order # <<>>)
                 \/ /\ Seated(r) = r.abandoned
                    /\ open' = FALSE
        /\ UNCHANGED <<known, drops, seatMoves>>

-----------------------------------------------------------------------------
(* Intents: of a connected player, some of the host only.                   *)

SetSeat(p, s) ==
    /\ p \in room.connected
    /\ room.phase = "LOBBY"
    /\ s \in FreeSeats(room)
    /\ seatMoves < MaxSeatMoves
    /\ seatMoves' = seatMoves + 1
    /\ Commit([room EXCEPT !.seat[p] = s])
    /\ UNCHANGED <<open, known, drops>>

AsHost(phase) == room.host \in room.connected /\ room.phase = phase

Start ==
    LET fresh == [room EXCEPT
                    !.lives = [p \in Players |-> IF p \in Seated(room) THEN Lives ELSE 0],
                    !.out = {}, !.abandoned = {}, !.lastStart = None]
    IN  /\ AsHost("LOBBY")
        /\ Cardinality(room.connected) >= MinPlayers
        /\ \E rat \in Seated(room) : Commit(Deal(fresh, rat))
        /\ Keeps

Clue(p) ==
    /\ p \in Voters(room)
    /\ room.phase = "CLUES"
    /\ Speaker(room) = p
    /\ Commit(AdvanceTurn(RecordClue(room)))
    /\ Keeps

SkipTurn ==
    /\ AsHost("CLUES")
    /\ Commit(AdvanceTurn(RecordClue(room)))
    /\ Keeps

ReadyToVote(p, ready) ==
    /\ p \in Voters(room)
    /\ room.phase = "DISCUSS"
    /\ Commit(MaybeAllReady([room EXCEPT !.ready = IF ready THEN @ \cup {p} ELSE @ \ {p}]))
    /\ Keeps

CallVote ==
    /\ AsHost("DISCUSS")
    /\ Commit(EnterVote(room))
    /\ Keeps

Vote(p, target) ==
    /\ p \in Voters(room) \ room.voted
    /\ room.phase = "VOTE"
    /\ target \in Alive(room) \ {p}
    /\ Commit(MaybeAllVoted([room EXCEPT
           !.votes = [v \in DOMAIN @ \cup {p} |-> IF v = p THEN target ELSE @[v]],
           !.voted = @ \cup {p}]))
    /\ Keeps

LastWord(correct) ==
    /\ room.rat \in room.connected
    /\ room.phase = "LAST_WORD"
    /\ Commit(ResolveLastWord(room, correct))
    /\ Keeps

Payback(victim) ==
    /\ room.rat \in room.connected
    /\ room.phase = "PAYBACK"
    /\ victim \in Alive(room) \ {room.rat}
    /\ Commit(EnterResolve(LoseLife(room, victim)))
    /\ Keeps

NextRound ==
    /\ \/ AsHost("RESOLVE") /\ \E r \in AfterResolve(room) : Commit(r)
       \/ AsHost("MATCH_OVER") /\ Commit(ToLobby(room))
    /\ Keeps

Abort == AsHost(room.phase) /\ Commit(ToLobby(room)) /\ Keeps

-----------------------------------------------------------------------------
PlayerStep(p) == \/ Join(p) \/ Rejoin(p) \/ Disconnect(p) \/ Leave(p)
                 \/ Clue(p) \/ Payback(p)
                 \/ \E s \in Seats : SetSeat(p, s)
                 \/ \E ready \in BOOLEAN : ReadyToVote(p, ready)
                 \/ \E target \in Players : Vote(p, target)
HostStep == Start \/ SkipTurn \/ CallVote \/ NextRound \/ Abort
Timers ==
    \/ HandoverElapses
    \/ \E expired \in {{}} \cup {{p} : p \in InGrace(room)}, elapsed \in BOOLEAN :
          Tick(expired, elapsed)

Next == /\ open
        /\ \/ \E p \in Players : PlayerStep(p)
           \/ \E correct \in BOOLEAN : LastWord(correct)
           \/ HostStep
           \/ Timers

Spec == Init /\ [][Next]_vars

(* The server ticks every 250 ms, so each delay elapses; players owe nothing *)
TimeFlows ==
    /\ WF_vars(open /\ HandoverElapses)
    /\ WF_vars(open /\ Tick({}, TRUE))
FairSpec == Spec /\ TimeFlows

-----------------------------------------------------------------------------
(* The room is well formed: everything said of players is said of seated    *)
(* ones, and no two sit in one seat.                                        *)
TypeOK ==
    /\ room \in Room
    /\ IsInjective(room.order)
    /\ \A p, q \in Seated(room) : p # q => room.seat[p] # room.seat[q]
    /\ \A p \in Players : room.seat[p] = None <=> p \notin Seated(room)
    /\ room.connected \cup room.out \cup room.abandoned
         \cup room.ready \cup room.voted \subseteq Seated(room)
    /\ room.abandoned \cap room.connected = {}
    /\ room.overdue => room.host \notin room.connected
    /\ room.host \in Seated(room) \cup {None}
    /\ room.turnIdx <= Len(room.turnOrder) + 1
    /\ open \in BOOLEAN /\ known \subseteq Players
    /\ dealtLives \in [Players -> 0..Lives]
    /\ drops \in 0..MaxDrops /\ seatMoves \in 0..MaxSeatMoves

(* A table in play always has a host among its players: departures, expiries *)
(* and resets in any order leave nobody to start, skip or abort otherwise.   *)
HostIsSeated == open => room.host \in Seated(room)

(* Whoever leaves or is abandoned, a round that is still open has its Rat    *)
(* alive at the table and three players alive, enough to accuse each other:  *)
(* the survivors of a round are dealt another as long as they are three,     *)
(* whatever minPlayers says.                                                 *)
OpenRoundIsPlayable ==
    room.phase \in RoundOpen => /\ room.rat \in Alive(room)
                                /\ Cardinality(Alive(room)) >= 3

(* In the clue round the turn is of a player alive who has not spoken yet;   *)
(* when talk begins, everyone alive has spoken (or was passed over) once,    *)
(* and clues came in turn order.  In a vote the ballots are those of the     *)
(* players alive marked as having voted, and for players alive, though       *)
(* voters and targets leave and are abandoned while it is open: nobody the   *)
(* vote waits for has lost a ballot and cannot cast another.                 *)
LedgersFollowTable ==
    /\ room.phase = "CLUES" =>
          /\ Speaker(room) \in Alive(room)
          /\ \A i \in DOMAIN room.clues : room.clues[i] # Speaker(room)
    /\ room.phase \in {"CLUES", "DISCUSS"} =>
          \A j \in DOMAIN room.clues : \E t \in 1..(room.turnIdx - 1) :
              /\ room.turnOrder[t] = room.clues[j]
              /\ \A i \in 1..(j - 1) :
                    \E before \in 1..(t - 1) : room.turnOrder[before] = room.clues[i]
    /\ room.phase = "DISCUSS" => Alive(room) \subseteq ToSet(room.clues)
    /\ room.phase = "VOTE" =>
          /\ DOMAIN room.votes = room.voted \cap Alive(room)
          /\ \A v \in DOMAIN room.votes : room.votes[v] \in Alive(room) \ {v}

(* From a deal to the end of its round, a player still seated has the lives  *)
(* they were dealt with, less one for the loss the round announced.          *)
RoundTakesAnnouncedLife ==
    room.phase # "LOBBY" => \A p \in Seated(room) :
        dealtLives[p] = room.lives[p] + (IF room.result.lifeLoss = p THEN 1 ELSE 0)

Voting == {"VOTE", "VOTE_RESULT", "ROLE_REVEAL", "LAST_WORD", "PAYBACK"}

(* "After VOTE closes the round always plays out by its timeouts": whoever   *)
(* drops or leaves, an open vote ends in a resolved round (or the host       *)
(* aborts, or the table closes).  The clues before it end too: every speaker *)
(* runs out of time or speaks.                                               *)
RoundPlaysOut ==
    /\ room.phase \in Voting ~> (room.phase \in {"RESOLVE", "LOBBY"} \/ ~open)
    /\ room.phase \in {"DEAL", "CLUES"} ~> (room.phase \notin {"DEAL", "CLUES"} \/ ~open)

(* While somebody is at the table, an offline host is replaced or returns.   *)
HostComesBack ==
    (room.host \notin room.connected)
        ~> (room.host \in room.connected \/ room.connected = {} \/ ~open)

(* rules.js:59-61, "A host whose socket merely hiccups keeps the chair", ten *)
(* seconds long: while the dropped host is seated, within the handover       *)
(* window and not abandoned, nobody else takes the chair.                    *)
HostKeepsChair ==
    [][(/\ room.host \in InGrace(room) \cap InGrace(room')
        /\ ~room.overdue) => room'.host = room.host]_vars
=============================================================================
