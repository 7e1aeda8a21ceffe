------------------------- MODULE DeadGiveawayProofs -------------------------
(***************************************************************************)
(* What every number of players, seats, lives and drops leaves true of     *)
(* DeadGiveaway.                                                           *)
(***************************************************************************)
EXTENDS DeadGiveaway, ListsProofs

-----------------------------------------------------------------------------
(* A good room *)

(* Who sits where, who hosts, and which deadline runs. *)
SeatsOK(r) ==
    /\ r \in Room
    /\ IsInjective(r.order)
    /\ \A p, q \in Seated(r) : p # q => r.seat[p] # r.seat[q]
    /\ \A p \in Players : /\ r.seat[p] = None <=> p \notin Seated(r)
                          /\ p \notin Seated(r) => r.lives[p] = 0
    /\ r.connected \cup r.out \cup r.abandoned \cup r.ready \cup r.voted \subseteq Seated(r)
    /\ r.abandoned \cap r.connected = {}
    /\ r.overdue => r.host \notin r.connected
    /\ r.turnIdx <= Len(r.turnOrder) + 1
TimerOK(r) ==
    /\ r.timer = "due" => r.phase \in {"LAST_WORD", "PAYBACK"}
    /\ r.phase \in {"LOBBY", "DISCUSS", "MATCH_OVER"} => r.timer = "off"
HostSeated(r) == r.host \in Seated(r) \/ (r.order = <<>> /\ r.host = None)
TableOK(r) == SeatsOK(r) /\ TimerOK(r) /\ HostSeated(r)

(* A round that may go on, and nobody has lost a life in it. *)
Playable(r) == /\ r.rat \in Alive(r)
               /\ Cardinality(Alive(r)) >= 3
               /\ r.result.lifeLoss = None
TurnsDealt(r) == IsInjective(r.turnOrder) /\ Alive(r) \subseteq ToSet(r.turnOrder)
(* The clues are of turns before the k-th, and in their order... *)
InTurnOrder(r, k) ==
    \A j \in DOMAIN r.clues : \E t \in 1..(k - 1) :
        /\ r.turnOrder[t] = r.clues[j]
        /\ \A i \in 1..(j - 1) : \E before \in 1..(t - 1) : r.turnOrder[before] = r.clues[i]
(* ... and nobody alive whose turn came before the k-th is without one. *)
HaveSpoken(r, k) ==
    \A t \in DOMAIN r.turnOrder :
        t < k /\ r.turnOrder[t] \in Alive(r) => r.turnOrder[t] \in ToSet(r.clues)
Ballots(r) ==
    /\ DOMAIN r.votes = r.voted \cap Alive(r)
    /\ \A v \in DOMAIN r.votes : r.votes[v] \in Alive(r) \ {v}

Judged == {"VOTE_RESULT", "ROLE_REVEAL", "LAST_WORD", "PAYBACK"}

RoundOK(r) ==
    /\ r.phase \in RoundOpen => Playable(r)
    /\ r.phase = "DEAL" => TurnsDealt(r) /\ r.clues = <<>>
    /\ r.phase = "CLUES" => /\ TurnsDealt(r)
                            /\ r.turnIdx \in DOMAIN r.turnOrder
                            /\ Speaker(r) \in Alive(r)
                            /\ InTurnOrder(r, r.turnIdx)
                            /\ HaveSpoken(r, r.turnIdx)
    /\ r.phase = "DISCUSS" => InTurnOrder(r, r.turnIdx) /\ Alive(r) \subseteq ToSet(r.clues)
    /\ r.phase = "VOTE" => Ballots(r)
    /\ r.phase \in Judged => /\ r.result.lifeLoss = None
                             /\ r.rat \in Seated(r) => r.lives[r.rat] > 0

GoodRoom(r) == TableOK(r) /\ RoundOK(r)

(* What a player had at the deal, going by the room. *)
Account(r, p) == r.lives[p] + (IF r.result.lifeLoss = p THEN 1 ELSE 0)

(* The players the round has named: its Rat, and the one who lost a life. *)
Named(r) == {r.rat, r.result.lifeLoss}

(* s comes after r in the same round: nobody's account has changed... *)
SameRound(r, s) ==
    /\ r.phase # "LOBBY" /\ s.phase # "LOBBY" /\ (s.phase = "DEAL" => r.phase = "DEAL")
    /\ Seated(s) \subseteq Seated(r)
    /\ \A p \in Seated(s) : Account(s, p) = Account(r, p)
    /\ Named(s) \subseteq Named(r) \cup {None} \cup Seated(r)
(* ... and nobody has left the table. *)
Follows(r, s) == SameRound(r, s) /\ Seated(s) = Seated(r)

(* A room that follows from a room that follows, follows. *)
LEMMA FollowsOn ==
    ASSUME NEW r, NEW s, NEW t, Follows(r, s), Follows(s, t)
    PROVE  Follows(r, t)
  BY DEF Follows, SameRound, Named

(* What the type of a room says of its players. *)
LEMMA Possible ==
    ASSUME NEW r \in Room
    PROVE  /\ Seated(r) \subseteq Players
           /\ \A p \in Players : r.lives[p] \in 0..Lives
           /\ Alive(r) \subseteq Seated(r)
           /\ r.rat \in Players \cup {None}
           /\ r.result.lifeLoss \in Players \cup {None}
           /\ None \notin Players
<1>1. r.order \in Seq(Players) /\ r.lives \in [Players -> 0..Lives]
      /\ r.rat \in Players \cup {None} /\ r.result.lifeLoss \in Players \cup {None}
  BY DEF Room
<1>2. ToSet(r.order) \subseteq Players
  BY <1>1 DEF ToSet
<1> QED
  BY <1>1, <1>2, TableAssumption DEF Seated, Alive

-----------------------------------------------------------------------------
(* What the operators that only write fields do *)

(* The table's fields of a room that the flow of a round leaves alone. *)
SameTable(r, s) ==
    /\ s.order = r.order /\ s.seat = r.seat /\ s.connected = r.connected
    /\ s.abandoned = r.abandoned /\ s.host = r.host /\ s.overdue = r.overdue

(* The ledgers of a round. *)
SameLedgers(r, s) ==
    /\ s.turnOrder = r.turnOrder /\ s.turnIdx = r.turnIdx /\ s.clues = r.clues
    /\ s.ready = r.ready /\ s.voted = r.voted /\ s.votes = r.votes

(* setPhase changes the phase and its timer and nothing else. *)
LEMMA SetPhaseIs ==
    ASSUME NEW r \in Room, NEW phase \in Phases, NEW timer \in {"off", "running", "due"}
    PROVE  /\ SetPhase(r, phase, timer) \in Room
           /\ SetPhase(r, phase, timer).phase = phase
           /\ SetPhase(r, phase, timer).timer = timer
           /\ SameTable(r, SetPhase(r, phase, timer))
           /\ SameLedgers(r, SetPhase(r, phase, timer))
           /\ SetPhase(r, phase, timer).lives = r.lives
           /\ SetPhase(r, phase, timer).out = r.out
           /\ SetPhase(r, phase, timer).rat = r.rat
           /\ SetPhase(r, phase, timer).lastStart = r.lastStart
           /\ SetPhase(r, phase, timer).result = r.result
  BY DEF SetPhase, Room, SameTable, SameLedgers

(* Entering a vote empties the ledgers of the round and changes nothing else. *)
LEMMA DropLedgersIs ==
    ASSUME NEW r \in Room
    PROVE  /\ DropLedgers(r) \in Room
           /\ SameTable(r, DropLedgers(r))
           /\ DropLedgers(r).phase = r.phase
           /\ DropLedgers(r).timer = r.timer
           /\ DropLedgers(r).turnOrder = <<>>
           /\ DropLedgers(r).turnIdx = 0
           /\ DropLedgers(r).clues = <<>>
           /\ DropLedgers(r).ready = {}
           /\ DropLedgers(r).voted = {}
           /\ DropLedgers(r).votes = NoVotes
           /\ DropLedgers(r).lives = r.lives
           /\ DropLedgers(r).out = r.out
           /\ DropLedgers(r).rat = r.rat
           /\ DropLedgers(r).lastStart = r.lastStart
           /\ DropLedgers(r).result = r.result
<1>1. <<>> \in Seq(Players)
  OBVIOUS
<1>2. NoVotes \in UNION {[voters -> Players] : voters \in SUBSET Players}
  <2>1. NoVotes \in [{} -> Players]
    BY DEF NoVotes
  <2> QED
    BY <2>1
<1> HIDE DEF NoVotes
<1> QED
  BY <1>1, <1>2 DEF DropLedgers, Room, SameTable

(* A room with the same table, and its other fields in order, has a good table. *)
LEMMA SameTableOK ==
    ASSUME NEW r, SeatsOK(r), HostSeated(r), NEW s \in Room, SameTable(r, s), TimerOK(s),
           s.out \subseteq Seated(r), s.ready \subseteq Seated(r), s.voted \subseteq Seated(r),
           \A p \in Players : p \notin Seated(r) => s.lives[p] = 0,
           s.turnIdx <= Len(s.turnOrder) + 1
    PROVE  TableOK(s) /\ Seated(s) = Seated(r)
<1>1. Seated(s) = Seated(r)
  BY DEF SameTable, Seated
<1> QED
  BY <1>1 DEF SeatsOK, HostSeated, TableOK, SameTable

(* enterResolve, from any phase. *)
LEMMA Resolved ==
    ASSUME NEW r, SeatsOK(r), HostSeated(r), r.phase # "LOBBY"
    PROVE  GoodRoom(EnterResolve(r)) /\ Follows(r, EnterResolve(r))
           /\ EnterResolve(r).phase = "RESOLVE"
<1> DEFINE d == DropLedgers(r)
           out == d.out \cup {p \in Seated(r) : r.lives[p] = 0}
           e == [d EXCEPT !.rat = None, !.result.caught = FALSE, !.out = out]
           s == SetPhase(e, "RESOLVE", "running")
<1>0. r \in Room
  BY DEF SeatsOK
<1>1. /\ d \in Room /\ SameTable(r, d) /\ d.lives = r.lives /\ d.out = r.out /\ d.result = r.result
      /\ d.turnOrder = <<>> /\ d.turnIdx = 0 /\ d.ready = {} /\ d.voted = {}
  BY <1>0, DropLedgersIs
<1>2. out \subseteq Seated(r) /\ out \in SUBSET Players
  BY <1>0, <1>1, Possible DEF SeatsOK
<1>3. EnterResolve(r) = s
  BY DEF EnterResolve
<1> HIDE DEF d, out
<1>4. /\ e \in Room /\ SameTable(d, e) /\ e.lives = d.lives /\ e.out = out
      /\ e.result.lifeLoss = d.result.lifeLoss /\ e.rat = None
      /\ e.turnOrder = d.turnOrder /\ e.turnIdx = d.turnIdx /\ e.ready = d.ready /\ e.voted = d.voted
  BY <1>1, <1>2 DEF Room, SameTable
<1> HIDE DEF e
<1>5. /\ s \in Room /\ s.phase = "RESOLVE" /\ s.timer = "running"
      /\ SameTable(e, s) /\ SameLedgers(e, s)
      /\ s.lives = e.lives /\ s.out = e.out /\ s.result = e.result /\ s.rat = e.rat
  BY <1>4, SetPhaseIs DEF Phases
<1> HIDE DEF s
<1>6. SameTable(r, s)
  BY <1>1, <1>4, <1>5 DEF SameTable
<1>7. s.turnIdx <= Len(s.turnOrder) + 1 /\ s.ready = {} /\ s.voted = {} /\ s.out = out
      /\ s.lives = r.lives /\ s.result.lifeLoss = r.result.lifeLoss /\ s.rat = None
  <2>1. s.turnIdx = 0 /\ s.turnOrder = <<>>
    BY <1>1, <1>4, <1>5 DEF SameLedgers
  <2> QED
    BY <1>1, <1>4, <1>5, <2>1 DEF SameLedgers
<1>8. TableOK(s) /\ Seated(s) = Seated(r)
  BY <1>2, <1>5, <1>6, <1>7, SameTableOK DEF SeatsOK, TimerOK
<1>9. RoundOK(s)
  BY <1>5 DEF RoundOK, RoundOpen, Judged
<1> QED
  BY <1>3, <1>5, <1>7, <1>8, <1>9 DEF GoodRoom, Follows, SameRound, Named, Account

(* voidRound, of a round in which nobody has lost a life. *)
LEMMA Voided ==
    ASSUME NEW r, SeatsOK(r), HostSeated(r), r.phase # "LOBBY", r.result.lifeLoss = None
    PROVE  GoodRoom(VoidRound(r)) /\ Follows(r, VoidRound(r))
<1> DEFINE e == [r EXCEPT !.result = NoResult]
<1>1. r \in Room /\ None \notin Players
  BY Possible DEF SeatsOK
<1>2. NoResult \in [caught: BOOLEAN, lifeLoss: Players \cup {None}] /\ NoResult.lifeLoss = None
  BY DEF NoResult
<1> HIDE DEF NoResult
<1>3. /\ e \in Room /\ SameTable(r, e) /\ SameLedgers(r, e) /\ e.phase = r.phase /\ e.timer = r.timer
      /\ e.lives = r.lives /\ e.out = r.out /\ e.result = NoResult /\ e.rat = r.rat
  BY <1>1, <1>2 DEF Room, SameTable, SameLedgers
<1>4. VoidRound(r) = EnterResolve(e)
  BY DEF VoidRound
<1> HIDE DEF e
<1>5. Seated(e) = Seated(r)
  BY <1>3 DEF SameTable, Seated
<1>6. SeatsOK(e) /\ HostSeated(e)
  BY <1>3, <1>5 DEF SeatsOK, HostSeated, SameTable, SameLedgers
<1>7. GoodRoom(EnterResolve(e)) /\ Follows(e, EnterResolve(e))
  BY <1>3, <1>6, Resolved
<1>8. Follows(r, e)
  BY <1>2, <1>3, <1>5 DEF Follows, SameRound, Named, Account
<1> QED
  BY <1>4, <1>7, <1>8, FollowsOn

(* loseLife, of a player who has one to lose, in a round that has cost none. *)
LEMMA LifeLost ==
    ASSUME NEW r, SeatsOK(r), HostSeated(r), NEW p \in Players \cup {None},
           r.phase # "LOBBY", r.result.lifeLoss = None, p \in Seated(r) => r.lives[p] > 0
    PROVE  /\ SeatsOK(LoseLife(r, p)) /\ HostSeated(LoseLife(r, p))
           /\ Follows(r, LoseLife(r, p))
<1>1. r \in Room /\ None \notin Players
  BY Possible DEF SeatsOK
<1>2. CASE p \notin Seated(r)
  <2>1. LoseLife(r, p) = r
    BY <1>2 DEF LoseLife
  <2> QED
    BY <2>1 DEF Follows, SameRound, Named
<1>3. CASE p \in Seated(r)
  <2> DEFINE n == IF r.lives[p] = 0 THEN 0 ELSE r.lives[p] - 1
             e == [r EXCEPT !.lives[p] = n, !.result.lifeLoss = p]
  <2>1. p \in Players /\ r.lives[p] \in 0..Lives /\ r.lives[p] > 0
        /\ \A q \in Players : r.lives[q] \in 0..Lives
    BY <1>1, <1>3, Possible
  <2>2. n \in 0..Lives /\ n + 1 = r.lives[p]
    BY <2>1, TableAssumption
  <2>3. LoseLife(r, p) = e
    BY <1>3 DEF LoseLife
  <2> HIDE DEF n
  <2>4. e \in Room
    BY <1>1, <2>1, <2>2 DEF Room
  <2>5. /\ SameTable(r, e) /\ SameLedgers(r, e) /\ e.phase = r.phase /\ e.timer = r.timer
        /\ e.out = r.out /\ e.result.lifeLoss = p /\ e.rat = r.rat
    BY <1>1 DEF Room, SameTable, SameLedgers
  <2>6. \A q \in Players : e.lives[q] = IF q = p THEN n ELSE r.lives[q]
    BY <1>1 DEF Room
  <2> HIDE DEF e
  <2>7. Seated(e) = Seated(r)
    BY <2>5 DEF SameTable, Seated
  <2>8. SeatsOK(e) /\ HostSeated(e)
    BY <1>3, <2>4, <2>5, <2>6, <2>7 DEF SeatsOK, HostSeated, SameTable, SameLedgers
  <2>9. \A q \in Seated(r) : Account(e, q) = Account(r, q)
    <3> SUFFICES ASSUME NEW q \in Seated(r)
                 PROVE  Account(e, q) = Account(r, q)
      OBVIOUS
    <3>1. q \in Players /\ q # None
      BY <1>1, Possible
    <3> QED
      BY <2>1, <2>2, <2>5, <2>6, <3>1 DEF Account
  <2>10. Follows(r, e)
    BY <1>3, <2>5, <2>7, <2>9 DEF Follows, SameRound, Named
  <2> QED
    BY <2>3, <2>8, <2>10
<1> QED
  BY <1>2, <1>3

(* enterVote, of a round that may go on. *)
LEMMA VoteEntered ==
    ASSUME NEW r, SeatsOK(r), HostSeated(r), r.phase \in RoundOpen, Playable(r)
    PROVE  GoodRoom(EnterVote(r)) /\ Follows(r, EnterVote(r))
<1> DEFINE d == DropLedgers(r)
           s == SetPhase(d, "VOTE", "running")
<1>0. r \in Room
  BY DEF SeatsOK
<1>1. /\ d \in Room /\ SameTable(r, d) /\ d.lives = r.lives /\ d.out = r.out /\ d.result = r.result
      /\ d.rat = r.rat /\ d.turnOrder = <<>> /\ d.turnIdx = 0 /\ d.ready = {} /\ d.voted = {}
      /\ d.votes = NoVotes
  BY <1>0, DropLedgersIs
<1>3. EnterVote(r) = s
  BY DEF EnterVote
<1> HIDE DEF d
<1>5. /\ s \in Room /\ s.phase = "VOTE" /\ s.timer = "running"
      /\ SameTable(d, s) /\ SameLedgers(d, s)
      /\ s.lives = d.lives /\ s.out = d.out /\ s.result = d.result /\ s.rat = d.rat
  BY <1>1, SetPhaseIs DEF Phases, RoundOpen
<1> HIDE DEF s
<1>6. SameTable(r, s)
  BY <1>1, <1>5 DEF SameTable
<1>7. s.turnIdx <= Len(s.turnOrder) + 1 /\ s.ready = {} /\ s.voted = {} /\ s.out = r.out
      /\ s.lives = r.lives /\ s.result = r.result /\ s.votes = NoVotes /\ s.rat = r.rat
  <2>1. s.turnIdx = 0 /\ s.turnOrder = <<>>
    BY <1>1, <1>5 DEF SameLedgers
  <2> QED
    BY <1>1, <1>5, <2>1 DEF SameLedgers
<1>8. TableOK(s) /\ Seated(s) = Seated(r)
  BY <1>5, <1>6, <1>7, SameTableOK DEF SeatsOK, TimerOK
<1>9. Alive(s) = Alive(r)
  BY <1>7, <1>8 DEF Alive
<1>10. RoundOK(s)
  BY <1>5, <1>7, <1>9 DEF RoundOK, Playable, Judged, Ballots, NoVotes
<1> QED
  BY <1>3, <1>5, <1>7, <1>8, <1>10 DEF GoodRoom, Follows, SameRound, Named, Account, RoundOpen

(* closeVote, of a round that may go on. *)
LEMMA VoteClosed ==
    ASSUME NEW r, SeatsOK(r), HostSeated(r), r.phase \in RoundOpen, Playable(r)
    PROVE  GoodRoom(CloseVote(r)) /\ Follows(r, CloseVote(r))
<1> DEFINE d == DropLedgers(r)
           result == [NoResult EXCEPT !.caught = Leaders(r) = {r.rat}]
           e == [d EXCEPT !.result = result]
           s == SetPhase(e, "VOTE_RESULT", "running")
<1>0. r \in Room
  BY DEF SeatsOK
<1>1. /\ d \in Room /\ SameTable(r, d) /\ d.lives = r.lives /\ d.out = r.out
      /\ d.rat = r.rat /\ d.turnOrder = <<>> /\ d.turnIdx = 0 /\ d.ready = {} /\ d.voted = {}
  BY <1>0, DropLedgersIs
<1>2. result \in [caught: BOOLEAN, lifeLoss: Players \cup {None}] /\ result.lifeLoss = None
  BY DEF NoResult
<1>3. CloseVote(r) = s
  BY DEF CloseVote
<1> HIDE DEF d, result
<1>4. /\ e \in Room /\ SameTable(d, e) /\ SameLedgers(d, e) /\ e.lives = d.lives /\ e.out = d.out
      /\ e.result = result /\ e.rat = d.rat
  BY <1>1, <1>2 DEF Room, SameTable, SameLedgers
<1> HIDE DEF e
<1>5. /\ s \in Room /\ s.phase = "VOTE_RESULT" /\ s.timer = "running"
      /\ SameTable(e, s) /\ SameLedgers(e, s)
      /\ s.lives = e.lives /\ s.out = e.out /\ s.result = e.result /\ s.rat = e.rat
  BY <1>4, SetPhaseIs DEF Phases
<1> HIDE DEF s
<1>6. SameTable(r, s)
  BY <1>1, <1>4, <1>5 DEF SameTable
<1>7. s.turnIdx <= Len(s.turnOrder) + 1 /\ s.ready = {} /\ s.voted = {} /\ s.out = r.out
      /\ s.lives = r.lives /\ s.result = result /\ s.rat = r.rat
  <2>1. s.turnIdx = 0 /\ s.turnOrder = <<>>
    BY <1>1, <1>4, <1>5 DEF SameLedgers
  <2> QED
    BY <1>1, <1>4, <1>5, <2>1 DEF SameLedgers
<1>8. TableOK(s) /\ Seated(s) = Seated(r)
  BY <1>5, <1>6, <1>7, SameTableOK DEF SeatsOK, TimerOK
<1>9. r.rat \in Alive(r) /\ r.lives[r.rat] > 0
  BY DEF Playable, Alive
<1>10. RoundOK(s)
  BY <1>2, <1>5, <1>7, <1>9 DEF RoundOK, RoundOpen
<1> QED
  BY <1>2, <1>3, <1>5, <1>7, <1>8, <1>10 DEF GoodRoom, Follows, SameRound, Named, Account, RoundOpen, Playable

(* maybeAllReady and maybeAllVoted, wherever a departure may call them. *)
LEMMA ProgressSettled ==
    ASSUME NEW r, GoodRoom(r), r.phase # "LOBBY"
    PROVE  /\ GoodRoom(SettleProgress(r)) /\ Follows(r, SettleProgress(r))
           /\ r.phase = "DISCUSS" => SettleProgress(r) = MaybeAllReady(r)
           /\ r.phase = "VOTE" => SettleProgress(r) = MaybeAllVoted(r)
<1>1. SeatsOK(r) /\ HostSeated(r) /\ RoundOK(r)
  BY DEF GoodRoom, TableOK
<1>2. r.phase \in {"DISCUSS", "VOTE"} => Playable(r) /\ r.phase \in RoundOpen
  BY <1>1 DEF RoundOK, RoundOpen
<1>3. Follows(r, r)
  BY DEF Follows, SameRound, Named
<1> QED
  BY <1>1, <1>2, <1>3, VoteEntered, VoteClosed DEF SettleProgress, MaybeAllReady, MaybeAllVoted

-----------------------------------------------------------------------------
(* Dealing *)

(* Players who are seated, in the order of their seats. *)
LEMMA InSeatOrder ==
    ASSUME NEW r, SeatsOK(r), NEW S \in SUBSET Seated(r)
    PROVE  /\ BySeat(r, S) \in Seq(Players)
           /\ ToSet(BySeat(r, S)) = S
           /\ IsInjective(BySeat(r, S))
           /\ S # {} => BySeat(r, S)[1] \in S
<1> DEFINE n == Cardinality(S)
           list == BySeat(r, S)
<1>1. r \in Room /\ S \subseteq Players /\ Seated(r) \subseteq Players
  BY Possible DEF SeatsOK
<1>2. IsFiniteSet(S) /\ n \in Nat
  <2>1. r.order \in Seq(Players) /\ IsInjective(r.order)
    BY DEF SeatsOK, Room
  <2>2. IsFiniteSet(Seated(r))
    BY <2>1, InjectiveLength DEF Seated
  <2> QED
    BY <2>2, FS_Subset, FS_CardinalityType
<1>3. Keyed(S, r.seat)
  <2>1. r.seat \in [Players -> Seats \cup {None}]
    BY <1>1 DEF Room
  <2>2. \A p \in S : r.seat[p] \in Seats
    BY <1>1, <2>1 DEF SeatsOK
  <2>3. Seats \subseteq Nat
    BY TableAssumption DEF Seats
  <2> QED
    BY <1>1, <2>2, <2>3 DEF Keyed, SeatsOK
<1>4. list \in Bijection(1..n, S)
  BY <1>2, <1>3, InOrderLists DEF BySeat
<1> HIDE DEF list, n
<1>5. /\ DOMAIN list = 1..n /\ list \in [1..n -> S]
      /\ \A p \in S : \E i \in 1..n : list[i] = p
      /\ \A i, j \in 1..n : list[i] = list[j] => i = j
  BY <1>4 DEF Bijection, Injection, Surjection, IsInjective
<1>6. list \in Seq(Players)
  <2>1. list \in [1..n -> Players]
    BY <1>1, <1>5
  <2> QED
    BY <1>2, <2>1
<1>7. ToSet(list) = S /\ IsInjective(list)
  BY <1>5 DEF ToSet, IsInjective
<1>8. S # {} => 1 \in 1..n
  <2>1. S # {} => n # 0
    BY <1>2, FS_EmptySet DEF n
  <2> QED
    BY <1>2, <2>1
<1> QED
  BY <1>5, <1>6, <1>7, <1>8 DEF list

(* deal, of a table with three players alive, one of them the Rat. *)
LEMMA Dealt ==
    ASSUME NEW r, SeatsOK(r), HostSeated(r), NEW rat \in Alive(r), Cardinality(Alive(r)) >= 3
    PROVE  /\ GoodRoom(Deal(r, rat))
           /\ Deal(r, rat).phase = "DEAL"
           /\ Deal(r, rat).result.lifeLoss = None
           /\ Seated(Deal(r, rat)) = Seated(r)
<1> DEFINE starts == StartSeats(r)
           first == BySeat(r, starts)[1]
           before == {p \in Alive(r) : r.seat[p] < r.seat[first]}
           turns == BySeat(r, Alive(r) \ before) \o BySeat(r, before)
           e == [r EXCEPT !.lastStart = r.seat[first], !.rat = rat, !.turnIdx = 0,
                    !.turnOrder = turns,
                    !.votes = NoVotes, !.voted = {}, !.ready = {}, !.clues = <<>>,
                    !.result = NoResult]
           s == SetPhase(e, "DEAL", "running")
<1>1. r \in Room /\ Alive(r) \subseteq Seated(r) /\ Seated(r) \subseteq Players
  BY Possible DEF SeatsOK
<1>2. starts # {} /\ starts \in SUBSET Seated(r)
  BY <1>1 DEF StartSeats
<1>3. r.seat[first] \in Seats \cup {None}
  <2> HIDE DEF starts
  <2>1. first \in starts
    BY <1>2, InSeatOrder
  <2> HIDE DEF first
  <2>2. first \in Players /\ r.seat \in [Players -> Seats \cup {None}]
    BY <1>1, <1>2, <2>1 DEF Room
  <2> QED
    BY <2>2
<1> HIDE DEF first, starts
<1>4. turns \in Seq(Players) /\ ToSet(turns) = Alive(r) /\ IsInjective(turns)
  <2>1. Alive(r) \ before \in SUBSET Seated(r) /\ before \in SUBSET Seated(r)
    BY <1>1
  <2>2. (Alive(r) \ before) \cap before = {} /\ (Alive(r) \ before) \cup before = Alive(r)
    OBVIOUS
  <2> HIDE DEF before
  <2> DEFINE one == BySeat(r, Alive(r) \ before)
             two == BySeat(r, before)
  <2>3. one \in Seq(Players) /\ ToSet(one) = Alive(r) \ before /\ IsInjective(one)
    BY <2>1, InSeatOrder
  <2>4. two \in Seq(Players) /\ ToSet(two) = before /\ IsInjective(two)
    BY <2>1, InSeatOrder
  <2>5. turns = one \o two
    OBVIOUS
  <2> HIDE DEF one, two, turns
  <2> QED
    BY <2>2, <2>3, <2>4, <2>5, ConcatKeeps
<1>5. Deal(r, rat) = s
  BY DEF Deal, first, starts
<1> HIDE DEF turns
<1>6. /\ NoResult \in [caught: BOOLEAN, lifeLoss: Players \cup {None}] /\ NoResult.lifeLoss = None
      /\ NoVotes \in UNION {[voters -> Players] : voters \in SUBSET Players}
      /\ <<>> \in Seq(Players) /\ rat \in Players
  <2>1. NoVotes \in [{} -> Players]
    BY DEF NoVotes
  <2>2. NoVotes \in UNION {[voters -> Players] : voters \in SUBSET Players}
    BY <2>1
  <2> QED
    BY <1>1, <2>2 DEF NoResult
<1> HIDE DEF NoResult, NoVotes
<1>7. e \in Room
  BY <1>1, <1>3, <1>4, <1>6 DEF Room
<1>8. /\ SameTable(r, e) /\ e.lives = r.lives /\ e.out = r.out /\ e.rat = rat
      /\ e.turnOrder = turns /\ e.turnIdx = 0 /\ e.clues = <<>> /\ e.ready = {} /\ e.voted = {}
      /\ e.result = NoResult
  BY <1>1 DEF Room, SameTable
<1> HIDE DEF e
<1>9. /\ s \in Room /\ s.phase = "DEAL" /\ s.timer = "running" /\ SameTable(e, s) /\ SameLedgers(e, s)
      /\ s.lives = e.lives /\ s.out = e.out /\ s.rat = e.rat /\ s.result = e.result
  BY <1>7, SetPhaseIs DEF Phases, RoundOpen
<1> HIDE DEF s
<1>10. /\ SameTable(r, s) /\ s.lives = r.lives /\ s.out = r.out /\ s.rat = rat
       /\ s.turnOrder = turns /\ s.turnIdx = 0 /\ s.clues = <<>> /\ s.ready = {} /\ s.voted = {}
       /\ s.result = NoResult
  BY <1>8, <1>9 DEF SameTable, SameLedgers
<1>11. s.turnIdx <= Len(s.turnOrder) + 1
  <2>1. Len(turns) \in Nat
    BY <1>4
  <2> QED
    BY <1>10, <2>1
<1>12. TableOK(s) /\ Seated(s) = Seated(r)
  BY <1>9, <1>10, <1>11, SameTableOK DEF SeatsOK, TimerOK
<1>13. Alive(s) = Alive(r)
  BY <1>10, <1>12 DEF Alive
<1>14. RoundOK(s)
  BY <1>4, <1>6, <1>9, <1>10, <1>13 DEF RoundOK, Playable, TurnsDealt, Judged
<1> QED
  BY <1>5, <1>6, <1>9, <1>10, <1>12, <1>14 DEF GoodRoom

-----------------------------------------------------------------------------
(* The clue round *)

(* maybeAllReady, when the talk has just begun. *)
LEMMA TalkBegun ==
    ASSUME NEW r, SeatsOK(r), HostSeated(r), r.phase = "CLUES", Playable(r),
           InTurnOrder(r, Len(r.turnOrder) + 1), Alive(r) \subseteq ToSet(r.clues),
           NEW s, s = SetPhase([r EXCEPT !.turnIdx = Len(r.turnOrder) + 1], "DISCUSS", "off")
    PROVE  GoodRoom(MaybeAllReady(s)) /\ Follows(r, MaybeAllReady(s))
<1> DEFINE n == Len(r.turnOrder) + 1
           e == [r EXCEPT !.turnIdx = n]
<1>1. r \in Room /\ n \in Nat
  BY DEF SeatsOK, Room
<1> HIDE DEF n
<1>2. /\ e \in Room /\ SameTable(r, e) /\ e.lives = r.lives /\ e.out = r.out /\ e.rat = r.rat
      /\ e.turnOrder = r.turnOrder /\ e.turnIdx = n /\ e.clues = r.clues /\ e.ready = r.ready
      /\ e.voted = r.voted /\ e.result = r.result
  BY <1>1 DEF Room, SameTable
<1>3. s = SetPhase(e, "DISCUSS", "off")
  BY DEF n
<1> HIDE DEF e
<1>4. /\ s \in Room /\ s.phase = "DISCUSS" /\ s.timer = "off" /\ SameTable(e, s) /\ SameLedgers(e, s)
      /\ s.lives = e.lives /\ s.out = e.out /\ s.rat = e.rat /\ s.result = e.result
  BY <1>2, <1>3, SetPhaseIs DEF Phases, RoundOpen
<1>5. /\ SameTable(r, s) /\ s.lives = r.lives /\ s.out = r.out /\ s.rat = r.rat
      /\ s.turnOrder = r.turnOrder /\ s.turnIdx = n /\ s.clues = r.clues /\ s.ready = r.ready
      /\ s.voted = r.voted /\ s.result = r.result
  BY <1>2, <1>4 DEF SameTable, SameLedgers
<1>6. TableOK(s) /\ Seated(s) = Seated(r)
  BY <1>1, <1>4, <1>5, SameTableOK DEF SeatsOK, TimerOK, n
<1>7. Alive(s) = Alive(r)
  BY <1>5, <1>6 DEF Alive
<1>8. InTurnOrder(s, s.turnIdx)
  BY <1>5 DEF InTurnOrder, n
<1>9. RoundOK(s)
  BY <1>4, <1>5, <1>7, <1>8 DEF RoundOK, Playable, Judged
<1>10. Follows(r, s)
  BY <1>4, <1>5, <1>6 DEF Follows, SameRound, Named, Account
<1>11. MaybeAllReady(s) = SettleProgress(s)
  BY <1>4 DEF SettleProgress
<1> QED
  BY <1>4, <1>6, <1>9, <1>10, <1>11, ProgressSettled, FollowsOn DEF GoodRoom

(* advanceTurn, when everyone up to the last turn has spoken or is out of it. *)
LEMMA TurnAdvanced ==
    ASSUME NEW r, SeatsOK(r), HostSeated(r), r.phase = "CLUES", Playable(r), TurnsDealt(r),
           r.turnIdx <= Len(r.turnOrder),
           InTurnOrder(r, r.turnIdx + 1), HaveSpoken(r, r.turnIdx + 1)
    PROVE  GoodRoom(AdvanceTurn(r)) /\ Follows(r, AdvanceTurn(r))
<1>1. /\ r \in Room /\ r.turnOrder \in Seq(Players) /\ r.turnIdx \in Nat
      /\ r.turnIdx <= Len(r.turnOrder)
      /\ DOMAIN r.turnOrder = 1..Len(r.turnOrder) /\ Len(r.turnOrder) \in Nat
      /\ r.clues \in Seq(Players)
  BY DEF SeatsOK, Room
<1>2. CASE TurnsLeft(r) = {}
  <2>1. Alive(r) \subseteq ToSet(r.clues)
    <3> SUFFICES ASSUME NEW p \in Alive(r)
                 PROVE  p \in ToSet(r.clues)
      OBVIOUS
    <3>1. PICK i \in DOMAIN r.turnOrder : r.turnOrder[i] = p
      BY DEF TurnsDealt, ToSet
    <3>2. i < r.turnIdx + 1
      BY <1>1, <1>2, <3>1 DEF TurnsLeft
    <3> QED
      BY <3>1, <3>2 DEF HaveSpoken
  <2>2. InTurnOrder(r, Len(r.turnOrder) + 1)
    <3> SUFFICES ASSUME NEW j \in DOMAIN r.clues
                 PROVE  \E t \in 1..((Len(r.turnOrder) + 1) - 1) :
                          /\ r.turnOrder[t] = r.clues[j]
                          /\ \A i \in 1..(j - 1) : \E before \in 1..(t - 1) : r.turnOrder[before] = r.clues[i]
      BY DEF InTurnOrder
    <3>1. PICK t \in 1..((r.turnIdx + 1) - 1) :
             /\ r.turnOrder[t] = r.clues[j]
             /\ \A i \in 1..(j - 1) : \E before \in 1..(t - 1) : r.turnOrder[before] = r.clues[i]
      BY DEF InTurnOrder
    <3>2. t \in 1..((Len(r.turnOrder) + 1) - 1)
      BY <1>1
    <3> QED
      BY <3>1, <3>2
  <2>3. AdvanceTurn(r) = MaybeAllReady(SetPhase([r EXCEPT !.turnIdx = Len(r.turnOrder) + 1], "DISCUSS", "off"))
    BY <1>2 DEF AdvanceTurn
  <2> QED
    BY <2>1, <2>2, <2>3, TalkBegun
<1>3. CASE TurnsLeft(r) # {}
  <2> DEFINE t == CHOOSE i \in TurnsLeft(r) : \A j \in TurnsLeft(r) : i <= j
             s == [r EXCEPT !.turnIdx = t, !.timer = TurnTimer(r)]
  <2>1. t \in TurnsLeft(r) /\ \A j \in TurnsLeft(r) : t <= j
    <3>1. TurnsLeft(r) \in SUBSET (0..Len(r.turnOrder))
      BY <1>1 DEF TurnsLeft
    <3> QED
      BY <1>1, <1>3, <3>1, LeastNumber
  <2>2. AdvanceTurn(r) = s
    BY <1>3 DEF AdvanceTurn
  <2> HIDE DEF t
  <2>3. /\ t \in 1..Len(r.turnOrder) /\ t > r.turnIdx /\ r.turnOrder[t] \in Alive(r)
        /\ t \in Nat /\ t <= Len(r.turnOrder) + 1
    BY <1>1, <2>1 DEF TurnsLeft
  <2>4. /\ s \in Room /\ SameTable(r, s) /\ s.lives = r.lives /\ s.out = r.out /\ s.rat = r.rat
        /\ s.turnOrder = r.turnOrder /\ s.turnIdx = t /\ s.clues = r.clues /\ s.ready = r.ready
        /\ s.voted = r.voted /\ s.result = r.result /\ s.phase = "CLUES" /\ s.timer = "running"
    <3>1. s \in Room
      BY <1>1, <2>3 DEF Room, TurnTimer
    <3>2. s.phase = "CLUES" /\ s.timer = "running" /\ s.turnIdx = t
      BY <1>1 DEF Room, TurnTimer
    <3> QED
      BY <1>1, <3>1, <3>2 DEF Room, SameTable
  <2> HIDE DEF s
  <2>5. TableOK(s) /\ Seated(s) = Seated(r)
    <3>1. TimerOK(s) /\ s.turnIdx <= Len(s.turnOrder) + 1
      BY <2>3, <2>4 DEF TimerOK
    <3>2. /\ s.out \subseteq Seated(r) /\ s.ready \subseteq Seated(r) /\ s.voted \subseteq Seated(r)
          /\ \A p \in Players : p \notin Seated(r) => s.lives[p] = 0
      BY <2>4 DEF SeatsOK
    <3> QED
      BY <2>4, <3>1, <3>2, SameTableOK
  <2>6. Alive(s) = Alive(r)
    BY <2>4, <2>5 DEF Alive
  <2>7. InTurnOrder(s, t)
    <3> SUFFICES ASSUME NEW j \in DOMAIN r.clues
                 PROVE  \E k \in 1..(t - 1) :
                          /\ r.turnOrder[k] = r.clues[j]
                          /\ \A i \in 1..(j - 1) : \E before \in 1..(k - 1) : r.turnOrder[before] = r.clues[i]
      BY <2>4 DEF InTurnOrder
    <3>1. PICK k \in 1..((r.turnIdx + 1) - 1) :
             /\ r.turnOrder[k] = r.clues[j]
             /\ \A i \in 1..(j - 1) : \E before \in 1..(k - 1) : r.turnOrder[before] = r.clues[i]
      BY DEF InTurnOrder
    <3>2. k \in 1..(t - 1)
      BY <1>1, <2>3
    <3> QED
      BY <3>1, <3>2
  <2>8. HaveSpoken(s, t)
    <3> SUFFICES ASSUME NEW k \in DOMAIN r.turnOrder, k < t, r.turnOrder[k] \in Alive(r)
                 PROVE  r.turnOrder[k] \in ToSet(r.clues)
      BY <2>4, <2>6 DEF HaveSpoken
    <3>1. k < r.turnIdx + 1
      BY <1>1, <2>1, <2>3 DEF TurnsLeft
    <3> QED
      BY <3>1 DEF HaveSpoken
  <2>9. RoundOK(s)
    BY <1>1, <2>3, <2>4, <2>6, <2>7, <2>8 DEF RoundOK, Playable, Judged, TurnsDealt, Speaker
  <2>10. Follows(r, s)
    BY <2>4, <2>5 DEF Follows, SameRound, Named, Account
  <2> QED
    BY <2>2, <2>5, <2>9, <2>10 DEF GoodRoom
<1> QED
  BY <1>2, <1>3

(* The turn goes on after its clue, or the absence of one, is written down. *)
LEMMA ClueRecorded ==
    ASSUME NEW r, GoodRoom(r), r.phase = "CLUES"
    PROVE  /\ GoodRoom(AdvanceTurn(RecordClue(r)))
           /\ Follows(r, AdvanceTurn(RecordClue(r)))
<1> DEFINE p == Speaker(r)
           clues == Append(r.clues, p)
           s == [r EXCEPT !.clues = clues]
<1>1. /\ SeatsOK(r) /\ TimerOK(r) /\ HostSeated(r) /\ Playable(r) /\ TurnsDealt(r)
      /\ r.turnIdx \in DOMAIN r.turnOrder
      /\ Speaker(r) \in Alive(r) /\ InTurnOrder(r, r.turnIdx) /\ HaveSpoken(r, r.turnIdx)
  BY DEF GoodRoom, TableOK, RoundOK, RoundOpen
<1>2. /\ r \in Room /\ r.turnOrder \in Seq(Players) /\ r.turnIdx \in Nat /\ r.clues \in Seq(Players)
      /\ p \in Players /\ p = r.turnOrder[r.turnIdx]
      /\ DOMAIN r.turnOrder = 1..Len(r.turnOrder) /\ Len(r.turnOrder) \in Nat
      /\ DOMAIN r.clues = 1..Len(r.clues) /\ Len(r.clues) \in Nat
  BY <1>1, Possible DEF SeatsOK, Room, Speaker
<1>3. /\ clues \in Seq(Players) /\ ToSet(clues) = ToSet(r.clues) \cup {p}
      /\ DOMAIN clues = 1..(Len(r.clues) + 1)
      /\ \A j \in 1..Len(r.clues) : clues[j] = r.clues[j]
      /\ clues[Len(r.clues) + 1] = p
  BY <1>2, AppendKeeps
<1>4. RecordClue(r) = s
  BY DEF RecordClue
<1> HIDE DEF clues, p
<1>5. /\ s \in Room /\ SameTable(r, s) /\ s.lives = r.lives /\ s.out = r.out /\ s.rat = r.rat
      /\ s.turnOrder = r.turnOrder /\ s.turnIdx = r.turnIdx /\ s.clues = clues /\ s.ready = r.ready
      /\ s.voted = r.voted /\ s.result = r.result /\ s.phase = "CLUES" /\ s.timer = r.timer
  BY <1>2, <1>3 DEF Room, SameTable
<1> HIDE DEF s
<1>6. Seated(s) = Seated(r)
  BY <1>5 DEF SameTable, Seated
<1>7. SeatsOK(s) /\ HostSeated(s)
  BY <1>1, <1>5, <1>6 DEF SeatsOK, HostSeated, SameTable
<1>8. Alive(s) = Alive(r) /\ Playable(s) /\ TurnsDealt(s)
  BY <1>1, <1>5, <1>6 DEF Alive, Playable, TurnsDealt
<1>9. InTurnOrder(s, s.turnIdx + 1)
  <2> SUFFICES ASSUME NEW j \in 1..(Len(r.clues) + 1)
               PROVE  \E t \in 1..((r.turnIdx + 1) - 1) :
                        /\ r.turnOrder[t] = clues[j]
                        /\ \A i \in 1..(j - 1) : \E before \in 1..(t - 1) : r.turnOrder[before] = clues[i]
    BY <1>3, <1>5 DEF InTurnOrder
  <2>1. CASE j \in 1..Len(r.clues)
    <3>1. PICK t \in 1..(r.turnIdx - 1) :
             /\ r.turnOrder[t] = r.clues[j]
             /\ \A i \in 1..(j - 1) : \E before \in 1..(t - 1) : r.turnOrder[before] = r.clues[i]
      BY <1>1, <1>2, <2>1 DEF InTurnOrder
    <3>2. t \in 1..((r.turnIdx + 1) - 1)
      BY <1>2
    <3>3. \A i \in 1..(j - 1) : clues[i] = r.clues[i]
      BY <1>2, <1>3, <2>1
    <3> QED
      BY <1>3, <2>1, <3>1, <3>2, <3>3
  <2>2. CASE j = Len(r.clues) + 1
    <3>1. r.turnIdx \in 1..((r.turnIdx + 1) - 1) /\ r.turnOrder[r.turnIdx] = clues[j]
      BY <1>1, <1>2, <1>3, <2>2
    <3>2. ASSUME NEW i \in 1..(j - 1)
          PROVE  \E before \in 1..(r.turnIdx - 1) : r.turnOrder[before] = clues[i]
      <4>1. i \in 1..Len(r.clues) /\ clues[i] = r.clues[i]
        BY <1>2, <1>3, <2>2, <3>2
      <4>2. i \in DOMAIN r.clues
        BY <1>2, <4>1
      <4> QED
        BY <1>1, <4>1, <4>2 DEF InTurnOrder
    <3> QED
      BY <3>1, <3>2
  <2> QED
    BY <1>2, <2>1, <2>2
<1>10. HaveSpoken(s, s.turnIdx + 1)
  <2> SUFFICES ASSUME NEW t \in DOMAIN r.turnOrder, t < r.turnIdx + 1, r.turnOrder[t] \in Alive(r)
               PROVE  r.turnOrder[t] \in ToSet(clues)
    BY <1>5, <1>8 DEF HaveSpoken
  <2>1. CASE t = r.turnIdx
    BY <1>2, <1>3, <2>1
  <2>2. CASE t # r.turnIdx
    <3>1. t < r.turnIdx
      BY <1>2, <2>2
    <3> QED
      BY <1>1, <1>3, <3>1 DEF HaveSpoken
  <2> QED
    BY <2>1, <2>2
<1>11. s.turnIdx <= Len(s.turnOrder)
  BY <1>1, <1>2, <1>5
<1>12. GoodRoom(AdvanceTurn(s)) /\ Follows(s, AdvanceTurn(s))
  BY <1>5, <1>7, <1>8, <1>9, <1>10, <1>11, TurnAdvanced
<1>13. Follows(r, s)
  BY <1>5, <1>6 DEF Follows, SameRound, Named, Account
<1> QED
  BY <1>4, <1>12, <1>13, FollowsOn

(* beginClues, of a round that has been dealt. *)
LEMMA CluesBegun ==
    ASSUME NEW r, GoodRoom(r), r.phase = "DEAL"
    PROVE  GoodRoom(BeginClues(r)) /\ Follows(r, BeginClues(r))
<1> DEFINE e == [r EXCEPT !.turnIdx = 0]
           s == SetPhase(e, "CLUES", "off")
<1>1. /\ SeatsOK(r) /\ HostSeated(r) /\ Playable(r) /\ TurnsDealt(r) /\ r.clues = <<>>
      /\ r \in Room /\ Len(r.turnOrder) \in Nat /\ DOMAIN r.turnOrder = 1..Len(r.turnOrder)
  BY DEF GoodRoom, TableOK, RoundOK, RoundOpen, SeatsOK, Room
<1>2. BeginClues(r) = AdvanceTurn(s)
  BY DEF BeginClues
<1>3. /\ e \in Room /\ SameTable(r, e) /\ e.lives = r.lives /\ e.out = r.out /\ e.rat = r.rat
      /\ e.turnOrder = r.turnOrder /\ e.turnIdx = 0 /\ e.clues = <<>> /\ e.ready = r.ready
      /\ e.voted = r.voted /\ e.result = r.result
  BY <1>1 DEF Room, SameTable
<1> HIDE DEF e
<1>4. /\ s \in Room /\ s.phase = "CLUES" /\ SameTable(e, s) /\ SameLedgers(e, s)
      /\ s.lives = e.lives /\ s.out = e.out /\ s.rat = e.rat /\ s.result = e.result
  BY <1>3, SetPhaseIs DEF Phases, RoundOpen
<1> HIDE DEF s
<1>5. /\ SameTable(r, s) /\ s.lives = r.lives /\ s.out = r.out /\ s.rat = r.rat
      /\ s.turnOrder = r.turnOrder /\ s.turnIdx = 0 /\ s.clues = <<>> /\ s.ready = r.ready
      /\ s.voted = r.voted /\ s.result = r.result
  BY <1>3, <1>4 DEF SameTable, SameLedgers
<1>6. Seated(s) = Seated(r)
  BY <1>5 DEF SameTable, Seated
<1>7. SeatsOK(s) /\ HostSeated(s)
  BY <1>1, <1>4, <1>5, <1>6 DEF SeatsOK, HostSeated, SameTable
<1>8. Playable(s) /\ TurnsDealt(s)
  BY <1>1, <1>5, <1>6 DEF Alive, Playable, TurnsDealt
<1>9. InTurnOrder(s, s.turnIdx + 1) /\ HaveSpoken(s, s.turnIdx + 1)
  <2>1. DOMAIN s.clues = {}
    BY <1>5
  <2>2. \A t \in DOMAIN s.turnOrder : ~(t < s.turnIdx + 1)
    BY <1>1, <1>5
  <2> QED
    BY <2>1, <2>2 DEF InTurnOrder, HaveSpoken
<1>10. GoodRoom(AdvanceTurn(s)) /\ Follows(s, AdvanceTurn(s))
  BY <1>1, <1>4, <1>5, <1>7, <1>8, <1>9, TurnAdvanced
<1>11. Follows(r, s)
  BY <1>1, <1>4, <1>5, <1>6 DEF Follows, SameRound, Named, Account, Playable
<1> QED
  BY <1>2, <1>10, <1>11, FollowsOn

-----------------------------------------------------------------------------
(* The host *)

(* Two rooms at the same point of the same round, with the same players. *)
Alike(r, s) ==
    /\ Seated(s) = Seated(r) /\ s.lives = r.lives /\ s.out = r.out
    /\ s.phase = r.phase /\ s.timer = r.timer /\ s.rat = r.rat /\ s.result = r.result
    /\ SameLedgers(r, s)

(* Rooms that are alike have the same round: seats, connections and host may differ. *)
LEMMA AlikeRounds ==
    ASSUME NEW r, NEW s, Alike(r, s)
    PROVE  /\ RoundOK(r) => RoundOK(s)
           /\ TimerOK(r) => TimerOK(s)
           /\ Alive(s) = Alive(r)
           /\ r.phase # "LOBBY" => Follows(r, s)
<1>1. Alive(s) = Alive(r)
  BY DEF Alike, Alive
<1>2. /\ Playable(r) => Playable(s)
      /\ TurnsDealt(r) => TurnsDealt(s)
      /\ Ballots(r) => Ballots(s)
      /\ Speaker(s) = Speaker(r)
  BY <1>1 DEF Alike, SameLedgers, Playable, TurnsDealt, Ballots, Speaker
<1>3. /\ InTurnOrder(r, r.turnIdx) => InTurnOrder(s, s.turnIdx)
      /\ HaveSpoken(r, r.turnIdx) => HaveSpoken(s, s.turnIdx)
  BY <1>1 DEF Alike, SameLedgers, InTurnOrder, HaveSpoken
<1> QED
  BY <1>1, <1>2, <1>3 DEF Alike, SameLedgers, RoundOK, TimerOK, Follows, SameRound, Named, Account

(* reassignHostIfNeeded leaves a host who is seated, whoever was the host before. *)
LEMMA HostReassigned ==
    ASSUME NEW r, SeatsOK(r)
    PROVE  /\ SeatsOK(ReassignHost(r)) /\ HostSeated(ReassignHost(r))
           /\ Alike(r, ReassignHost(r))
           /\ ReassignHost(r).order = r.order
           /\ ReassignHost(r).abandoned = r.abandoned
<1> DEFINE host == IF r.host \in r.connected THEN r.host
                   ELSE IF r.connected # {} THEN FirstOf(r, r.connected)
                   ELSE HostOffline(r)
           overdue == r.overdue /\ host = r.host
           s == [r EXCEPT !.host = host, !.overdue = overdue]
<1>1. /\ r \in Room /\ r.order \in Seq(Players) /\ r.connected \subseteq Seated(r)
      /\ Seated(r) \subseteq Players /\ r.overdue \in BOOLEAN
      /\ None \notin Players
  BY Possible DEF SeatsOK, Room
<1>2. host \in Seated(r) \/ (r.order = <<>> /\ host = None)
  <2>1. CASE r.host \in r.connected
    BY <1>1, <2>1
  <2>2. CASE r.host \notin r.connected /\ r.connected # {}
    <3>1. FirstOf(r, r.connected) \in Seated(r)
      <4>1. ToSet(r.order) \cap r.connected # {}
        BY <1>1, <2>2 DEF Seated
      <4> QED
        BY <1>1, <4>1, FirstPlaceFinds DEF FirstOf, Seated
    <3> QED
      BY <2>2, <3>1
  <2>3. CASE r.host \notin r.connected /\ r.connected = {}
    <3>1. host = HostOffline(r)
      BY <2>3
    <3>2. r.order # <<>> => r.order[1] \in Seated(r)
      <4>1. r.order # <<>> => 1 \in DOMAIN r.order
        BY <1>1
      <4> QED
        BY <4>1 DEF Seated, ToSet
    <3>3. r.order = <<>> => Seated(r) = {}
      BY <1>1, Heads DEF Seated
    <3> QED
      BY <3>1, <3>2, <3>3 DEF HostOffline
  <2> QED
    BY <2>1, <2>2, <2>3
<1>3. ReassignHost(r) = s
  BY DEF ReassignHost
<1>4. overdue \in BOOLEAN /\ (overdue => host = r.host /\ r.overdue)
  BY <1>1
<1> HIDE DEF host, overdue
<1>5. /\ s \in Room /\ s.host = host /\ s.overdue = overdue
      /\ s.order = r.order /\ s.seat = r.seat /\ s.connected = r.connected /\ s.abandoned = r.abandoned
      /\ s.lives = r.lives /\ s.out = r.out /\ s.phase = r.phase /\ s.timer = r.timer
      /\ s.rat = r.rat /\ s.result = r.result /\ SameLedgers(r, s)
  BY <1>1, <1>2, <1>4 DEF Room, SameLedgers
<1> HIDE DEF s
<1>6. Seated(s) = Seated(r)
  BY <1>5 DEF Seated
<1>7. SeatsOK(s) /\ HostSeated(s)
  BY <1>2, <1>4, <1>5, <1>6 DEF SeatsOK, HostSeated, SameLedgers
<1> QED
  BY <1>3, <1>5, <1>6, <1>7 DEF Alike

(* sweepHost keeps a good room good; it touches neither the round nor the order. *)
LEMMA HostSwept ==
    ASSUME NEW r, GoodRoom(r)
    PROVE  /\ GoodRoom(SweepHost(r)) /\ Alike(r, SweepHost(r))
           /\ SweepHost(r).order = r.order
           /\ SweepHost(r).abandoned = r.abandoned
<1>1. CASE HostHandsOver(r)
  BY <1>1, HostReassigned, AlikeRounds DEF SweepHost, GoodRoom, TableOK
<1>2. CASE ~HostHandsOver(r)
  BY <1>2 DEF SweepHost, Alike, SameLedgers
<1> QED
  BY <1>1, <1>2

-----------------------------------------------------------------------------
(* Departures *)

(* q is the room r once p is out of the round: seated no more, or not alive. *)
Without(r, q, p) ==
    /\ Seated(q) \subseteq Seated(r)
    /\ Alive(q) = Alive(r) \ {p}
    /\ \A x \in Seated(q) : q.lives[x] = r.lives[x]
    /\ q.phase = r.phase /\ q.timer = r.timer /\ q.rat = r.rat /\ q.result = r.result
    /\ q.turnOrder = r.turnOrder /\ q.turnIdx = r.turnIdx /\ q.clues = r.clues /\ q.votes = r.votes
    /\ q.voted \subseteq r.voted /\ r.voted \subseteq q.voted \cup {p}

(* A departure that does not call the round off leaves it one that may go on. *)
LEMMA StillPlayable ==
    ASSUME NEW r, NEW q, NEW p, SeatsOK(r), SeatsOK(q), Playable(r), Without(r, q, p), ~CallsOff(q, p)
    PROVE  Playable(q)
<1>1. p # r.rat /\ ~(Cardinality(Alive(q)) < MinPlayers)
  BY DEF CallsOff, Without
<1>2. Cardinality(Alive(q)) \in Nat
  <2>1. q.order \in Seq(Players) /\ IsInjective(q.order)
    BY DEF SeatsOK, Room
  <2>2. IsFiniteSet(Seated(q)) /\ Alive(q) \subseteq Seated(q)
    BY <2>1, InjectiveLength DEF Seated, Alive
  <2> QED
    BY <2>2, FS_Subset, FS_CardinalityType
<1>3. Cardinality(Alive(q)) >= 3
  BY <1>1, <1>2, TableAssumption
<1> QED
  BY <1>1, <1>3 DEF Playable, Without

(* playerGone, in every phase of a match. *)
LEMMA PlayerIsGone ==
    ASSUME NEW r, GoodRoom(r), r.phase # "LOBBY", NEW p \in Players,
           NEW q, SeatsOK(q), HostSeated(q), Without(r, q, p)
    PROVE  GoodRoom(PlayerGone(q, p)) /\ Follows(q, PlayerGone(q, p))
<1>0. /\ q \in Room /\ None \notin Players /\ q.phase = r.phase /\ q.turnOrder \in Seq(Players)
      /\ RoundOK(r) /\ SeatsOK(r) /\ TimerOK(r)
      /\ q.turnIdx \in Nat /\ DOMAIN q.turnOrder = 1..Len(q.turnOrder) /\ Len(q.turnOrder) \in Nat
  <2>1. q \in Room /\ q.phase = r.phase
    BY DEF SeatsOK, Without
  <2>2. None \notin Players
    BY TableAssumption
  <2>3. q.turnOrder \in Seq(Players) /\ q.turnIdx \in Nat
    BY <2>1 DEF Room
  <2>4. RoundOK(r) /\ SeatsOK(r) /\ TimerOK(r)
    BY DEF GoodRoom, TableOK
  <2> QED
    BY <2>1, <2>2, <2>3, <2>4
<1>1. Follows(q, q)
  BY <1>0 DEF Account, Follows, SameRound, Named
<1>2. TimerOK(q)
  BY <1>0 DEF TimerOK, Without
<1>3. q.phase \in Judged =>
        /\ q.result.lifeLoss = None
        /\ q.rat \in Seated(q) => q.lives[q.rat] > 0
  BY <1>0 DEF RoundOK, Without
<1>4. CASE q.phase \in {"LAST_WORD", "PAYBACK"} /\ p = q.rat
  <2> DEFINE s == [q EXCEPT !.timer = "due"]
  <2>1. PlayerGone(q, p) = s
    BY <1>4 DEF PlayerGone
  <2>2. /\ s \in Room /\ s.timer = "due" /\ s.phase = q.phase /\ SameTable(q, s) /\ SameLedgers(q, s)
        /\ s.lives = q.lives /\ s.out = q.out /\ s.rat = q.rat /\ s.result = q.result
    BY <1>0 DEF Room, SameTable, SameLedgers
  <2> HIDE DEF s
  <2>3. Seated(s) = Seated(q)
    BY <2>2 DEF SameTable, Seated
  <2>4. TableOK(s)
    BY <1>4, <2>2, <2>3 DEF TableOK, TimerOK, SeatsOK, HostSeated, SameTable, SameLedgers
  <2>5. RoundOK(s)
    <3>1. q.phase \in Judged /\ q.phase \notin RoundOpen
      BY <1>4 DEF Judged, RoundOpen
    <3>2. s.result.lifeLoss = None /\ (s.rat \in Seated(s) => s.lives[s.rat] > 0)
      BY <1>3, <2>2, <2>3, <3>1
    <3> HIDE DEF Judged
    <3> QED
      BY <2>2, <3>1, <3>2 DEF RoundOK, RoundOpen
  <2>6. Follows(q, s)
    BY <1>4, <2>2, <2>3 DEF Follows, SameRound, Named, Account
  <2> QED
    BY <1>1, <2>1, <2>4, <2>5, <2>6, FollowsOn DEF GoodRoom
<1>5. CASE ~(q.phase \in {"LAST_WORD", "PAYBACK"} /\ p = q.rat) /\ q.phase \notin RoundOpen
  <2>1. PlayerGone(q, p) = q
    BY <1>5 DEF PlayerGone
  <2>2. RoundOK(q)
    <3>1. q.phase \notin RoundOpen
      BY <1>5
    <3> QED
      BY <1>3, <3>1 DEF RoundOK, RoundOpen
  <2> QED
    BY <1>1, <1>2, <2>1, <2>2 DEF GoodRoom, TableOK
<1>6. CASE q.phase \in RoundOpen
  <2>0. ~(q.phase \in {"LAST_WORD", "PAYBACK"} /\ p = q.rat)
    BY <1>6 DEF RoundOpen
  <2>1. Playable(r) /\ q.result.lifeLoss = None
    BY <1>0, <1>6 DEF RoundOK, Playable, Without
  <2>2. CASE CallsOff(q, p)
    <3>1. PlayerGone(q, p) = VoidRound(q)
      BY <1>6, <2>0, <2>2 DEF PlayerGone
    <3> QED
      BY <1>0, <1>1, <2>1, <3>1, Voided, FollowsOn
  <2>3. CASE ~CallsOff(q, p)
    <3>1. Playable(q)
      BY <1>0, <2>1, <2>3, StillPlayable
    <3>2. q.phase \in {"DEAL", "CLUES"} => TurnsDealt(q) /\ IsInjective(q.turnOrder)
      BY <1>0 DEF RoundOK, TurnsDealt, Without
    <3>3. CASE q.phase = "CLUES"
      <4>1. /\ r.turnIdx \in DOMAIN r.turnOrder /\ InTurnOrder(r, r.turnIdx)
            /\ HaveSpoken(r, r.turnIdx) /\ Speaker(r) \in Alive(r)
        BY <1>0, <3>3 DEF RoundOK
      <4>2. /\ q.turnIdx \in DOMAIN q.turnOrder /\ InTurnOrder(q, q.turnIdx)
            /\ HaveSpoken(q, q.turnIdx) /\ Speaker(q) = Speaker(r)
        BY <4>1 DEF Without, InTurnOrder, HaveSpoken, Speaker
      <4>3. CASE Speaker(q) = p
        <5>1. PlayerGone(q, p) = AdvanceTurn(q)
          BY <1>6, <2>0, <2>3, <3>3, <4>3 DEF PlayerGone
        <5>2. q.turnIdx <= Len(q.turnOrder)
          BY <1>0, <4>2
        <5>3. InTurnOrder(q, q.turnIdx + 1)
          <6> SUFFICES ASSUME NEW j \in DOMAIN q.clues
                       PROVE  \E t \in 1..((q.turnIdx + 1) - 1) :
                                /\ q.turnOrder[t] = q.clues[j]
                                /\ \A i \in 1..(j - 1) : \E before \in 1..(t - 1) : q.turnOrder[before] = q.clues[i]
            BY DEF InTurnOrder
          <6>1. PICK t \in 1..(q.turnIdx - 1) :
                   /\ q.turnOrder[t] = q.clues[j]
                   /\ \A i \in 1..(j - 1) : \E before \in 1..(t - 1) : q.turnOrder[before] = q.clues[i]
            BY <4>2 DEF InTurnOrder
          <6>2. t \in 1..((q.turnIdx + 1) - 1)
            BY <1>0
          <6> QED
            BY <6>1, <6>2
        <5>4. HaveSpoken(q, q.turnIdx + 1)
          <6> SUFFICES ASSUME NEW t \in DOMAIN q.turnOrder, t < q.turnIdx + 1, q.turnOrder[t] \in Alive(q)
                       PROVE  q.turnOrder[t] \in ToSet(q.clues)
            BY DEF HaveSpoken
          <6>1. t # q.turnIdx
            BY <4>3 DEF Speaker, Without
          <6>2. t < q.turnIdx
            BY <1>0, <6>1
          <6> QED
            BY <4>2, <6>2 DEF HaveSpoken
        <5>5. GoodRoom(AdvanceTurn(q)) /\ Follows(q, AdvanceTurn(q))
          BY <3>1, <3>2, <3>3, <5>2, <5>3, <5>4, TurnAdvanced
        <5> QED
          BY <1>1, <5>1, <5>5, FollowsOn
      <4>4. CASE Speaker(q) # p
        <5>1. PlayerGone(q, p) = q
          BY <1>6, <2>0, <2>3, <3>3, <4>4 DEF PlayerGone
        <5>2. Speaker(q) \in Alive(q)
          BY <4>1, <4>2, <4>4 DEF Without
        <5>3. RoundOK(q)
          BY <3>1, <3>2, <3>3, <4>2, <5>2 DEF RoundOK, Judged
        <5> QED
          BY <1>1, <1>2, <5>1, <5>3 DEF GoodRoom, TableOK
      <4> QED
        BY <4>3, <4>4
    <3>4. CASE q.phase = "VOTE"
      <4> DEFINE lost == BallotsFor(q, p) \cup {p}
                 votes == [v \in DOMAIN q.votes \ lost |-> q.votes[v]]
                 voted == q.voted \ VoteAgain(q, p)
                 s == [q EXCEPT !.votes = votes, !.voted = voted]
      <4>1. PlayerGone(q, p) = SettleProgress(s)
        BY <1>6, <2>0, <2>3, <3>4 DEF PlayerGone
      <4>2. Ballots(r) /\ q.votes = r.votes
        BY <1>0, <3>4 DEF RoundOK, Without
      <4>3. DOMAIN votes = voted \cap Alive(q)
        <5>1. DOMAIN votes = (r.voted \cap Alive(r)) \ lost
          BY <4>2 DEF Ballots
        <5>2. r.voted \cap Alive(q) = q.voted \cap Alive(q)
          BY DEF Without
        <5> QED
          BY <5>1, <5>2 DEF Without, VoteAgain
      <4>4. \A v \in DOMAIN votes : votes[v] \in Alive(q) \ {v}
        BY <4>2 DEF Ballots, Without, BallotsFor
      <4>5. votes \in UNION {[voters -> Players] : voters \in SUBSET Players}
        <5>1. q.votes \in UNION {[voters -> Players] : voters \in SUBSET Players} /\ q.voted \in SUBSET Players
          BY <1>0 DEF Room
        <5>2. Alive(q) \subseteq Players
          BY <1>0, Possible
        <5>3. votes \in [DOMAIN votes -> Players] /\ DOMAIN votes \in SUBSET Players
          BY <4>3, <4>4, <5>1, <5>2
        <5> QED
          BY <5>3
      <4> HIDE DEF votes
      <4>6. voted \in SUBSET q.voted
        OBVIOUS
      <4> HIDE DEF voted
      <4>7. /\ s \in Room /\ SameTable(q, s) /\ s.timer = q.timer /\ s.phase = q.phase
            /\ s.lives = q.lives /\ s.out = q.out /\ s.rat = q.rat /\ s.result = q.result
            /\ s.turnOrder = q.turnOrder /\ s.turnIdx = q.turnIdx /\ s.ready = q.ready
            /\ s.votes = votes /\ s.voted = voted
        BY <1>0, <4>5, <4>6 DEF Room, SameTable
      <4> HIDE DEF s
      <4>8. Seated(s) = Seated(q)
        BY <4>7 DEF SameTable, Seated
      <4>9. TableOK(s)
        BY <1>2, <4>6, <4>7, <4>8 DEF TableOK, TimerOK, SeatsOK, HostSeated, SameTable
      <4>10. Alive(s) = Alive(q)
        BY <4>7, <4>8 DEF Alive
      <4>11. RoundOK(s)
        BY <3>1, <3>4, <4>3, <4>4, <4>7, <4>10 DEF RoundOK, Playable, Ballots, Judged
      <4>12. Follows(q, s)
        BY <3>4, <4>7, <4>8 DEF Follows, SameRound, Named, Account
      <4>13. GoodRoom(SettleProgress(s)) /\ Follows(s, SettleProgress(s))
        BY <3>4, <4>7, <4>9, <4>11, ProgressSettled DEF GoodRoom
      <4> QED
        BY <1>1, <4>1, <4>12, <4>13, FollowsOn
    <3>5. CASE q.phase \in {"DEAL", "DISCUSS"}
      <4>1. PlayerGone(q, p) = SettleProgress(q)
        BY <1>6, <2>0, <2>3, <3>5 DEF PlayerGone
      <4>2. q.phase = "DEAL" => q.clues = <<>>
        BY <1>0 DEF RoundOK, Without
      <4>3. q.phase = "DISCUSS" => InTurnOrder(q, q.turnIdx) /\ Alive(q) \subseteq ToSet(q.clues)
        BY <1>0 DEF RoundOK, Without, InTurnOrder
      <4>4. RoundOK(q)
        BY <3>1, <3>2, <3>5, <4>2, <4>3 DEF RoundOK, Judged
      <4>5. GoodRoom(SettleProgress(q)) /\ Follows(q, SettleProgress(q))
        BY <1>2, <3>5, <4>4, ProgressSettled DEF GoodRoom, TableOK
      <4> QED
        BY <1>1, <4>1, <4>5, FollowsOn
    <3> QED
      BY <1>6, <3>3, <3>4, <3>5 DEF RoundOpen
  <2> QED
    BY <2>2, <2>3
<1> QED
  BY <1>4, <1>5, <1>6

(* removePlayer: the seat is free again, and the player is in no ledger. *)
LEMMA Removed ==
    ASSUME NEW r, GoodRoom(r), NEW p \in Seated(r)
    PROVE  /\ GoodRoom(RemovePlayer(r, p))
           /\ Seated(RemovePlayer(r, p)) = Seated(r) \ {p}
           /\ r.phase # "LOBBY" => SameRound(r, RemovePlayer(r, p))
           /\ r.phase = "LOBBY" => /\ RemovePlayer(r, p).phase = "LOBBY"
                                   /\ Named(RemovePlayer(r, p)) = Named(r)
<1> DEFINE order == Dropping(r.order, {p})
           left == Unseat(r, p)
           host == IF left.host = p THEN None ELSE left.host
           e == [left EXCEPT !.host = host]
           q == ReassignHost(e)
<1>1. /\ r \in Room /\ p \in Players /\ None \notin Players
      /\ r.order \in Seq(Players) /\ r.host \in Players \cup {None}
      /\ SeatsOK(r) /\ TimerOK(r) /\ RoundOK(r)
  <2>1. SeatsOK(r) /\ TimerOK(r) /\ RoundOK(r) /\ r \in Room
    BY DEF GoodRoom, TableOK, SeatsOK
  <2> QED
    BY <2>1, Possible DEF Room
<1>2. order \in Seq(Players) /\ ToSet(order) = Seated(r) \ {p} /\ IsInjective(order)
  BY <1>1, DroppingKeeps DEF Seated, SeatsOK
<1> HIDE DEF order
<1>3. /\ left \in Room /\ left.order = order /\ left.host = r.host
      /\ left.overdue = r.overdue /\ left.phase = r.phase /\ left.timer = r.timer
      /\ left.rat = r.rat /\ left.result = r.result
      /\ left.turnOrder = r.turnOrder /\ left.turnIdx = r.turnIdx /\ left.clues = r.clues
      /\ left.votes = r.votes
      /\ left.connected = r.connected \ {p} /\ left.out = r.out \ {p}
      /\ left.abandoned = r.abandoned \ {p} /\ left.ready = r.ready \ {p}
      /\ left.voted = r.voted \ {p}
      /\ \A x \in Players : left.seat[x] = IF x = p THEN None ELSE r.seat[x]
      /\ \A x \in Players : left.lives[x] = IF x = p THEN 0 ELSE r.lives[x]
  <2>1. left = [r EXCEPT !.order = order, !.seat[p] = None,
                  !.lives[p] = 0, !.connected = @ \ {p}, !.out = @ \ {p}, !.abandoned = @ \ {p},
                  !.ready = @ \ {p}, !.voted = @ \ {p}]
    BY DEF Unseat, order
  <2>2. 0 \in 0..Lives
    BY TableAssumption
  <2> HIDE DEF left
  <2> QED
    BY <1>1, <1>2, <2>1, <2>2 DEF Room
<1> HIDE DEF left
<1>4. host \in Players \cup {None}
  BY <1>1, <1>3
<1> HIDE DEF host
<1>5. /\ e \in Room /\ e.host = host /\ e.order = left.order
      /\ e.overdue = left.overdue /\ e.phase = left.phase /\ e.timer = left.timer
      /\ e.rat = left.rat /\ e.result = left.result
      /\ e.turnOrder = left.turnOrder /\ e.turnIdx = left.turnIdx /\ e.clues = left.clues
      /\ e.votes = left.votes /\ e.connected = left.connected /\ e.out = left.out
      /\ e.abandoned = left.abandoned /\ e.ready = left.ready /\ e.voted = left.voted
      /\ e.seat = left.seat /\ e.lives = left.lives
  BY <1>3, <1>4 DEF Room
<1> HIDE DEF e
<1>6. Seated(e) = Seated(r) \ {p}
  BY <1>2, <1>3, <1>5 DEF Seated
<1>7. SeatsOK(e)
  <2>1. /\ \A x, y \in Seated(e) : x # y => e.seat[x] # e.seat[y]
        /\ \A x \in Players : /\ e.seat[x] = None <=> x \notin Seated(e)
                              /\ x \notin Seated(e) => e.lives[x] = 0
    <3>1. Seated(r) \subseteq Players
      BY <1>1, Possible
    <3> QED
      BY <1>1, <1>3, <1>5, <1>6, <3>1 DEF SeatsOK
  <2>2. /\ e.connected \cup e.out \cup e.abandoned \cup e.ready \cup e.voted \subseteq Seated(e)
        /\ e.abandoned \cap e.connected = {}
    BY <1>1, <1>3, <1>5, <1>6 DEF SeatsOK
  <2>3. e.overdue => e.host \notin e.connected
    <3>1. r.overdue => r.host \notin r.connected
      BY <1>1 DEF SeatsOK
    <3>2. None \notin r.connected
      BY <1>1 DEF Room
    <3> QED
      BY <1>3, <1>5, <3>1, <3>2 DEF host
  <2>4. IsInjective(e.order) /\ e.turnIdx <= Len(e.turnOrder) + 1
    BY <1>1, <1>2, <1>3, <1>5 DEF SeatsOK
  <2> QED
    BY <1>5, <2>1, <2>2, <2>3, <2>4 DEF SeatsOK
<1>8. SeatsOK(q) /\ HostSeated(q) /\ Alike(e, q)
  BY <1>7, HostReassigned
<1> HIDE DEF q
<1>9. Without(r, e, p)
  <2>1. Alive(e) = Alive(r) \ {p}
    <3>1. Seated(r) \subseteq Players
      BY <1>1, Possible
    <3> QED
      BY <1>3, <1>5, <1>6, <3>1 DEF Alive
  <2>2. \A x \in Seated(e) : e.lives[x] = r.lives[x]
    <3>1. Seated(r) \subseteq Players
      BY <1>1, Possible
    <3> QED
      BY <1>3, <1>5, <1>6, <3>1
  <2> QED
    BY <1>3, <1>5, <1>6, <2>1, <2>2 DEF Without
<1>10. Without(r, q, p)
  BY <1>8, <1>9, AlikeRounds DEF Without, Alike, SameLedgers
<1>11. Seated(q) = Seated(r) \ {p} /\ q.phase = r.phase /\ q.timer = r.timer /\ Named(q) = Named(r)
  BY <1>3, <1>5, <1>6, <1>8 DEF Alike, Named
<1>12. RemovePlayer(r, p) = IF r.phase = "LOBBY" THEN q ELSE PlayerGone(q, p)
  BY DEF RemovePlayer, q, e, host, left
<1>13. CASE r.phase = "LOBBY"
  <2>1. TimerOK(q)
    BY <1>1, <1>11, <1>13 DEF TimerOK
  <2>2. RoundOK(q)
    BY <1>11, <1>13 DEF RoundOK, RoundOpen, Judged
  <2> QED
    BY <1>8, <1>11, <1>12, <1>13, <2>1, <2>2 DEF GoodRoom, TableOK
<1>14. CASE r.phase # "LOBBY"
  <2>1. GoodRoom(PlayerGone(q, p)) /\ Follows(q, PlayerGone(q, p))
    BY <1>1, <1>8, <1>10, <1>14, PlayerIsGone
  <2>2. SameRound(r, q)
    BY <1>10, <1>11, <1>14 DEF SameRound, Named, Without, Account
  <2>3. SameRound(r, PlayerGone(q, p))
    BY <2>1, <2>2 DEF Follows, SameRound, Named
  <2> QED
    BY <1>11, <1>12, <1>14, <2>1, <2>3 DEF Follows
<1> QED
  BY <1>13, <1>14

(* abandonPlayer: in a match the player keeps seat and lives, but is out of it. *)
LEMMA Abandoned ==
    ASSUME NEW r, GoodRoom(r), NEW p \in Seated(r)
    PROVE  /\ GoodRoom(AbandonPlayer(r, p))
           /\ Seated(AbandonPlayer(r, p)) \subseteq Seated(r)
           /\ r.phase # "LOBBY" => SameRound(r, AbandonPlayer(r, p))
           /\ r.phase = "LOBBY" => /\ AbandonPlayer(r, p).phase = "LOBBY"
                                   /\ Named(AbandonPlayer(r, p)) = Named(r)
<1> DEFINE e == [r EXCEPT !.connected = @ \ {p}, !.abandoned = @ \cup {p},
                          !.out = @ \cup {p}, !.ready = @ \ {p}, !.lives = r.lives]
           q == ReassignHost(e)
<1>1. CASE r.phase = "LOBBY"
  <2>1. AbandonPlayer(r, p) = RemovePlayer(r, p)
    BY <1>1 DEF AbandonPlayer
  <2> QED
    BY <1>1, <2>1, Removed
<1>2. CASE r.phase # "LOBBY"
  <2>1. AbandonPlayer(r, p) = PlayerGone(q, p)
    BY <1>2 DEF AbandonPlayer, LivesKept
  <2>2. r \in Room /\ SeatsOK(r) /\ TimerOK(r) /\ p \in Players
    <3>1. SeatsOK(r) /\ TimerOK(r) /\ r \in Room
      BY DEF GoodRoom, TableOK, SeatsOK
    <3> QED
      BY <3>1, Possible
  <2>3. /\ e \in Room /\ e.host = r.host /\ e.order = r.order
        /\ e.overdue = r.overdue /\ e.phase = r.phase /\ e.timer = r.timer
        /\ e.rat = r.rat /\ e.result = r.result
        /\ e.turnOrder = r.turnOrder /\ e.turnIdx = r.turnIdx /\ e.clues = r.clues
        /\ e.votes = r.votes /\ e.voted = r.voted /\ e.seat = r.seat /\ e.lives = r.lives
        /\ e.connected = r.connected \ {p} /\ e.out = r.out \cup {p}
        /\ e.abandoned = r.abandoned \cup {p} /\ e.ready = r.ready \ {p}
    BY <2>2 DEF Room
  <2> HIDE DEF e
  <2>4. Seated(e) = Seated(r)
    BY <2>3 DEF Seated
  <2>5. SeatsOK(e)
    BY <2>2, <2>3, <2>4 DEF SeatsOK
  <2>6. SeatsOK(q) /\ HostSeated(q) /\ Alike(e, q)
    BY <2>5, HostReassigned
  <2> HIDE DEF q
  <2>7. Without(r, e, p)
    BY <2>3, <2>4 DEF Without, Alive
  <2>8. Without(r, q, p)
    BY <2>6, <2>7, AlikeRounds DEF Without, Alike, SameLedgers
  <2>9. GoodRoom(PlayerGone(q, p)) /\ Follows(q, PlayerGone(q, p))
    BY <1>2, <2>2, <2>6, <2>8, PlayerIsGone
  <2>10. Seated(q) = Seated(r)
    BY <2>4, <2>6 DEF Alike
  <2>11. SameRound(r, q)
    BY <1>2, <2>8, <2>10 DEF SameRound, Named, Without, Account
  <2>12. SameRound(r, PlayerGone(q, p))
    BY <2>9, <2>11 DEF Follows, SameRound, Named
  <2> QED
    BY <1>2, <2>1, <2>9, <2>12 DEF SameRound, Named
<1> QED
  BY <1>1, <1>2

-----------------------------------------------------------------------------
(* The clock *)

(* The room s may come after r: the round goes on, or another is dealt. *)
Onward(r, s) == \/ Follows(r, s)
                \/ /\ r.phase = "RESOLVE" /\ s.phase = "DEAL" /\ s.result.lifeLoss = None
                   /\ Seated(s) = Seated(r)

(* A phase that asks nothing of the round but its Judged part. *)
LEMMA PhaseTurned ==
    ASSUME NEW r, GoodRoom(r), r.phase # "LOBBY",
           NEW phase \in Phases \ (RoundOpen \cup {"LOBBY"}), phase \in Judged => r.phase \in Judged,
           NEW timer \in {"off", "running"}, phase = "MATCH_OVER" => timer = "off"
    PROVE  /\ GoodRoom(SetPhase(r, phase, timer))
           /\ Follows(r, SetPhase(r, phase, timer))
<1> DEFINE s == SetPhase(r, phase, timer)
<1>1. SeatsOK(r) /\ HostSeated(r) /\ RoundOK(r) /\ r \in Room
  BY DEF GoodRoom, TableOK, SeatsOK
<1>2. /\ s \in Room /\ s.phase = phase /\ s.timer = timer
      /\ SameTable(r, s) /\ SameLedgers(r, s)
      /\ s.lives = r.lives /\ s.out = r.out /\ s.rat = r.rat /\ s.result = r.result
  BY <1>1, SetPhaseIs
<1> HIDE DEF s
<1>3. phase \notin RoundOpen /\ phase \notin {"DEAL", "CLUES", "DISCUSS", "VOTE", "LOBBY"}
  BY DEF RoundOpen
<1>4. TableOK(s) /\ Seated(s) = Seated(r)
  <2>1. TimerOK(s)
    BY <1>2, <1>3 DEF TimerOK
  <2>2. /\ s.out \subseteq Seated(r) /\ s.ready \subseteq Seated(r) /\ s.voted \subseteq Seated(r)
        /\ \A p \in Players : p \notin Seated(r) => s.lives[p] = 0
        /\ s.turnIdx <= Len(s.turnOrder) + 1
    BY <1>1, <1>2 DEF SeatsOK, SameLedgers
  <2> QED
    BY <1>1, <1>2, <2>1, <2>2, SameTableOK
<1>5. RoundOK(s)
  <2>1. phase \in Judged => /\ r.result.lifeLoss = None
                            /\ r.rat \in Seated(r) => r.lives[r.rat] > 0
    BY <1>1 DEF RoundOK
  <2> HIDE DEF Judged
  <2> QED
    BY <1>2, <1>3, <1>4, <2>1 DEF RoundOK
<1>6. Follows(r, s)
  BY <1>2, <1>3, <1>4 DEF Follows, SameRound, Named, Account
<1> QED
  BY <1>4, <1>5, <1>6 DEF s, GoodRoom

(* afterResolve: the match is over, or another round is dealt. *)
LEMMA RoundResolved ==
    ASSUME NEW r, GoodRoom(r), r.phase = "RESOLVE", NEW s \in AfterResolve(r)
    PROVE  GoodRoom(s) /\ Onward(r, s)
<1>1. SeatsOK(r) /\ HostSeated(r)
  BY DEF GoodRoom, TableOK
<1>2. Cardinality(Alive(r)) \in Nat
  <2>1. r.order \in Seq(Players) /\ IsInjective(r.order)
    BY <1>1 DEF SeatsOK, Room
  <2>2. IsFiniteSet(Seated(r)) /\ Alive(r) \subseteq Seated(r)
    BY <2>1, InjectiveLength DEF Seated, Alive
  <2> QED
    BY <2>2, FS_Subset, FS_CardinalityType
<1>3. CASE Cardinality(Alive(r)) <= 2
  <2>1. s = SetPhase(r, "MATCH_OVER", "off")
    BY <1>3 DEF AfterResolve
  <2>2. "MATCH_OVER" \in Phases \ (RoundOpen \cup {"LOBBY"}) /\ "MATCH_OVER" \notin Judged
    BY DEF Phases, RoundOpen, Judged
  <2> HIDE DEF Judged
  <2> QED
    BY <2>1, <2>2, PhaseTurned DEF Onward
<1>4. CASE ~(Cardinality(Alive(r)) <= 2)
  <2>1. PICK rat \in Alive(r) : s = Deal(r, rat)
    BY <1>4 DEF AfterResolve
  <2>2. Cardinality(Alive(r)) >= 3
    BY <1>2, <1>4
  <2> QED
    BY <1>1, <2>1, <2>2, Dealt DEF Onward
<1> QED
  BY <1>3, <1>4

(* A life lost, and the round is over. *)
LEMMA LifeTaken ==
    ASSUME NEW r, GoodRoom(r), r.phase \in Judged, NEW p \in Players \cup {None},
           p \in Seated(r) => r.lives[p] > 0
    PROVE  GoodRoom(EnterResolve(LoseLife(r, p))) /\ Follows(r, EnterResolve(LoseLife(r, p)))
<1>1. SeatsOK(r) /\ HostSeated(r) /\ r.result.lifeLoss = None /\ r.phase # "LOBBY"
  BY DEF GoodRoom, TableOK, RoundOK, Judged
<1>2. /\ SeatsOK(LoseLife(r, p)) /\ HostSeated(LoseLife(r, p))
      /\ Follows(r, LoseLife(r, p))
  BY <1>1, LifeLost
<1>3. LoseLife(r, p).phase # "LOBBY"
  BY <1>2 DEF Follows, SameRound, Named
<1> QED
  BY <1>2, <1>3, Resolved, FollowsOn

(* The last word: whatever the guess, the round is over. *)
LEMMA LastWordSaid ==
    ASSUME NEW r, GoodRoom(r), r.phase = "LAST_WORD", NEW correct \in BOOLEAN
    PROVE  GoodRoom(ResolveLastWord(r, correct)) /\ Follows(r, ResolveLastWord(r, correct))
<1>1. SeatsOK(r) /\ HostSeated(r) /\ r.phase \in Judged /\ r \in Room
  BY DEF GoodRoom, TableOK, SeatsOK, Judged
<1>2. r.rat \in Players \cup {None} /\ (r.rat \in Seated(r) => r.lives[r.rat] > 0)
  BY <1>1, Possible DEF GoodRoom, RoundOK
<1>3. CASE correct
  BY <1>1, <1>3, Resolved DEF ResolveLastWord
<1>4. CASE ~correct
  BY <1>1, <1>2, <1>4, LifeTaken DEF ResolveLastWord
<1> QED
  BY <1>3, <1>4

(* The Rat's payback on somebody who is alive. *)
LEMMA PaidBack ==
    ASSUME NEW r, GoodRoom(r), r.phase = "PAYBACK", NEW p \in Alive(r)
    PROVE  GoodRoom(EnterResolve(LoseLife(r, p))) /\ Follows(r, EnterResolve(LoseLife(r, p)))
<1>1. r \in Room /\ r.phase \in Judged
  BY DEF GoodRoom, TableOK, SeatsOK, Judged
<1>2. p \in Players /\ r.lives[p] > 0
  BY <1>1, Possible DEF Alive
<1> QED
  BY <1>1, <1>2, LifeTaken

(* due, of a phase that has a deadline. *)
LEMMA Elapsed ==
    ASSUME NEW r, GoodRoom(r), r.timer # "off", NEW s \in Due(r)
    PROVE  r.phase # "LOBBY" /\ GoodRoom(s) /\ Onward(r, s)
<1>1. SeatsOK(r) /\ HostSeated(r) /\ TimerOK(r) /\ RoundOK(r) /\ r \in Room
  BY DEF GoodRoom, TableOK, SeatsOK
<1>2. r.phase \in {"DEAL", "CLUES", "VOTE", "VOTE_RESULT", "ROLE_REVEAL", "LAST_WORD", "PAYBACK", "RESOLVE"}
  BY <1>1 DEF TimerOK, Room, Phases, RoundOpen
<1>3. CASE r.phase = "DEAL"
  <2>1. s = BeginClues(r)
    BY <1>3 DEF Due
  <2> QED
    BY <1>3, <2>1, CluesBegun DEF Onward
<1>4. CASE r.phase = "CLUES"
  <2>1. s = AdvanceTurn(RecordClue(r))
    BY <1>4 DEF Due
  <2> QED
    BY <1>4, <2>1, ClueRecorded DEF Onward
<1>5. CASE r.phase = "VOTE"
  <2>1. s = CloseVote(r)
    BY <1>5 DEF Due
  <2>2. r.phase \in RoundOpen /\ Playable(r)
    BY <1>1, <1>5 DEF RoundOK, RoundOpen
  <2> QED
    BY <1>1, <1>5, <2>1, <2>2, VoteClosed DEF Onward
<1>6. CASE r.phase = "VOTE_RESULT"
  <2>1. s = SetPhase(r, "ROLE_REVEAL", "running")
    BY <1>6 DEF Due
  <2>2. "ROLE_REVEAL" \in Phases \ (RoundOpen \cup {"LOBBY"}) /\ r.phase \in Judged
    BY <1>6 DEF Phases, RoundOpen, Judged
  <2> HIDE DEF Judged
  <2> QED
    BY <1>6, <2>1, <2>2, PhaseTurned DEF Onward
<1>7. CASE r.phase = "ROLE_REVEAL"
  <2>1. PICK phase \in {"LAST_WORD", "PAYBACK"} : s = SetPhase(r, phase, "running")
    BY <1>7 DEF Due
  <2>2. phase \in Phases \ (RoundOpen \cup {"LOBBY"}) /\ r.phase \in Judged /\ phase # "MATCH_OVER"
    BY <1>7 DEF Phases, RoundOpen, Judged
  <2> HIDE DEF Judged
  <2> QED
    BY <1>7, <2>1, <2>2, PhaseTurned DEF Onward
<1>8. CASE r.phase = "LAST_WORD"
  <2>1. s = ResolveLastWord(r, FALSE)
    BY <1>8 DEF Due
  <2> QED
    BY <1>8, <2>1, LastWordSaid DEF Onward
<1>9. CASE r.phase = "PAYBACK"
  <2>1. \/ s = EnterResolve(r)
        \/ \E v \in Alive(r) : s = EnterResolve(LoseLife(r, v))
    BY <1>9 DEF Due
  <2> QED
    BY <1>1, <1>9, <2>1, Resolved, PaidBack DEF Onward
<1>10. CASE r.phase = "RESOLVE"
  <2>1. s \in AfterResolve(r)
    BY <1>10 DEF Due
  <2> QED
    BY <1>10, <2>1, RoundResolved
<1> QED
  BY <1>2, <1>3, <1>4, <1>5, <1>6, <1>7, <1>8, <1>9, <1>10

-----------------------------------------------------------------------------
(* The table *)

(* A room that only differs in who is where and who hosts is as good a room. *)
LEMMA TableChanged ==
    ASSUME NEW r, GoodRoom(r), NEW s, SeatsOK(s), HostSeated(s), Alike(r, s)
    PROVE  GoodRoom(s) /\ Seated(s) = Seated(r) /\ Named(s) = Named(r)
           /\ s.phase = r.phase /\ (r.phase # "LOBBY" => Follows(r, s))
  BY AlikeRounds DEF GoodRoom, TableOK, Alike, Named

(* Likeness of rooms is transitive. *)
LEMMA AlikeOn ==
    ASSUME NEW r, NEW s, NEW t, Alike(r, s), Alike(s, t)
    PROVE  Alike(r, t)
  BY DEF Alike, SameLedgers

(* A room has a first player exactly when somebody is seated. *)
LEMMA SomebodySeated ==
    ASSUME NEW r, SeatsOK(r)
    PROVE  r.order = <<>> <=> Seated(r) = {}
<1>1. r.order \in Seq(Players)
  BY DEF SeatsOK, Room
<1> QED
  BY <1>1, Heads DEF Seated

(* toLobby: the abandoned players are gone, and everyone else starts afresh. *)
LEMMA LobbyEntered ==
    ASSUME NEW r, SeatsOK(r)
    PROVE  /\ GoodRoom(ToLobby(r))
           /\ ToLobby(r).phase = "LOBBY"
           /\ Seated(ToLobby(r)) = Seated(r) \ r.abandoned
           /\ Named(ToLobby(r)) = {None}
<1> DEFINE gone == r.abandoned
           stay == Seated(r) \ gone
           order == Only(r.order, stay)
           seat == [p \in Players |-> IF p \in stay THEN r.seat[p] ELSE None]
           lives == [p \in Players |-> IF p \in stay THEN Lives ELSE 0]
           connected == r.connected \ gone
           e == [r EXCEPT !.order = order, !.seat = seat, !.lives = lives,
              !.connected = connected, !.out = {}, !.abandoned = {},
              !.ready = {}, !.voted = {}, !.phase = "LOBBY", !.timer = "off",
              !.lastStart = None, !.rat = None, !.turnOrder = <<>>, !.turnIdx = 0, !.votes = NoVotes, !.clues = <<>>,
              !.result = NoResult]
           s == ReassignHost(e)
<1>1. r \in Room /\ r.order \in Seq(Players) /\ Seated(r) \subseteq Players /\ r.seat \in [Players -> Seats \cup {None}]
  BY Possible DEF SeatsOK, Room
<1>2. order \in Seq(Players) /\ ToSet(order) = stay /\ IsInjective(order)
  <2>1. ToSet(r.order) \cap stay = stay
    BY DEF Seated
  <2> QED
    BY <1>1, <2>1, OnlyKeeps DEF SeatsOK
<1>3. ToLobby(r) = s
  BY DEF ToLobby
<1>4. seat \in [Players -> Seats \cup {None}] /\ lives \in [Players -> 0..Lives]
  <2>1. 0 \in 0..Lives /\ Lives \in 0..Lives
    BY TableAssumption
  <2> QED
    BY <1>1, <2>1
<1>5. /\ NoResult \in [caught: BOOLEAN, lifeLoss: Players \cup {None}] /\ NoResult.lifeLoss = None
      /\ NoVotes \in UNION {[voters -> Players] : voters \in SUBSET Players}
      /\ <<>> \in Seq(Players)
  <2>1. NoVotes \in [{} -> Players]
    BY DEF NoVotes
  <2>2. NoVotes \in UNION {[voters -> Players] : voters \in SUBSET Players}
    BY <2>1
  <2> QED
    BY <2>2 DEF NoResult
<1>6. /\ \A p \in Players : seat[p] = IF p \in stay THEN r.seat[p] ELSE None
      /\ \A p \in Players : p \notin stay => lives[p] = 0
  OBVIOUS
<1> HIDE DEF NoResult, NoVotes, order, seat, lives, connected
<1>7. /\ e \in Room /\ e.order = order /\ e.seat = seat /\ e.lives = lives /\ e.connected = connected
      /\ e.out = {} /\ e.abandoned = {} /\ e.ready = {} /\ e.voted = {} /\ e.phase = "LOBBY" /\ e.timer = "off"
      /\ e.rat = None /\ e.turnOrder = <<>> /\ e.turnIdx = 0 /\ e.result = NoResult
      /\ e.overdue = r.overdue /\ e.host = r.host
  <2>1. "LOBBY" \in Phases
    BY DEF Phases
  <2>2. e \in Room
    <3>1. r \in Room /\ order \in Seq(Players) /\ seat \in [Players -> Seats \cup {None}]
          /\ lives \in [Players -> 0..Lives] /\ connected \in SUBSET Players
      BY <1>1, <1>2, <1>4 DEF connected, Room
    <3> QED
      BY <1>5, <2>1, <3>1 DEF Room
  <2> QED
    BY <1>1, <2>2 DEF Room
<1> HIDE DEF e
<1>8. Seated(e) = stay
  BY <1>2, <1>7 DEF Seated
<1>9. SeatsOK(e)
  <2>1. /\ \A p, q \in Seated(e) : p # q => e.seat[p] # e.seat[q]
        /\ \A p \in Players : /\ e.seat[p] = None <=> p \notin Seated(e)
                              /\ p \notin Seated(e) => e.lives[p] = 0
    BY <1>1, <1>6, <1>7, <1>8 DEF SeatsOK
  <2>2. e.connected \subseteq Seated(e) /\ (e.overdue => e.host \notin e.connected)
    BY <1>7, <1>8 DEF SeatsOK, connected
  <2>3. e.turnIdx <= Len(e.turnOrder) + 1
    BY <1>7
  <2> QED
    BY <1>2, <1>7, <2>1, <2>2, <2>3 DEF SeatsOK
<1>10. SeatsOK(s) /\ HostSeated(s) /\ Alike(e, s)
  BY <1>9, HostReassigned
<1> HIDE DEF s
<1>11. TimerOK(s) /\ RoundOK(s)
  BY <1>7, <1>10 DEF Alike, TimerOK, RoundOK, RoundOpen, Judged
<1>12. Named(s) = {None}
  BY <1>5, <1>7, <1>10 DEF Alike, Named
<1> QED
  BY <1>3, <1>7, <1>8, <1>10, <1>11, <1>12 DEF Alike, GoodRoom, TableOK

(* addPlayer: a free seat; mid-match the newcomer is out, and no life is theirs. *)
LEMMA PlayerAdded ==
    ASSUME NEW r, GoodRoom(r), NEW p \in Players, p \notin Seated(r), FreeSeats(r) # {}, p # r.rat
    PROVE  /\ GoodRoom(AddPlayer(r, p))
           /\ Seated(AddPlayer(r, p)) = Seated(r) \cup {p}
           /\ AddPlayer(r, p).phase = r.phase
           /\ AddPlayer(r, p).result = r.result
           /\ AddPlayer(r, p).rat = r.rat
           /\ \A x \in Seated(r) : AddPlayer(r, p).lives[x] = r.lives[x]
           /\ r.phase # "LOBBY" => AddPlayer(r, p).lives[p] = 0
<1> DEFINE lobby == r.phase = "LOBBY"
           chair == r.host = None \/ r.overdue
           order == Append(r.order, p)
           place == LowestFreeSeat(r)
           mine == IF lobby THEN Lives ELSE 0
           out == IF lobby THEN r.out ELSE r.out \cup {p}
           host == IF chair THEN p ELSE r.host
           s == [r EXCEPT !.order = order, !.seat[p] = place, !.lives[p] = mine, !.out = out,
                    !.connected = @ \cup {p}, !.host = host, !.overdue = FALSE]
<1>1. /\ SeatsOK(r) /\ TimerOK(r) /\ HostSeated(r) /\ RoundOK(r) /\ r \in Room
      /\ Seated(r) \subseteq Players /\ r.order \in Seq(Players) /\ None \notin Players
      /\ r.host \in Players \cup {None}
  <2>1. SeatsOK(r) /\ TimerOK(r) /\ HostSeated(r) /\ RoundOK(r) /\ r \in Room
    BY DEF GoodRoom, TableOK, SeatsOK
  <2> QED
    BY <2>1, Possible DEF Room
<1>2. order \in Seq(Players) /\ ToSet(order) = Seated(r) \cup {p} /\ IsInjective(order)
  BY <1>1, AppendKeeps DEF Seated, SeatsOK
<1>3. place \in Seats /\ \A x \in Seated(r) : r.seat[x] # place
  <2>1. FreeSeats(r) \in SUBSET (0..(SeatCount - 1)) /\ SeatCount - 1 \in Nat
    BY TableAssumption DEF FreeSeats, Seats
  <2>2. \E i \in FreeSeats(r) : \A j \in FreeSeats(r) : i <= j
    BY <2>1, LeastNumber
  <2>3. place \in FreeSeats(r)
    BY <2>2 DEF LowestFreeSeat
  <2> QED
    BY <2>3 DEF FreeSeats
<1>4. mine \in 0..Lives
  BY TableAssumption
<1>5. host \in Players \cup {None} /\ out \in SUBSET Players
  BY <1>1 DEF Room
<1>6. None # place
  BY <1>3, TableAssumption DEF Seats
<1>7. AddPlayer(r, p) = s
  BY DEF AddPlayer
<1>8. (lobby \/ mine = 0) /\ (lobby \/ p \in out) /\ r.out \subseteq out /\ out \subseteq r.out \cup {p}
      /\ (host = p \/ (host = r.host /\ host # None))
  OBVIOUS
<1> HIDE DEF order, place, mine, out, host
<1>9. /\ s \in Room /\ s.order = order /\ s.out = out /\ s.connected = r.connected \cup {p}
      /\ s.host = host /\ s.overdue = FALSE /\ s.phase = r.phase /\ s.timer = r.timer
      /\ s.rat = r.rat /\ s.result = r.result /\ s.abandoned = r.abandoned
      /\ SameLedgers(r, s)
      /\ \A x \in Players : s.seat[x] = IF x = p THEN place ELSE r.seat[x]
      /\ \A x \in Players : s.lives[x] = IF x = p THEN mine ELSE r.lives[x]
  <2>1. s \in Room
    <3>1. r \in Room /\ order \in Seq(Players) /\ place \in Seats
      BY <1>1, <1>2, <1>3
    <3> QED
      BY <1>4, <1>5, <3>1 DEF Room
  <2>2. /\ s.order = order /\ s.out = out /\ s.connected = r.connected \cup {p}
        /\ s.host = host /\ s.overdue = FALSE /\ s.phase = r.phase /\ s.timer = r.timer
        /\ s.rat = r.rat /\ s.result = r.result /\ s.abandoned = r.abandoned
        /\ SameLedgers(r, s)
    BY <1>1 DEF Room, SameLedgers
  <2>3. /\ \A x \in Players : s.seat[x] = IF x = p THEN place ELSE r.seat[x]
        /\ \A x \in Players : s.lives[x] = IF x = p THEN mine ELSE r.lives[x]
    BY <1>1 DEF Room
  <2> QED
    BY <2>1, <2>2, <2>3
<1> HIDE DEF s
<1>10. Seated(s) = Seated(r) \cup {p}
  BY <1>2, <1>9 DEF Seated
<1>11. SeatsOK(s)
  <2>1. \A x, y \in Seated(s) : x # y => s.seat[x] # s.seat[y]
    BY <1>1, <1>3, <1>9, <1>10 DEF SeatsOK
  <2>2. \A x \in Players : /\ s.seat[x] = None <=> x \notin Seated(s)
                           /\ x \notin Seated(s) => s.lives[x] = 0
    BY <1>1, <1>3, <1>6, <1>9, <1>10 DEF SeatsOK
  <2>3. /\ s.connected \cup s.out \cup s.abandoned \cup s.ready \cup s.voted \subseteq Seated(s)
        /\ s.abandoned \cap s.connected = {}
    BY <1>1, <1>8, <1>9, <1>10 DEF SeatsOK, SameLedgers
  <2>4. s.turnIdx <= Len(s.turnOrder) + 1
    BY <1>1, <1>9 DEF SeatsOK, SameLedgers
  <2> QED
    BY <1>2, <1>9, <2>1, <2>2, <2>3, <2>4 DEF SeatsOK
<1>12. HostSeated(s) /\ TimerOK(s)
  BY <1>1, <1>8, <1>9, <1>10 DEF HostSeated, TimerOK
<1>13. \A x \in Seated(r) : s.lives[x] = r.lives[x]
  BY <1>1, <1>9
<1>14. RoundOK(s)
  <2>1. CASE lobby
    BY <1>9, <2>1 DEF RoundOK, RoundOpen, Judged
  <2>2. CASE ~lobby
    <3>1. Alive(s) = Alive(r)
      BY <1>8, <1>9, <1>10, <1>13, <2>2 DEF Alive
    <3>2. /\ Playable(r) => Playable(s)
          /\ TurnsDealt(r) => TurnsDealt(s)
          /\ Ballots(r) => Ballots(s)
          /\ Speaker(s) = Speaker(r)
      BY <1>9, <3>1 DEF SameLedgers, Playable, TurnsDealt, Ballots, Speaker
    <3>3. /\ InTurnOrder(r, r.turnIdx) => InTurnOrder(s, s.turnIdx)
          /\ HaveSpoken(r, r.turnIdx) => HaveSpoken(s, s.turnIdx)
      BY <1>9, <3>1 DEF SameLedgers, InTurnOrder, HaveSpoken
    <3>4. s.rat \in Seated(s) => s.rat \in Seated(r) /\ s.lives[s.rat] = r.lives[r.rat]
      BY <1>9, <1>10, <1>13
    <3> HIDE DEF Judged
    <3> QED
      BY <1>1, <1>9, <3>1, <3>2, <3>3, <3>4 DEF SameLedgers, RoundOK
  <2> QED
    BY <2>1, <2>2
<1>15. r.phase # "LOBBY" => s.lives[p] = 0
  BY <1>8, <1>9
<1> QED
  BY <1>7, <1>9, <1>10, <1>11, <1>12, <1>13, <1>14, <1>15 DEF GoodRoom, TableOK

-----------------------------------------------------------------------------
(* The inductive invariant *)

(* s may be what a step makes of the room r, when nobody joins. *)
MayFollow(r, s) ==
    /\ GoodRoom(s)
    /\ Seated(s) \subseteq Seated(r)
    /\ Named(s) \subseteq Named(r) \cup {None} \cup Seated(r)
    /\ \/ s.phase = "LOBBY"
       \/ s.phase = "DEAL" /\ r.phase # "DEAL" /\ s.result.lifeLoss = None
       \/ SameRound(r, s)

(* The room is good, nobody is in it whose id was never seated, and what was *)
(* dealt accounts for everyone's lives.                                      *)
LedgerInv ==
    /\ GoodRoom(room)
    /\ known \subseteq Players
    /\ Seated(room) \subseteq known /\ Named(room) \subseteq known \cup {None}
    /\ dealtLives \in [Players -> 0..Lives]
    /\ \A p \in Players \ known : dealtLives[p] = 0
    /\ RoundTakesAnnouncedLife
(* A table that is open has somebody at it. *)
OpenInv ==
    /\ open \in BOOLEAN
    /\ open => room.order # <<>>
    /\ drops \in 0..MaxDrops /\ seatMoves \in 0..MaxSeatMoves
IInv == LedgerInv /\ OpenInv

(* Following the room, or a new deal from a resolved one, is a step. *)
LEMMA FollowsMay ==
    ASSUME NEW r, NEW s, GoodRoom(s),
           \/ Onward(r, s)
           \/ r.phase = "LOBBY" /\ s.phase = "LOBBY" /\ Seated(s) = Seated(r) /\ Named(s) = Named(r)
    PROVE  MayFollow(r, s) /\ Seated(s) = Seated(r)
<1>1. CASE Follows(r, s)
  BY <1>1 DEF Follows, SameRound, MayFollow
<1>2. CASE r.phase = "LOBBY" /\ s.phase = "LOBBY" /\ Seated(s) = Seated(r) /\ Named(s) = Named(r)
  BY <1>2 DEF MayFollow
<1>3. CASE r.phase = "RESOLVE" /\ s.phase = "DEAL" /\ s.result.lifeLoss = None /\ Seated(s) = Seated(r)
  <2>1. s.rat \in Seated(s)
    BY <1>3 DEF GoodRoom, RoundOK, RoundOpen, Playable, Alive
  <2> QED
    BY <1>3, <2>1 DEF MayFollow, Named
<1> QED
  BY <1>1, <1>2, <1>3 DEF Onward

(* A commit keeps the ledger of lives. *)
LEMMA Committed ==
    ASSUME LedgerInv, NEW s, MayFollow(room, s), Commit(s), known' = known
    PROVE  LedgerInv'
<1>1. room' = s /\ GoodRoom(s) /\ Seated(s) \subseteq Seated(room)
  BY DEF Commit, MayFollow
<1>2. s \in Room /\ s.lives \in [Players -> 0..Lives] /\ Seated(s) \subseteq Players /\ None \notin Players
  <2>1. s \in Room
    BY <1>1 DEF GoodRoom, TableOK, SeatsOK
  <2> QED
    BY <2>1, Possible DEF Room
<1>3. Named(s) \subseteq known \cup {None}
  BY DEF LedgerInv, MayFollow
<1>4. CASE s.phase = "DEAL" /\ room.phase # "DEAL" /\ s.result.lifeLoss = None
  <2>1. dealtLives' = s.lives
    BY <1>4 DEF Commit
  <2>2. \A p \in Players \ known : s.lives[p] = 0
    BY <1>1 DEF LedgerInv, GoodRoom, TableOK, SeatsOK
  <2>3. \A p \in Seated(s) : p # None /\ s.lives[p] \in 0..Lives
    BY <1>2
  <2>4. RoundTakesAnnouncedLife'
    BY <1>1, <1>4, <2>1, <2>3 DEF RoundTakesAnnouncedLife
  <2> QED
    BY <1>1, <1>2, <1>3, <2>1, <2>2, <2>4 DEF LedgerInv
<1>5. CASE ~(s.phase = "DEAL" /\ room.phase # "DEAL" /\ s.result.lifeLoss = None)
  <2>1. s.phase = "LOBBY" \/ SameRound(room, s)
    BY <1>5 DEF MayFollow
  <2>2. dealtLives' = dealtLives
    BY <2>1 DEF Commit, SameRound
  <2>3. RoundTakesAnnouncedLife'
    BY <1>1, <2>1, <2>2 DEF RoundTakesAnnouncedLife, LedgerInv, SameRound, Account
  <2> QED
    BY <1>1, <1>3, <2>2, <2>3 DEF LedgerInv
<1> QED
  BY <1>4, <1>5

(* ... and a step that leaves everybody seated leaves an open table somebody. *)
LEMMA CommittedAll ==
    ASSUME IInv, NEW s, MayFollow(room, s), Seated(s) = Seated(room), Commit(s),
           known' = known, open' = open, drops' \in 0..MaxDrops, seatMoves' \in 0..MaxSeatMoves
    PROVE  IInv'
<1>1. LedgerInv'
  BY Committed DEF IInv
<1>2. SeatsOK(room) /\ SeatsOK(s) /\ room' = s
  BY DEF IInv, LedgerInv, MayFollow, GoodRoom, TableOK, Commit
<1>3. room.order # <<>> => s.order # <<>>
  BY <1>2, SomebodySeated
<1> QED
  BY <1>1, <1>2, <1>3 DEF IInv, OpenInv

(* A step that commits a good room which follows from the old one keeps the invariant. *)
LEMMA CommittedKeeps ==
    ASSUME IInv, NEW s, GoodRoom(s), Onward(room, s), Commit(s), Keeps
    PROVE  IInv'
<1>1. MayFollow(room, s) /\ Seated(s) = Seated(room)
  BY FollowsMay
<1> QED
  BY <1>1, CommittedAll DEF IInv, OpenInv, Keeps

-----------------------------------------------------------------------------
(* Steps of players *)

(* A join keeps the invariant. *)
LEMMA JoinKeeps ==
    ASSUME IInv, NEW p \in Players, Join(p)
    PROVE  IInv'
<1> DEFINE s == AddPlayer(room, p)
<1>1. /\ GoodRoom(room) /\ p \notin known /\ p \notin Seated(room) /\ FreeSeats(room) # {}
      /\ p # None /\ p # room.rat /\ p # room.result.lifeLoss
  BY TableAssumption DEF IInv, LedgerInv, Join, Named
<1>2. /\ GoodRoom(s) /\ Seated(s) = Seated(room) \cup {p}
      /\ s.phase = room.phase /\ s.result = room.result /\ s.rat = room.rat
      /\ \A x \in Seated(room) : s.lives[x] = room.lives[x]
      /\ room.phase # "LOBBY" => s.lives[p] = 0
  BY <1>1, PlayerAdded
<1>3. Commit(s) /\ known' = known \cup {p} /\ UNCHANGED <<open, drops, seatMoves>>
  BY DEF Join
<1> HIDE DEF s
<1>4. room' = s /\ dealtLives' = dealtLives
  BY <1>2, <1>3 DEF Commit
<1>5. RoundTakesAnnouncedLife'
  <2> SUFFICES ASSUME s.phase # "LOBBY", NEW x \in Seated(s)
               PROVE  dealtLives[x] = s.lives[x] + (IF s.result.lifeLoss = x THEN 1 ELSE 0)
    BY <1>4 DEF RoundTakesAnnouncedLife
  <2>1. CASE x = p
    BY <1>1, <1>2, <2>1 DEF IInv, LedgerInv
  <2>2. CASE x # p
    BY <1>2, <2>2 DEF IInv, LedgerInv, RoundTakesAnnouncedLife
  <2> QED
    BY <2>1, <2>2
<1>6. LedgerInv'
  BY <1>2, <1>3, <1>4, <1>5 DEF IInv, LedgerInv, Named
<1>7. s.order # <<>>
  BY <1>2, SomebodySeated DEF GoodRoom, TableOK
<1> QED
  BY <1>3, <1>4, <1>6, <1>7 DEF IInv, OpenInv

(* A player who comes back keeps the invariant. *)
LEMMA RejoinKeeps ==
    ASSUME IInv, NEW p \in Players, Rejoin(p)
    PROVE  IInv'
<1> DEFINE order == Append(Dropping(room.order, {p}), p)
           e == [room EXCEPT
                  !.order = order, !.connected = @ \cup {p}, !.abandoned = @ \ {p},
                  !.overdue = @ /\ room.host # p]
           s == ReassignHost(e)
<1>1. /\ GoodRoom(room) /\ SeatsOK(room) /\ room \in Room /\ room.order \in Seq(Players)
      /\ room.overdue \in BOOLEAN
      /\ p \in Seated(room)
  BY DEF IInv, LedgerInv, GoodRoom, TableOK, SeatsOK, Room, Rejoin
<1>2. order \in Seq(Players) /\ ToSet(order) = Seated(room) /\ IsInjective(order)
  <2> DEFINE rest == Dropping(room.order, {p})
  <2>1. rest \in Seq(Players) /\ ToSet(rest) = Seated(room) \ {p} /\ IsInjective(rest)
    BY <1>1, DroppingKeeps DEF SeatsOK, Seated
  <2> HIDE DEF rest
  <2>2. /\ Append(rest, p) \in Seq(Players) /\ ToSet(Append(rest, p)) = ToSet(rest) \cup {p}
        /\ IsInjective(Append(rest, p))
    BY <2>1, AppendKeeps
  <2>3. (Seated(room) \ {p}) \cup {p} = Seated(room)
    BY <1>1
  <2> QED
    BY <2>1, <2>2, <2>3 DEF rest
<1>3. Commit(s) /\ UNCHANGED <<open, known, seatMoves>>
  BY DEF Rejoin
<1>4. drops' \in 0..MaxDrops
  BY TableAssumption DEF Rejoin, IInv, OpenInv
<1> HIDE DEF order
<1>5. /\ e \in Room /\ e.order = order /\ e.connected = room.connected \cup {p}
      /\ e.abandoned = room.abandoned \ {p} /\ e.overdue = (room.overdue /\ room.host # p)
      /\ e.seat = room.seat /\ e.host = room.host /\ e.lives = room.lives /\ e.out = room.out
      /\ e.phase = room.phase /\ e.timer = room.timer /\ e.rat = room.rat /\ e.result = room.result
      /\ SameLedgers(room, e)
  <2>1. e \in Room
    BY <1>1, <1>2 DEF Room
  <2> QED
    BY <1>1, <2>1 DEF Room, SameLedgers
<1> HIDE DEF e
<1>6. Seated(e) = Seated(room)
  BY <1>2, <1>5 DEF Seated
<1>7. SeatsOK(e)
  BY <1>1, <1>2, <1>5, <1>6 DEF SeatsOK, SameLedgers
<1>8. Alike(room, e)
  BY <1>5, <1>6 DEF Alike
<1>9. SeatsOK(s) /\ HostSeated(s) /\ Alike(e, s)
  BY <1>7, HostReassigned
<1> HIDE DEF s
<1>10. Alike(room, s)
  BY <1>8, <1>9, AlikeOn
<1>11. GoodRoom(s) /\ MayFollow(room, s) /\ Seated(s) = Seated(room)
  BY <1>1, <1>9, <1>10, TableChanged, FollowsMay DEF Onward
<1> QED
  BY <1>3, <1>4, <1>11, CommittedAll DEF IInv, OpenInv

(* A player who drops keeps the invariant. *)
LEMMA DisconnectKeeps ==
    ASSUME IInv, NEW p \in Players, Disconnect(p)
    PROVE  IInv'
<1> DEFINE e == [room EXCEPT !.connected = @ \ {p}]
           u == IF room.host = p THEN e ELSE ReassignHost(e)
           s == SettleProgress(u)
<1>1. /\ GoodRoom(room) /\ SeatsOK(room) /\ HostSeated(room) /\ room \in Room
      /\ p \in room.connected
  BY DEF IInv, LedgerInv, GoodRoom, TableOK, SeatsOK, Disconnect
<1>2. Commit(s) /\ UNCHANGED <<open, known, seatMoves>>
  BY DEF Disconnect
<1>3. drops' \in 0..MaxDrops
  BY TableAssumption DEF Disconnect, IInv, OpenInv
<1>4. /\ e \in Room /\ e.order = room.order /\ e.connected = room.connected \ {p}
      /\ e.abandoned = room.abandoned /\ e.overdue = room.overdue
      /\ e.seat = room.seat /\ e.host = room.host /\ e.lives = room.lives /\ e.out = room.out
      /\ e.phase = room.phase /\ e.timer = room.timer /\ e.rat = room.rat /\ e.result = room.result
      /\ SameLedgers(room, e)
  BY <1>1 DEF Room, SameLedgers
<1> HIDE DEF e
<1>5. Seated(e) = Seated(room)
  BY <1>4 DEF Seated
<1>6. SeatsOK(e) /\ HostSeated(e)
  BY <1>1, <1>4, <1>5 DEF SeatsOK, HostSeated, SameLedgers
<1>7. Alike(room, e)
  BY <1>4, <1>5 DEF Alike
<1>8. SeatsOK(u) /\ HostSeated(u) /\ Alike(room, u)
  <2>1. CASE room.host = p
    BY <1>6, <1>7, <2>1
  <2>2. CASE room.host # p
    BY <1>6, <1>7, <2>2, HostReassigned, AlikeOn
  <2> QED
    BY <2>1, <2>2
<1> HIDE DEF u
<1>9. /\ GoodRoom(u) /\ Seated(u) = Seated(room) /\ Named(u) = Named(room) /\ u.phase = room.phase
      /\ room.phase # "LOBBY" => Follows(room, u)
  BY <1>1, <1>8, TableChanged
<1>10. MayFollow(room, s) /\ Seated(s) = Seated(room)
  <2>1. CASE room.phase = "LOBBY"
    <3>1. s = u
      BY <1>9, <2>1 DEF SettleProgress
    <3> QED
      BY <1>9, <2>1, <3>1, FollowsMay
  <2>2. CASE room.phase # "LOBBY"
    <3>1. GoodRoom(s) /\ Follows(u, s)
      BY <1>9, <2>2, ProgressSettled
    <3> HIDE DEF s
    <3>2. Follows(room, s)
      BY <1>9, <2>2, <3>1, FollowsOn
    <3> QED
      BY <3>1, <3>2, FollowsMay DEF Onward
  <2> QED
    BY <2>1, <2>2
<1> HIDE DEF s
<1> QED
  BY <1>2, <1>3, <1>10, CommittedAll DEF IInv, OpenInv

(* A player who leaves keeps the invariant. *)
LEMMA LeaveKeeps ==
    ASSUME IInv, NEW p \in Players, Leave(p)
    PROVE  IInv'
<1> DEFINE s == RemovePlayer(room, p)
<1>1. GoodRoom(room) /\ p \in Seated(room)
  BY DEF IInv, LedgerInv, GoodRoom, TableOK, SeatsOK, Leave
<1>2. /\ GoodRoom(s) /\ Seated(s) = Seated(room) \ {p}
      /\ room.phase # "LOBBY" => SameRound(room, s)
      /\ room.phase = "LOBBY" => s.phase = "LOBBY" /\ Named(s) = Named(room)
  BY <1>1, Removed
<1>3. Commit(s) /\ open' = (Seated(room) # {p}) /\ UNCHANGED <<known, drops, seatMoves>>
  BY DEF Leave
<1> HIDE DEF s
<1>4. MayFollow(room, s)
  BY <1>2 DEF MayFollow, SameRound
<1>5. LedgerInv'
  BY <1>3, <1>4, Committed DEF IInv
<1>6. open' => s.order # <<>>
  <2>1. SeatsOK(s)
    BY <1>2 DEF GoodRoom, TableOK
  <2>2. open' => Seated(s) # {}
    BY <1>1, <1>2, <1>3
  <2> QED
    BY <2>1, <2>2, SomebodySeated
<1> QED
  BY <1>3, <1>5, <1>6 DEF IInv, OpenInv, Commit

(* A change of seat, only in the lobby, keeps the invariant. *)
LEMMA SetSeatKeeps ==
    ASSUME IInv, NEW p \in Players, NEW place \in Seats, SetSeat(p, place)
    PROVE  IInv'
<1> DEFINE s == [room EXCEPT !.seat[p] = place]
<1>1. /\ GoodRoom(room) /\ SeatsOK(room) /\ HostSeated(room) /\ room \in Room
      /\ p \in Seated(room) /\ Seated(room) \subseteq Players
      /\ \A x \in Seated(room) : room.seat[x] # place
  <2>1. GoodRoom(room) /\ SeatsOK(room) /\ HostSeated(room) /\ room \in Room /\ p \in Seated(room)
    BY DEF IInv, LedgerInv, GoodRoom, TableOK, SeatsOK, SetSeat
  <2>2. \A x \in Seated(room) : room.seat[x] # place
    BY DEF SetSeat, FreeSeats
  <2> QED
    BY <2>1, <2>2, Possible
<1>2. Commit(s) /\ UNCHANGED <<open, known, drops>> /\ seatMoves' \in 0..MaxSeatMoves
      /\ room.phase = "LOBBY"
  BY TableAssumption DEF SetSeat, IInv, OpenInv
<1>3. /\ s \in Room /\ s.order = room.order /\ s.connected = room.connected
      /\ s.abandoned = room.abandoned /\ s.overdue = room.overdue
      /\ s.host = room.host /\ s.lives = room.lives /\ s.out = room.out
      /\ s.phase = room.phase /\ s.timer = room.timer /\ s.rat = room.rat /\ s.result = room.result
      /\ SameLedgers(room, s)
      /\ \A x \in Players : s.seat[x] = IF x = p THEN place ELSE room.seat[x]
  BY <1>1 DEF Room, SameLedgers
<1> HIDE DEF s
<1>4. Seated(s) = Seated(room)
  BY <1>3 DEF Seated
<1>5. SeatsOK(s)
  <2>1. \A x, y \in Seated(s) : x # y => s.seat[x] # s.seat[y]
    BY <1>1, <1>3, <1>4 DEF SeatsOK
  <2>2. None # place
    BY TableAssumption DEF Seats
  <2>3. \A x \in Players : /\ s.seat[x] = None <=> x \notin Seated(s)
                           /\ x \notin Seated(s) => s.lives[x] = 0
    BY <1>1, <1>3, <1>4, <2>2 DEF SeatsOK
  <2> QED
    BY <1>1, <1>3, <1>4, <2>1, <2>3 DEF SeatsOK, SameLedgers
<1>6. HostSeated(s) /\ Alike(room, s)
  BY <1>1, <1>3, <1>4 DEF HostSeated, Alike
<1>7. MayFollow(room, s)
  BY <1>1, <1>2, <1>5, <1>6, TableChanged, FollowsMay
<1> QED
  BY <1>2, <1>4, <1>7, CommittedAll DEF IInv, OpenInv

(* A show of readiness, and the vote it may open, keep the invariant. *)
LEMMA ReadyToVoteKeeps ==
    ASSUME IInv, NEW p \in Players, NEW ready \in BOOLEAN, ReadyToVote(p, ready)
    PROVE  IInv'
<1> DEFINE now == IF ready THEN room.ready \cup {p} ELSE room.ready \ {p}
           e == [room EXCEPT !.ready = now]
           s == MaybeAllReady(e)
<1>1. /\ GoodRoom(room) /\ SeatsOK(room) /\ HostSeated(room) /\ TimerOK(room) /\ RoundOK(room)
      /\ room \in Room /\ p \in Seated(room) /\ Seated(room) \subseteq Players
      /\ room.phase = "DISCUSS"
  <2>1. GoodRoom(room) /\ SeatsOK(room) /\ HostSeated(room) /\ TimerOK(room) /\ RoundOK(room)
        /\ room \in Room
    BY DEF IInv, LedgerInv, GoodRoom, TableOK, SeatsOK
  <2> QED
    BY <2>1, Possible DEF ReadyToVote, Voters, Alive
<1>2. Commit(s) /\ Keeps
  BY DEF ReadyToVote
<1>3. now \in SUBSET Players /\ now \subseteq Seated(room)
  BY <1>1 DEF SeatsOK
<1> HIDE DEF now
<1>4. /\ e \in Room /\ SameTable(room, e) /\ e.lives = room.lives /\ e.out = room.out
      /\ e.phase = room.phase /\ e.timer = room.timer /\ e.rat = room.rat /\ e.result = room.result
      /\ e.turnOrder = room.turnOrder /\ e.turnIdx = room.turnIdx /\ e.clues = room.clues
      /\ e.ready = now /\ e.voted = room.voted
  BY <1>1, <1>3 DEF Room, SameTable
<1> HIDE DEF e
<1>5. TableOK(e) /\ Seated(e) = Seated(room)
  BY <1>1, <1>3, <1>4, SameTableOK DEF SeatsOK, TimerOK
<1>6. Alive(e) = Alive(room)
  BY <1>4, <1>5 DEF Alive
<1>7. RoundOK(e)
  <2>1. Playable(e) /\ InTurnOrder(e, e.turnIdx) /\ Alive(e) \subseteq ToSet(e.clues)
    BY <1>1, <1>4, <1>6 DEF RoundOK, RoundOpen, Playable, InTurnOrder
  <2> QED
    BY <1>1, <1>4, <2>1 DEF RoundOK, RoundOpen, Judged
<1>8. Follows(room, e)
  BY <1>1, <1>4, <1>5 DEF Follows, SameRound, Named, Account
<1>9. GoodRoom(s) /\ Follows(e, s)
  <2>1. s = SettleProgress(e)
    BY <1>1, <1>4 DEF SettleProgress
  <2>2. e.phase # "LOBBY"
    BY <1>1, <1>4
  <2> HIDE DEF s
  <2> QED
    BY <1>5, <1>7, <2>1, <2>2, ProgressSettled DEF GoodRoom
<1> HIDE DEF s
<1>10. Onward(room, s)
  BY <1>8, <1>9, FollowsOn DEF Onward
<1> QED
  BY <1>2, <1>9, <1>10, CommittedKeeps

(* A ballot, and the close of the vote it may bring, keep the invariant. *)
LEMMA VoteKeeps ==
    ASSUME IInv, NEW p \in Players, NEW target \in Players, Vote(p, target)
    PROVE  IInv'
<1> DEFINE votes == [v \in DOMAIN room.votes \cup {p} |-> IF v = p THEN target ELSE room.votes[v]]
           voted == room.voted \cup {p}
           e == [room EXCEPT !.votes = votes, !.voted = voted]
           s == MaybeAllVoted(e)
<1>1. /\ GoodRoom(room) /\ SeatsOK(room) /\ HostSeated(room) /\ TimerOK(room) /\ RoundOK(room)
      /\ room \in Room /\ p \in Alive(room) /\ target \in Alive(room) /\ target # p
      /\ Alive(room) \subseteq Seated(room) /\ Seated(room) \subseteq Players
      /\ room.phase = "VOTE"
  <2>1. GoodRoom(room) /\ SeatsOK(room) /\ HostSeated(room) /\ TimerOK(room) /\ RoundOK(room)
        /\ room \in Room
    BY DEF IInv, LedgerInv, GoodRoom, TableOK, SeatsOK
  <2> QED
    BY <2>1, Possible DEF Vote, Voters
<1>2. Commit(s) /\ Keeps
  BY DEF Vote
<1>3. Ballots(room) /\ Playable(room)
  BY <1>1 DEF RoundOK, RoundOpen
<1>4. /\ DOMAIN votes = voted \cap Alive(room)
      /\ \A v \in DOMAIN votes : votes[v] \in Alive(room) \ {v}
  BY <1>1, <1>3 DEF Ballots
<1>5. /\ votes \in UNION {[voters -> Players] : voters \in SUBSET Players}
      /\ voted \in SUBSET Players /\ voted \subseteq Seated(room)
  <2>1. voted \in SUBSET Players /\ voted \subseteq Seated(room)
    BY <1>1 DEF SeatsOK
  <2>2. votes \in [DOMAIN votes -> Players] /\ DOMAIN votes \in SUBSET Players
    BY <1>1, <1>4
  <2> QED
    BY <2>1, <2>2
<1> HIDE DEF votes, voted
<1>6. /\ e \in Room /\ SameTable(room, e) /\ e.lives = room.lives /\ e.out = room.out
      /\ e.phase = room.phase /\ e.timer = room.timer /\ e.rat = room.rat /\ e.result = room.result
      /\ e.turnOrder = room.turnOrder /\ e.turnIdx = room.turnIdx
      /\ e.ready = room.ready /\ e.voted = voted /\ e.votes = votes
  BY <1>1, <1>5 DEF Room, SameTable
<1> HIDE DEF e
<1>7. TableOK(e) /\ Seated(e) = Seated(room)
  BY <1>1, <1>5, <1>6, SameTableOK DEF SeatsOK, TimerOK
<1>8. Alive(e) = Alive(room)
  BY <1>6, <1>7 DEF Alive
<1>9. RoundOK(e)
  <2>1. Playable(e) /\ Ballots(e)
    BY <1>3, <1>4, <1>6, <1>8 DEF Playable, Ballots
  <2> QED
    BY <1>1, <1>6, <2>1 DEF RoundOK, RoundOpen, Judged
<1>10. Follows(room, e)
  BY <1>1, <1>6, <1>7 DEF Follows, SameRound, Named, Account
<1>11. GoodRoom(s) /\ Follows(e, s)
  <2>1. s = SettleProgress(e)
    BY <1>1, <1>6 DEF SettleProgress
  <2>2. e.phase # "LOBBY"
    BY <1>1, <1>6
  <2> HIDE DEF s
  <2> QED
    BY <1>7, <1>9, <2>1, <2>2, ProgressSettled DEF GoodRoom
<1> HIDE DEF s
<1>12. Onward(room, s)
  BY <1>10, <1>11, FollowsOn DEF Onward
<1> QED
  BY <1>2, <1>11, <1>12, CommittedKeeps

(* Whatever a player does keeps the invariant. *)
LEMMA PlayerStepKeeps ==
    ASSUME IInv, NEW p \in Players, PlayerStep(p)
    PROVE  IInv'
<1>1. ASSUME Clue(p)
      PROVE  IInv'
  <2> DEFINE s == AdvanceTurn(RecordClue(room))
  <2>1. GoodRoom(s) /\ Follows(room, s)
    BY <1>1, ClueRecorded DEF Clue, IInv, LedgerInv
  <2>2. Commit(s) /\ Keeps
    BY <1>1 DEF Clue
  <2> HIDE DEF s
  <2> QED
    BY <2>1, <2>2, CommittedKeeps DEF Onward
<1>2. ASSUME Payback(p)
      PROVE  IInv'
  <2> DEFINE s == EnterResolve(LoseLife(room, p))
  <2>1. GoodRoom(s) /\ Follows(room, s)
    BY <1>2, PaidBack DEF Payback, IInv, LedgerInv
  <2>2. Commit(s) /\ Keeps
    BY <1>2 DEF Payback
  <2> HIDE DEF s
  <2> QED
    BY <2>1, <2>2, CommittedKeeps DEF Onward
<1> QED
  BY <1>1, <1>2, JoinKeeps, RejoinKeeps, DisconnectKeeps, LeaveKeeps, SetSeatKeeps,
     ReadyToVoteKeeps, VoteKeeps DEF PlayerStep

-----------------------------------------------------------------------------
(* Steps of the host, and of the clock *)

(* The start of a match keeps the invariant. *)
LEMMA StartKeeps ==
    ASSUME IInv, Start
    PROVE  IInv'
<1> DEFINE lives == [p \in Players |-> IF p \in Seated(room) THEN Lives ELSE 0]
           fresh == [room EXCEPT !.lives = lives, !.out = {}, !.abandoned = {}, !.lastStart = None]
<1>1. /\ GoodRoom(room) /\ SeatsOK(room) /\ HostSeated(room) /\ room \in Room
      /\ room.phase = "LOBBY" /\ Seated(room) \subseteq Players
      /\ room.order \in Seq(Players) /\ room.connected \subseteq Seated(room)
  <2>1. GoodRoom(room) /\ SeatsOK(room) /\ HostSeated(room) /\ room \in Room
    BY DEF IInv, LedgerInv, GoodRoom, TableOK, SeatsOK
  <2> QED
    BY <2>1, Possible DEF Start, AsHost, Room, SeatsOK
<1>2. PICK rat \in Seated(room) : Commit(Deal(fresh, rat))
  BY DEF Start
<1>3. Keeps
  BY DEF Start
<1>4. /\ lives \in [Players -> 0..Lives]
      /\ \A p \in Players : p \in Seated(room) => lives[p] > 0
      /\ \A p \in Players : p \notin Seated(room) => lives[p] = 0
  BY TableAssumption
<1> HIDE DEF lives
<1>5. /\ fresh \in Room /\ fresh.order = room.order /\ fresh.lives = lives /\ fresh.out = {}
      /\ fresh.abandoned = {} /\ fresh.connected = room.connected /\ fresh.seat = room.seat
      /\ fresh.host = room.host /\ fresh.overdue = room.overdue /\ SameLedgers(room, fresh)
  BY <1>1, <1>4 DEF Room, SameLedgers
<1> HIDE DEF fresh
<1>6. Seated(fresh) = Seated(room)
  BY <1>5 DEF Seated
<1>7. SeatsOK(fresh) /\ HostSeated(fresh)
  BY <1>1, <1>4, <1>5, <1>6 DEF SeatsOK, HostSeated, SameLedgers
<1>8. Alive(fresh) = Seated(room)
  BY <1>1, <1>4, <1>5, <1>6 DEF Alive
<1>9. Cardinality(Seated(room)) >= 3
  <2>1. IsFiniteSet(Seated(room))
    BY <1>1, InjectiveLength DEF SeatsOK, Seated
  <2>2. /\ Cardinality(room.connected) \in Nat /\ Cardinality(Seated(room)) \in Nat
        /\ Cardinality(room.connected) <= Cardinality(Seated(room))
    BY <1>1, <2>1, FS_Subset, FS_CardinalityType
  <2>3. Cardinality(room.connected) >= MinPlayers
    BY DEF Start
  <2> QED
    BY <2>2, <2>3, TableAssumption
<1> DEFINE s == Deal(fresh, rat)
<1>10. /\ GoodRoom(s) /\ s.phase = "DEAL" /\ s.result.lifeLoss = None
       /\ Seated(s) = Seated(room)
  BY <1>6, <1>7, <1>8, <1>9, Dealt
<1>11. Commit(s)
  BY <1>2
<1> HIDE DEF s
<1>12. MayFollow(room, s)
  <2>1. s.rat \in Seated(s)
    BY <1>10 DEF GoodRoom, RoundOK, RoundOpen, Playable, Alive
  <2> QED
    BY <1>1, <1>10, <2>1 DEF MayFollow, Named
<1> QED
  BY <1>3, <1>10, <1>11, <1>12, CommittedAll DEF IInv, OpenInv, Keeps

(* The host is connected, so the lobby is not left empty. *)
LEMMA LobbyKeeps ==
    ASSUME IInv, room.host \in room.connected, Commit(ToLobby(room)), Keeps
    PROVE  IInv'
<1> DEFINE s == ToLobby(room)
<1>1. SeatsOK(room) /\ room.host \in Seated(room) \ room.abandoned
  BY DEF IInv, LedgerInv, GoodRoom, TableOK, SeatsOK
<1>2. /\ GoodRoom(s) /\ s.phase = "LOBBY"
      /\ Seated(s) = Seated(room) \ room.abandoned /\ Named(s) = {None}
  BY <1>1, LobbyEntered
<1>3. Commit(s)
  OBVIOUS
<1> HIDE DEF s
<1>4. MayFollow(room, s)
  BY <1>2 DEF MayFollow
<1>5. LedgerInv'
  BY <1>3, <1>4, Committed DEF IInv, Keeps
<1>6. s.order # <<>>
  BY <1>1, <1>2, SomebodySeated DEF GoodRoom, TableOK
<1> QED
  BY <1>3, <1>5, <1>6 DEF IInv, OpenInv, Keeps, Commit

(* Whatever the host does keeps the invariant. *)
LEMMA HostStepKeeps ==
    ASSUME IInv, HostStep
    PROVE  IInv'
<1>0. GoodRoom(room) /\ SeatsOK(room) /\ HostSeated(room) /\ RoundOK(room)
  BY DEF IInv, LedgerInv, GoodRoom, TableOK
<1>1. ASSUME SkipTurn
      PROVE  IInv'
  <2> DEFINE s == AdvanceTurn(RecordClue(room))
  <2>1. GoodRoom(s) /\ Follows(room, s)
    BY <1>0, <1>1, ClueRecorded DEF SkipTurn, AsHost
  <2>2. Commit(s) /\ Keeps
    BY <1>1 DEF SkipTurn
  <2> HIDE DEF s
  <2> QED
    BY <2>1, <2>2, CommittedKeeps DEF Onward
<1>2. ASSUME CallVote
      PROVE  IInv'
  <2> DEFINE s == EnterVote(room)
  <2>1. room.phase \in RoundOpen /\ Playable(room)
    BY <1>0, <1>2 DEF CallVote, AsHost, RoundOK, RoundOpen
  <2>2. GoodRoom(s) /\ Follows(room, s)
    BY <1>0, <2>1, VoteEntered
  <2>3. Commit(s) /\ Keeps
    BY <1>2 DEF CallVote
  <2> HIDE DEF s
  <2> QED
    BY <2>2, <2>3, CommittedKeeps DEF Onward
<1>3. ASSUME NextRound
      PROVE  IInv'
  <2>1. CASE AsHost("RESOLVE") /\ \E r \in AfterResolve(room) : Commit(r)
    <3>1. PICK s \in AfterResolve(room) : Commit(s)
      BY <2>1
    <3>2. GoodRoom(s) /\ Onward(room, s)
      BY <1>0, <2>1, <3>1, RoundResolved DEF AsHost
    <3> QED
      BY <1>3, <3>1, <3>2, CommittedKeeps DEF NextRound
  <2>2. CASE AsHost("MATCH_OVER") /\ Commit(ToLobby(room))
    BY <1>3, <2>2, LobbyKeeps DEF NextRound, AsHost
  <2> QED
    BY <1>3, <2>1, <2>2 DEF NextRound
<1>4. ASSUME Abort
      PROVE  IInv'
  BY <1>4, LobbyKeeps DEF Abort, AsHost
<1> QED
  BY <1>1, <1>2, <1>3, <1>4, StartKeeps DEF HostStep

(* The Rat's last word keeps the invariant. *)
LEMMA LastWordKeeps ==
    ASSUME IInv, NEW correct \in BOOLEAN, LastWord(correct)
    PROVE  IInv'
<1> DEFINE s == ResolveLastWord(room, correct)
<1>1. GoodRoom(s) /\ Follows(room, s)
  BY LastWordSaid DEF LastWord, IInv, LedgerInv
<1>2. Commit(s) /\ Keeps
  BY DEF LastWord
<1> HIDE DEF s
<1> QED
  BY <1>1, <1>2, CommittedKeeps DEF Onward

(* The time that passes since the host dropped keeps the invariant. *)
LEMMA HandoverKeeps ==
    ASSUME IInv, HandoverElapses
    PROVE  IInv'
<1> DEFINE s == [room EXCEPT !.overdue = TRUE]
<1>1. GoodRoom(room) /\ SeatsOK(room) /\ HostSeated(room) /\ room \in Room
  BY DEF IInv, LedgerInv, GoodRoom, TableOK, SeatsOK
<1>2. Commit(s) /\ Keeps /\ room.host \notin room.connected
  BY DEF HandoverElapses
<1>3. /\ s \in Room /\ s.order = room.order /\ s.connected = room.connected
      /\ s.abandoned = room.abandoned /\ s.seat = room.seat
      /\ s.host = room.host /\ s.lives = room.lives /\ s.out = room.out
      /\ s.phase = room.phase /\ s.timer = room.timer /\ s.rat = room.rat /\ s.result = room.result
      /\ SameLedgers(room, s)
  BY <1>1 DEF Room, SameLedgers
<1> HIDE DEF s
<1>4. Seated(s) = Seated(room)
  BY <1>3 DEF Seated
<1>5. SeatsOK(s) /\ HostSeated(s) /\ Alike(room, s)
  BY <1>1, <1>2, <1>3, <1>4 DEF SeatsOK, HostSeated, SameLedgers, Alike
<1>6. GoodRoom(s) /\ MayFollow(room, s) /\ Seated(s) = Seated(room)
  BY <1>1, <1>5, TableChanged, FollowsMay DEF Onward
<1> QED
  BY <1>2, <1>6, CommittedAll DEF IInv, OpenInv, Keeps

(* An expired grace, the sweep of the host and an elapsed deadline in one tick. *)
LEMMA TickKeeps ==
    ASSUME IInv, NEW expired, expired = {} \/ (\E p \in InGrace(room) : expired = {p}),
           NEW elapsed \in BOOLEAN, Tick(expired, elapsed)
    PROVE  IInv'
<1> DEFINE left == IF expired = {} THEN room
                   ELSE AbandonPlayer(room, CHOOSE p \in expired : TRUE)
           swept == SweepHost(left)
           restarted == swept.phase # room.phase \/ swept.turnIdx # room.turnIdx
           timedOut == \/ swept.timer = "due"
                       \/ swept.timer = "running" /\ elapsed /\ ~restarted
<1>1. GoodRoom(room)
  BY DEF IInv, LedgerInv
<1>2. /\ GoodRoom(left) /\ Seated(left) \subseteq Seated(room)
      /\ room.phase # "LOBBY" => SameRound(room, left)
      /\ room.phase = "LOBBY" => left.phase = "LOBBY" /\ Named(left) = Named(room)
  <2>1. CASE expired = {}
    BY <1>1, <2>1 DEF SameRound, Named
  <2>2. CASE \E p \in InGrace(room) : expired = {p}
    <3>1. PICK p \in InGrace(room) : expired = {p}
      BY <2>2
    <3>2. left = AbandonPlayer(room, p) /\ p \in Seated(room)
      BY <3>1 DEF InGrace
    <3> HIDE DEF left
    <3> QED
      BY <1>1, <3>2, Abandoned
  <2> QED
    BY <2>1, <2>2
<1>3. PICK s \in (IF timedOut THEN Due(swept) ELSE {swept}) :
        /\ Commit(s)
        /\ \/ open' = (s.order # <<>>)
           \/ /\ Seated(s) = s.abandoned
              /\ open' = FALSE
  BY DEF Tick
<1>4. UNCHANGED <<known, drops, seatMoves>>
  BY DEF Tick
<1> HIDE DEF left
<1>5. GoodRoom(swept) /\ Alike(left, swept)
  BY <1>2, HostSwept
<1> HIDE DEF swept
<1>6. /\ Seated(swept) \subseteq Seated(room)
      /\ room.phase # "LOBBY" => SameRound(room, swept)
      /\ room.phase = "LOBBY" => swept.phase = "LOBBY" /\ Named(swept) = Named(room)
  BY <1>2, <1>5 DEF Alike, SameRound, Named, Account
<1>7. MayFollow(room, s)
  <2>1. CASE ~timedOut
    <3>1. s = swept
      BY <1>3, <2>1
    <3> QED
      BY <1>5, <1>6, <3>1 DEF MayFollow, SameRound
  <2>2. CASE timedOut
    <3>1. s \in Due(swept) /\ swept.timer # "off"
      BY <1>3, <2>2
    <3>2. swept.phase # "LOBBY" /\ GoodRoom(s) /\ Onward(swept, s)
      BY <1>5, <3>1, Elapsed
    <3>3. SameRound(room, swept)
      BY <1>6, <3>2
    <3>4. CASE Follows(swept, s)
      BY <3>2, <3>3, <3>4 DEF Follows, SameRound, MayFollow
    <3>5. CASE /\ swept.phase = "RESOLVE" /\ s.phase = "DEAL" /\ s.result.lifeLoss = None
               /\ Seated(s) = Seated(swept)
      <4>1. swept.timer # "due"
        BY <1>5, <3>5 DEF GoodRoom, TableOK, TimerOK
      <4>2. room.phase = "RESOLVE"
        BY <2>2, <3>5, <4>1
      <4>3. s.rat \in Seated(s)
        BY <3>2, <3>5 DEF GoodRoom, RoundOK, RoundOpen, Playable, Alive
      <4> QED
        BY <1>6, <3>2, <3>5, <4>2, <4>3 DEF MayFollow, Named
    <3> QED
      BY <3>2, <3>4, <3>5 DEF Onward
  <2> QED
    BY <2>1, <2>2
<1>8. LedgerInv'
  BY <1>3, <1>4, <1>7, Committed DEF IInv
<1>9. room' = s /\ open' \in BOOLEAN /\ (open' => s.order # <<>>)
  BY <1>3 DEF Commit
<1> QED
  BY <1>4, <1>8, <1>9 DEF IInv, OpenInv

(* A table that was just created satisfies the invariant. *)
LEMMA InitHolds ==
    ASSUME Init
    PROVE  IInv
<1>1. PICK p \in Players :
        /\ room = AddPlayer(Empty, p) /\ known = {p} /\ open = TRUE
        /\ dealtLives = [q \in Players |-> 0] /\ drops = 0 /\ seatMoves = 0
  BY DEF Init
<1>2. /\ NoResult \in [caught: BOOLEAN, lifeLoss: Players \cup {None}] /\ NoResult.lifeLoss = None
      /\ NoVotes \in UNION {[voters -> Players] : voters \in SUBSET Players}
      /\ <<>> \in Seq(Players) /\ 0 \in 0..Lives /\ "LOBBY" \in Phases
  <2>1. NoVotes \in [{} -> Players]
    BY DEF NoVotes
  <2>2. NoVotes \in UNION {[voters -> Players] : voters \in SUBSET Players}
    BY <2>1
  <2> QED
    BY <2>2, TableAssumption DEF NoResult, Phases
<1> HIDE DEF NoResult, NoVotes
<1>3. /\ Empty \in Room /\ Empty.order = <<>> /\ Empty.connected = {} /\ Empty.out = {}
      /\ Empty.abandoned = {} /\ Empty.ready = {} /\ Empty.voted = {} /\ Empty.overdue = FALSE
      /\ Empty.phase = "LOBBY" /\ Empty.timer = "off" /\ Empty.host = None /\ Empty.rat = None
      /\ Empty.turnIdx = 0 /\ Empty.turnOrder = <<>> /\ Empty.result = NoResult
      /\ \A x \in Players : Empty.seat[x] = None /\ Empty.lives[x] = 0
  BY <1>2 DEF Empty, Room
<1>4. Seated(Empty) = {} /\ IsInjective(Empty.order)
  BY <1>3, Singles DEF Seated
<1>5. GoodRoom(Empty)
  <2>1. SeatsOK(Empty)
    BY <1>3, <1>4 DEF SeatsOK
  <2>2. TimerOK(Empty) /\ HostSeated(Empty)
    BY <1>3 DEF TimerOK, HostSeated
  <2>3. RoundOK(Empty)
    BY <1>3 DEF RoundOK, RoundOpen, Judged
  <2> QED
    BY <2>1, <2>2, <2>3 DEF GoodRoom, TableOK
<1>6. FreeSeats(Empty) # {} /\ p # Empty.rat
  <2>1. 0 \in Seats
    BY TableAssumption DEF Seats
  <2> QED
    BY <1>3, <1>4, <2>1, TableAssumption DEF FreeSeats
<1>7. /\ GoodRoom(room) /\ Seated(room) = {p} /\ room.phase = "LOBBY"
      /\ room.result = NoResult /\ room.rat = None
  BY <1>1, <1>3, <1>4, <1>5, <1>6, PlayerAdded
<1>8. LedgerInv
  BY <1>1, <1>2, <1>7 DEF LedgerInv, Named, RoundTakesAnnouncedLife
<1>9. room.order # <<>>
  BY <1>7, SomebodySeated DEF GoodRoom, TableOK
<1> QED
  BY <1>1, <1>8, <1>9, TableAssumption DEF IInv, OpenInv

(* Every step keeps the invariant. *)
LEMMA StepKeeps ==
    ASSUME IInv, [Next]_vars
    PROVE  IInv'
<1>1. CASE UNCHANGED vars
  BY <1>1 DEF vars, IInv, LedgerInv, OpenInv, RoundTakesAnnouncedLife
<1>2. CASE Next
  <2>1. CASE \E p \in Players : PlayerStep(p)
    BY <2>1, PlayerStepKeeps
  <2>2. CASE \E correct \in BOOLEAN : LastWord(correct)
    BY <2>2, LastWordKeeps
  <2>3. CASE HostStep
    BY <2>3, HostStepKeeps
  <2>4. CASE Timers
    BY <2>4, HandoverKeeps, TickKeeps DEF Timers
  <2> QED
    BY <1>2, <2>1, <2>2, <2>3, <2>4 DEF Next
<1> QED
  BY <1>1, <1>2

(* The inductive invariant holds in every reachable state. *)
LEMMA Inductive == Spec => []IInv
<1>1. Init => IInv
  BY InitHolds
<1>2. IInv /\ [Next]_vars => IInv'
  BY StepKeeps
<1> QED
  BY <1>1, <1>2, PTL DEF Spec

-----------------------------------------------------------------------------
(* What it all gives *)

(* Whatever joins, seat changes, drops, departures and ticks have come         *)
(* before: no two players share a seat, every ledger names seated players      *)
(* only, and nobody is connected who was given up (rules.js, every handler).   *)
THEOREM TableStaysWellFormed == Spec => []TypeOK
<1>1. IInv => TypeOK
  <2> SUFFICES ASSUME IInv PROVE TypeOK
    OBVIOUS
  <2>1. SeatsOK(room) /\ HostSeated(room)
    BY DEF IInv, LedgerInv, GoodRoom, TableOK
  <2> QED
    BY <2>1 DEF TypeOK, SeatsOK, HostSeated, IInv, LedgerInv, OpenInv
<1> QED
  BY <1>1, Inductive, PTL

(* The chair is never vacant at an open table (rules.js, reassignHostIfNeeded, *)
(* and rooms.js, which reaps a table with nobody seated).                      *)
THEOREM OpenTableHasHost == Spec => []HostIsSeated
<1>1. IInv => HostIsSeated
  BY DEF IInv, LedgerInv, OpenInv, GoodRoom, TableOK, HostSeated, HostIsSeated
<1> QED
  BY <1>1, Inductive, PTL

(* No departure leaves an open round without its Rat or with two players       *)
(* (rules.js, playerGone), for any table of at least three.                    *)
THEOREM OpenRoundStaysPlayable == Spec => []OpenRoundIsPlayable
<1>1. IInv => OpenRoundIsPlayable
  BY DEF IInv, LedgerInv, GoodRoom, RoundOK, Playable, OpenRoundIsPlayable
<1> QED
  BY <1>1, Inductive, PTL

(* Turns, clues and ballots keep following the table while players leave it    *)
(* (rules.js, advanceTurn and playerGone).                                     *)
THEOREM LedgersStayWithTable == Spec => []LedgersFollowTable
<1>1. IInv => LedgersFollowTable
  <2> SUFFICES ASSUME IInv PROVE LedgersFollowTable
    OBVIOUS
  <2>1. RoundOK(room) /\ SeatsOK(room) /\ room \in Room
    BY DEF IInv, LedgerInv, GoodRoom, TableOK, SeatsOK
  <2>2. room.phase = "CLUES" =>
          /\ Speaker(room) \in Alive(room)
          /\ \A i \in DOMAIN room.clues : room.clues[i] # Speaker(room)
    <3> SUFFICES ASSUME room.phase = "CLUES", NEW i \in DOMAIN room.clues
                 PROVE  room.clues[i] # Speaker(room)
      BY <2>1 DEF RoundOK
    <3>1. /\ TurnsDealt(room) /\ room.turnIdx \in DOMAIN room.turnOrder
          /\ InTurnOrder(room, room.turnIdx)
      BY <2>1 DEF RoundOK
    <3>2. PICK t \in 1..(room.turnIdx - 1) : room.turnOrder[t] = room.clues[i]
      BY <3>1 DEF InTurnOrder
    <3>3. room.turnOrder \in Seq(Players) /\ DOMAIN room.turnOrder = 1..Len(room.turnOrder)
          /\ Len(room.turnOrder) \in Nat
      BY <2>1 DEF Room
    <3>4. t \in DOMAIN room.turnOrder /\ t # room.turnIdx
      BY <3>1, <3>3
    <3> QED
      BY <3>1, <3>2, <3>4 DEF TurnsDealt, IsInjective, Speaker
  <2>3. room.phase \in {"CLUES", "DISCUSS"} => InTurnOrder(room, room.turnIdx)
    BY <2>1 DEF RoundOK
  <2>4. room.phase = "DISCUSS" => Alive(room) \subseteq ToSet(room.clues)
    BY <2>1 DEF RoundOK
  <2>5. room.phase = "VOTE" => Ballots(room)
    BY <2>1 DEF RoundOK
  <2> QED
    BY <2>2, <2>3, <2>4, <2>5 DEF LedgersFollowTable, InTurnOrder, Ballots
<1> QED
  BY <1>1, Inductive, PTL

(* A round costs nobody a life it did not announce (rules.js, loseLife and     *)
(* voidRound), whoever leaves, is abandoned or joins meanwhile.                *)
THEOREM LivesFollowTheRounds == Spec => []RoundTakesAnnouncedLife
<1>1. IInv => RoundTakesAnnouncedLife
  BY DEF IInv, LedgerInv
<1> QED
  BY <1>1, Inductive, PTL
=============================================================================
