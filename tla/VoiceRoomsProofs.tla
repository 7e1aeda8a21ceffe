-------------------------- MODULE VoiceRoomsProofs --------------------------
(* Theorems about VoiceRooms, for every set of users, sockets and channels. *)
EXTENDS VoiceRooms, TLAPS

USE ConstantsAssumption

(* The parts of a moderation. *)
LEMMA ModTypes ==
    ASSUME NEW m \in Mod
    PROVE  /\ m.channel \in Channels /\ m.user \in Users
           /\ m.act \in {"mute", "deafen"} => m.on \in BOOLEAN
           /\ m.act = "move" => m.to \in Channels
BY DEF Mod

(* The key of a flag is a server and a user. *)
LEMMA FlagKeyType ==
    ASSUME NEW c \in Channels, NEW u \in Users
    PROVE  FlagKey(c, u) \in Servers \X Users
BY DEF FlagKey

(* The parts of a seat. *)
LEMMA SeatType ==
    ASSUME TypeOK, NEW u \in Users, NEW c \in Channels, seat[u][c] # None
    PROVE  /\ seat[u][c] \in Seat
           /\ seat[u][c].socket \in Sockets
           /\ seat[u][c].muted \in BOOLEAN /\ seat[u][c].deafened \in BOOLEAN
BY DEF TypeOK, Seat

(* A seat with other flags is a seat. *)
LEMMA SeatWithType ==
    ASSUME NEW e, e.socket \in Sockets, NEW m \in BOOLEAN, NEW d \in BOOLEAN
    PROVE  SeatWith(e, m, d) \in Seat
BY DEF SeatWith, Seat

(* The recorded room stays a channel, or none, when seats are freed. *)
LEMMA FreeingType ==
    ASSUME TypeOK, NEW u \in Users, NEW freed
    PROVE  ChannelAfterFreeing(u, freed) \in Channels \cup {None}
BY DEF TypeOK, ChannelAfterFreeing

(* An eviction keeps the types. *)
LEMMA EvictType ==
    ASSUME TypeOK, NEW u \in Users, NEW c \in Channels, Evict(c, u)
    PROVE  /\ sockState' = sockState
           /\ inVoice' \in [Sockets -> SUBSET Channels]
           /\ seat' \in [Users -> [Channels -> Seat \cup {None}]]
           /\ userVoiceChannel' \in [Users -> Channels \cup {None}]
<1>1. inVoice' \in [Sockets -> SUBSET Channels]
  BY DEF Evict, TypeOK
<1>2. seat' \in [Users -> [Channels -> Seat \cup {None}]]
  BY DEF Evict, TypeOK
<1>3. userVoiceChannel' \in [Users -> Channels \cup {None}]
  BY FreeingType DEF Evict, TypeOK
<1> QED BY <1>1, <1>2, <1>3 DEF Evict

-----------------------------------------------------------------------------
(* Type correctness. *)

(* The initial state is well formed. *)
LEMMA InitType == Init => TypeOK
BY DEF Init, TypeOK

(* Connections keep the types. *)
LEMMA ConnectionType == TypeOK /\ ConnectionStep => TypeOK'
<1> SUFFICES ASSUME TypeOK, NEW s \in Sockets, Connect(s) \/ Disconnect(s)
             PROVE  TypeOK'
  BY DEF ConnectionStep
<1>1. CASE Connect(s)
  BY <1>1 DEF Connect, TypeOK, seatVars, flagVars, dbVars, taskVars, histVars
<1>2. CASE Disconnect(s)
  <2> USE <1>2
  <2>1. OwnerOf[s] \in Users
    OBVIOUS
  <2>2. seat' \in [Users -> [Channels -> Seat \cup {None}]]
    BY <2>1 DEF Disconnect, TypeOK
  <2>3. userVoiceChannel' \in [Users -> Channels \cup {None}]
    BY <2>1, FreeingType DEF Disconnect, TypeOK
  <2>4. sockState' \in [Sockets -> {"new", "live", "gone"}]
        /\ inVoice' \in [Sockets -> SUBSET Channels]
    BY DEF Disconnect, TypeOK
  <2> QED BY <2>2, <2>3, <2>4
          DEF Disconnect, TypeOK, flagVars, dbVars, taskVars, histVars
<1> QED BY <1>1, <1>2

(* The first half of a join keeps the types. *)
LEMMA JoinReadType ==
    ASSUME TypeOK, NEW s \in Sockets, NEW c \in Channels,
           NEW m \in SelfStates, NEW d \in SelfStates, JoinRead(s, c, m, d)
    PROVE  TypeOK'
<1>1. joins' \subseteq Join
  BY DEF JoinRead, TypeOK, Join
<1> QED BY <1>1 DEF JoinRead, TypeOK, connVars, seatVars, flagVars, dbVars, histVars

(* The seat a completed voice:join writes. *)
LEMMA JoinWrites ==
    ASSUME TypeOK, NEW j \in joins, JoinComplete(j)
    PROVE  /\ j.socket \in Sockets /\ OwnerOf[j.socket] \in Users
           /\ j.channel \in Channels
           /\ seat' \in [Users -> [Channels -> Seat \cup {None}]]
           /\ seat'[OwnerOf[j.socket]][j.channel] \in Seat
           /\ seat'[OwnerOf[j.socket]][j.channel].socket = j.socket
<1> DEFINE s == j.socket
           u == OwnerOf[s]
           c == j.channel
           deaf == j.deafened \/ IsServerDeafened(c, u)
           taken == [socket |-> s, deafened |-> deaf,
                     muted |-> j.muted \/ deaf \/ IsServerMuted(c, u)]
<1>1. s \in Sockets /\ u \in Users /\ c \in Channels
  BY DEF TypeOK, Join
<1>2. taken \in Seat
  BY <1>1 DEF Seat, TypeOK, Join
<1>3. seat' \in [Users -> [Channels -> Seat \cup {None}]]
  BY <1>1, <1>2 DEF JoinComplete, TypeOK
<1>4. seat'[u][c] = taken
  BY <1>1 DEF JoinComplete, TypeOK
<1> QED BY <1>1, <1>2, <1>3, <1>4

(* The second half of a join keeps the types. *)
LEMMA JoinCompleteType ==
    ASSUME TypeOK, NEW j \in joins, JoinComplete(j)
    PROVE  TypeOK'
<1> DEFINE s == j.socket
           u == OwnerOf[s]
           c == j.channel
<1>1. s \in Sockets /\ u \in Users /\ c \in Channels
      /\ seat' \in [Users -> [Channels -> Seat \cup {None}]]
  BY JoinWrites
<1>2. inVoice' \in [Sockets -> SUBSET Channels]
  BY <1>1 DEF JoinComplete, TypeOK
<1>3. userVoiceChannel' \in [Users -> Channels \cup {None}]
  BY <1>1 DEF JoinComplete, TypeOK
<1>4. late' \subseteq Channels \X Users /\ stale' \subseteq Channels \X Users
  BY <1>1 DEF JoinComplete, TypeOK
<1>5. joins' \subseteq Join
  BY DEF JoinComplete, TypeOK
<1> QED BY <1>1, <1>2, <1>3, <1>4, <1>5 DEF JoinComplete, TypeOK, flagVars, dbVars

(* The voice handlers keep the types. *)
LEMMA VoiceType == TypeOK /\ VoiceStep => TypeOK'
<1> SUFFICES ASSUME TypeOK, VoiceStep PROVE TypeOK'
  OBVIOUS
<1>1. ASSUME NEW s \in Sockets, NEW c \in Channels, Leave(s, c) PROVE TypeOK'
  <2> USE <1>1
  <2>1. OwnerOf[s] \in Users
    OBVIOUS
  <2>2. seat' \in [Users -> [Channels -> Seat \cup {None}]]
        /\ userVoiceChannel' \in [Users -> Channels \cup {None}]
    <3>1. CASE SeatTakenBy(c, s)
      <4>1. seat' = [seat EXCEPT ![OwnerOf[s]] = [seat[OwnerOf[s]] EXCEPT ![c] = None]]
            /\ userVoiceChannel' = [userVoiceChannel EXCEPT ![OwnerOf[s]] =
                                      ChannelAfterFreeing(OwnerOf[s], {c})]
        BY <3>1 DEF Leave
      <4> QED BY <2>1, <4>1, FreeingType DEF TypeOK
    <3>2. CASE ~SeatTakenBy(c, s)
      BY <3>2 DEF Leave, TypeOK, seatVars
    <3> QED BY <3>1, <3>2
  <2>4. inVoice' \in [Sockets -> SUBSET Channels]
    BY DEF Leave, TypeOK
  <2> QED BY <2>2, <2>4
          DEF Leave, TypeOK, flagVars, dbVars, taskVars, histVars
<1>2. ASSUME NEW s \in Sockets, NEW c \in Channels, NEW on \in SelfStates,
             SelfMute(s, c, on) \/ SelfDeafen(s, c, on)
      PROVE  TypeOK'
  <2> DEFINE u == OwnerOf[s]
  <2>1. u \in Users /\ on \in BOOLEAN
    OBVIOUS
  <2>2. seat[u][c] # None
    BY <1>2 DEF SelfMute, SelfDeafen
  <2>3. seat' \in [Users -> [Channels -> Seat \cup {None}]]
    <3>1. CASE SelfMute(s, c, on)
      <4>1. SeatWith(seat[u][c], on, seat[u][c].deafened) \in Seat
        BY <2>1, <2>2, SeatType, SeatWithType
      <4> QED BY <2>1, <3>1, <4>1 DEF SelfMute, TypeOK
    <3>2. CASE SelfDeafen(s, c, on)
      <4>1. SeatWith(seat[u][c], seat[u][c].muted \/ on, on) \in Seat
        BY <2>1, <2>2, SeatType, SeatWithType
      <4> QED BY <2>1, <3>2, <4>1 DEF SelfDeafen, TypeOK
    <3> QED BY <1>2, <3>1, <3>2
  <2> QED BY <1>2, <2>3
          DEF SelfMute, SelfDeafen, TypeOK, connVars, flagVars, dbVars, taskVars, histVars
<1> QED BY <1>1, <1>2, JoinReadType, JoinCompleteType DEF VoiceStep

(* Flags stay sets of servers and users. *)
LEMMA SetFlagType ==
    ASSUME NEW c \in Channels, NEW u \in Users, NEW on \in BOOLEAN,
           NEW flag \in SUBSET (Servers \X Users)
    PROVE  SetFlag(flag, FlagKey(c, u), on) \subseteq Servers \X Users
BY FlagKeyType DEF SetFlag

(* A server mute keeps the types. *)
LEMMA ServerMuteType == ASSUME TypeOK, NEW m \in mods, ServerMute(m) PROVE TypeOK'
<1> DEFINE entry == seat[m.user][m.channel]
<1>1. m \in Mod /\ m.act = "mute"
  BY DEF ServerMute, TypeOK
<1>2. m.channel \in Channels /\ m.user \in Users /\ m.on \in BOOLEAN
  BY <1>1, ModTypes
<1>3. seat' \in [Users -> [Channels -> Seat \cup {None}]]
  <2>1. CASE entry # None /\ m.on
    <3>1. SeatWith(entry, TRUE, entry.deafened) \in Seat
      BY <1>2, <2>1, SeatType, SeatWithType
    <3>2. seat' = [seat EXCEPT ![m.user] = [seat[m.user] EXCEPT
                    ![m.channel] = SeatWith(entry, TRUE, entry.deafened)]]
      BY <2>1 DEF ServerMute
    <3> HIDE DEF entry
    <3> QED BY <1>2, <3>1, <3>2 DEF TypeOK
  <2>2. CASE ~(entry # None /\ m.on)
    BY <2>2 DEF ServerMute, TypeOK
  <2> QED BY <2>1, <2>2
<1>4. serverMuted' \subseteq Servers \X Users
  BY <1>2, SetFlagType DEF ServerMute, TypeOK
<1> QED BY <1>3, <1>4
        DEF ServerMute, ModDone, TypeOK, connVars, dbVars, histVars

(* A server deafen keeps the types. *)
LEMMA ServerDeafenType == ASSUME TypeOK, NEW m \in mods, ServerDeafen(m) PROVE TypeOK'
<1> DEFINE entry == seat[m.user][m.channel]
<1>1. m \in Mod /\ m.act = "deafen"
  BY DEF ServerDeafen, TypeOK
<1>2. m.channel \in Channels /\ m.user \in Users /\ m.on \in BOOLEAN
  BY <1>1, ModTypes
<1>3. seat' \in [Users -> [Channels -> Seat \cup {None}]]
  <2>1. CASE entry # None /\ m.on
    <3>1. SeatWith(entry, TRUE, TRUE) \in Seat
      BY <1>2, <2>1, SeatType, SeatWithType
    <3>2. seat' = [seat EXCEPT ![m.user] = [seat[m.user] EXCEPT
                    ![m.channel] = SeatWith(entry, TRUE, TRUE)]]
      BY <2>1 DEF ServerDeafen
    <3> HIDE DEF entry
    <3> QED BY <1>2, <3>1, <3>2 DEF TypeOK
  <2>2. CASE ~(entry # None /\ m.on)
    BY <2>2 DEF ServerDeafen, TypeOK
  <2> QED BY <2>1, <2>2
<1>4. serverDeafened' \subseteq Servers \X Users
  BY <1>2, SetFlagType DEF ServerDeafen, TypeOK
<1> QED BY <1>3, <1>4
        DEF ServerDeafen, ModDone, TypeOK, connVars, dbVars, histVars

(* A kick keeps the types. *)
LEMMA KickType == ASSUME TypeOK, NEW m \in mods, Kick(m) PROVE TypeOK'
<1>1. m.channel \in Channels /\ m.user \in Users
  BY ModTypes DEF TypeOK
<1>2. CASE seat[m.user][m.channel] # None
  <2>1. Evict(m.channel, m.user)
    BY <1>2 DEF Kick
  <2> QED BY <1>1, <2>1, EvictType
          DEF Kick, ModDone, TypeOK, flagVars, dbVars, histVars
<1>3. CASE seat[m.user][m.channel] = None
  BY <1>3 DEF Kick, ModDone, TypeOK, connVars, seatVars, flagVars, dbVars, histVars
<1> QED BY <1>2, <1>3

(* A move keeps the types. *)
LEMMA MoveType == ASSUME TypeOK, NEW m \in mods, Move(m) PROVE TypeOK'
<1> DEFINE u == m.user
           entry == seat[u][m.channel]
           moves == /\ entry # None
                    /\ sockState[entry.socket] = "live"
                    /\ m.channel \in inVoice[entry.socket]
<1>1. m \in Mod /\ m.act = "move"
  BY DEF Move, TypeOK
<1>2. m.channel \in Channels /\ u \in Users /\ m.to \in Channels
  BY <1>1, ModTypes
<1>3. CASE moves
  <2>1. entry \in Seat /\ entry.socket \in Sockets
    BY <1>2, <1>3, SeatType
  <2>2. inVoice' = [inVoice EXCEPT ![entry.socket] =
                      RoomsAfterMove(@, m.channel, m.to)]
        /\ seat' = [seat EXCEPT ![u] = [seat[u] EXCEPT
                      ![m.channel] = None, ![m.to] = entry]]
        /\ userVoiceChannel' = [userVoiceChannel EXCEPT ![u] = m.to]
        /\ late' \subseteq late
        /\ stale' \subseteq stale \cup {<<m.to, u>>}
        /\ UNCHANGED sockState
    BY <1>3 DEF Move
  <2>3. inVoice' \in [Sockets -> SUBSET Channels]
    BY <1>2, <2>1, <2>2 DEF TypeOK, RoomsAfterMove
  <2> HIDE DEF entry, u
  <2>4. seat' \in [Users -> [Channels -> Seat \cup {None}]]
    BY <1>2, <2>1, <2>2 DEF TypeOK
  <2>5. userVoiceChannel' \in [Users -> Channels \cup {None}]
        /\ late' \subseteq Channels \X Users /\ stale' \subseteq Channels \X Users
    BY <1>2, <2>2 DEF TypeOK
  <2>6. ModDone(m) /\ UNCHANGED flagVars
    BY DEF Move
  <2> QED BY <2>2, <2>3, <2>4, <2>5, <2>6 DEF ModDone, TypeOK, flagVars, dbVars
<1>4. CASE ~moves
  BY <1>4 DEF Move, ModDone, TypeOK, connVars, seatVars, flagVars, dbVars, histVars
<1> QED BY <1>3, <1>4

(* Moderation keeps the types. *)
LEMMA ModerationType == TypeOK /\ ModerationStep => TypeOK'
<1> SUFFICES ASSUME TypeOK, ModerationStep PROVE TypeOK'
  OBVIOUS
<1>1. ASSUME NEW m \in Mod, ModRead(m) PROVE TypeOK'
  BY <1>1 DEF ModRead, TypeOK, connVars, seatVars, flagVars, dbVars, histVars
<1> QED BY <1>1, ServerMuteType, ServerDeafenType, KickType, MoveType
        DEF ModerationStep

(* The commits of the routes keep the types. *)
LEMMA CommitType == TypeOK /\ CommitStep => TypeOK'
<1> SUFFICES ASSUME TypeOK, CommitStep PROVE TypeOK'
  OBVIOUS
<1>1. ASSUME NEW v \in Servers, NEW u \in Users, RemoveMember(v, u) PROVE TypeOK'
  <2>1. notices' \subseteq Notice
    BY <1>1 DEF RemoveMember, MemberNotice, TypeOK, Notice
  <2>2. member' \in [Servers -> SUBSET Users] /\ changeCount' \in Nat
    BY <1>1 DEF RemoveMember, TypeOK
  <2> QED BY <1>1, <2>1, <2>2
          DEF RemoveMember, TypeOK, connVars, seatVars, flagVars, histVars
<1>2. ASSUME NEW v \in Servers, NEW u \in Users, AddMember(v, u) PROVE TypeOK'
  <2>1. notices' \subseteq Notice
    BY <1>2 DEF AddMember, MemberNotice, TypeOK, Notice
  <2>2. member' \in [Servers -> SUBSET Users] /\ changeCount' \in Nat
    BY <1>2 DEF AddMember, TypeOK
  <2> QED BY <1>2, <2>1, <2>2
          DEF AddMember, TypeOK, connVars, seatVars, flagVars, histVars
<1>3. ASSUME NEW c \in Channels, NEW audience \in SUBSET Users,
             SetAudience(c, audience)
      PROVE  TypeOK'
  <2>1. notices' \subseteq Notice
    BY <1>3 DEF SetAudience, TypeOK, Notice
  <2>2. visible' \in [Channels -> SUBSET Users] /\ changeCount' \in Nat
    BY <1>3 DEF SetAudience, TypeOK
  <2> QED BY <1>3, <2>1, <2>2
          DEF SetAudience, TypeOK, connVars, seatVars, flagVars, histVars
<1> QED BY <1>1, <1>2, <1>3 DEF CommitStep

(* The refreshes keep the types. *)
LEMMA RefreshType == TypeOK /\ RefreshStep => TypeOK'
<1> SUFFICES ASSUME TypeOK, RefreshStep PROVE TypeOK'
  OBVIOUS
<1>1. ASSUME NEW n \in notices, SweepChannel(n) PROVE TypeOK'
  <2>1. n \in Notice /\ n.scope = "channel"
    BY <1>1 DEF TypeOK, SweepChannel
  <2>2. n.channel \in Channels
    BY <2>1 DEF Notice
  <2>3. evictions' \subseteq Channels \X Users
    BY <1>1, <2>2 DEF SweepChannel, Occupants, TypeOK
  <2> QED BY <1>1, <2>3
          DEF SweepChannel, TypeOK, connVars, seatVars, flagVars, dbVars, histVars
<1>2. ASSUME NEW n \in notices, ScanJoinedChannels(n) PROVE TypeOK'
  <2>1. n \in Notice /\ n.scope = "scan"
    BY <1>2 DEF TypeOK, ScanJoinedChannels
  <2>2. n.server \in Servers /\ n.user \in Users /\ n.wasMember \in BOOLEAN
    BY <2>1 DEF Notice
  <2>3. [server |-> n.server, user |-> n.user, wasMember |-> n.wasMember,
         channels |-> {c \in Channels : ServerOf[c] = n.server
                                        /\ n.user \in Occupants(c)}] \in Refresh
    BY <2>2 DEF Refresh
  <2>4. refreshes' \subseteq Refresh
    BY <1>2, <2>3 DEF ScanJoinedChannels, TypeOK
  <2> QED BY <1>2, <2>4
          DEF ScanJoinedChannels, TypeOK, connVars, seatVars, flagVars, dbVars, histVars
<1>3. ASSUME NEW n \in notices, RefreshMembership(n) PROVE TypeOK'
  <2>1. n \in Notice /\ n.scope = "member"
    BY <1>3 DEF TypeOK, RefreshMembership
  <2>2. n.server \in Servers /\ n.user \in Users
    BY <2>1 DEF Notice
  <2>3. [scope |-> "scan", server |-> n.server, user |-> n.user,
         wasMember |-> n.user \in member[n.server]] \in Notice
    BY <2>2 DEF Notice
  <2>4. notices' \subseteq Notice
    BY <1>3, <2>3 DEF RefreshMembership, TypeOK
  <2> QED BY <1>3, <2>4
          DEF RefreshMembership, TypeOK, connVars, seatVars, flagVars, dbVars, histVars
<1>4. ASSUME NEW r \in refreshes, RefreshMemberApply(r) PROVE TypeOK'
  <2>1. r.user \in Users /\ r.channels \subseteq Channels
    BY DEF TypeOK, Refresh
  <2>2. evictions' \subseteq Channels \X Users
    BY <1>4, <2>1 DEF RefreshMemberApply, TypeOK
  <2> QED BY <1>4, <2>2
          DEF RefreshMemberApply, TypeOK, connVars, seatVars, dbVars, histVars
<1>5. ASSUME NEW e \in evictions, EvictRevoked(e) PROVE TypeOK'
  <2>1. e[1] \in Channels /\ e[2] \in Users
    BY DEF TypeOK
  <2>2. Evict(e[1], e[2])
    BY <1>5 DEF EvictRevoked
  <2> QED BY <1>5, <2>1, <2>2, EvictType
          DEF EvictRevoked, TypeOK, flagVars, dbVars, histVars
<1> QED BY <1>1, <1>2, <1>3, <1>4, <1>5 DEF RefreshStep

(* Every step keeps the types. *)
LEMMA NextType == TypeOK /\ [Next]_vars => TypeOK'
<1>1. TypeOK /\ UNCHANGED vars => TypeOK'
  BY DEF TypeOK, vars, connVars, seatVars, flagVars, dbVars, taskVars, histVars
<1> QED BY <1>1, ConnectionType, VoiceType, ModerationType, CommitType, RefreshType
        DEF Next

(* Every variable keeps its type, whatever the constants: in particular the *)
(* mute and deafen sets hold server-and-user keys only.                     *)
THEOREM TypeCorrect == Spec => []TypeOK
BY InitType, NextType, PTL DEF Spec

-----------------------------------------------------------------------------
(* Seats, sockets and the recorded room. *)

(* The seats are right at first. *)
LEMMA InitSeats == Init => SeatInv
BY DEF Init, SeatInv, SeatSocketInRoom, GhostOnlyFromLateJoin,
       RecordedRoomIsSeated, SocketsOpened, Seated

(* A step that changes no more of a seat than its mute and deafen.          *)
LEMMA SeatFrame ==
    ASSUME TypeOK, SeatInv, joins' \subseteq joins,
           UNCHANGED <<sockState, inVoice, userVoiceChannel, late>>,
           \A u \in Users, c \in Channels :
               /\ Seated(c, u)' <=> Seated(c, u)
               /\ Seated(c, u) => seat'[u][c].socket = seat[u][c].socket
    PROVE  SeatInv'
<1>1. ASSUME NEW u \in Users, NEW c \in Channels, Seated(c, u)'
      PROVE  Seated(c, u) /\ seat'[u][c].socket = seat[u][c].socket
  BY <1>1
<1>2. SeatSocketInRoom'
  BY <1>1 DEF SeatInv, SeatSocketInRoom
<1>3. GhostOnlyFromLateJoin' /\ SocketsOpened'
  BY <1>1 DEF SeatInv, GhostOnlyFromLateJoin, SocketsOpened
<1>4. RecordedRoomIsSeated'
  BY DEF SeatInv, RecordedRoomIsSeated, TypeOK
<1> QED BY <1>2, <1>3, <1>4 DEF SeatInv

(* A connection keeps the seats right. *)
LEMMA ConnectSeats ==
    ASSUME TypeOK, SeatInv, NEW s \in Sockets, Connect(s) PROVE SeatInv'
<1>1. /\ sockState[s] = "new"
      /\ sockState' = [sockState EXCEPT ![s] = "live"]
      /\ UNCHANGED <<inVoice, seat, userVoiceChannel, late, joins>>
  BY DEF Connect, seatVars, taskVars, histVars
<1>2. \A u \in Users, c \in Channels :
        Seated(c, u) => /\ seat[u][c].socket \in Sockets \ {s}
                        /\ sockState'[seat[u][c].socket] = sockState[seat[u][c].socket]
  BY <1>1, SeatType DEF TypeOK, SeatInv, SocketsOpened, Seated
<1>3. \A j \in joins : j.socket \in Sockets
  BY DEF TypeOK, Join
<1>4. SeatSocketInRoom' /\ GhostOnlyFromLateJoin' /\ RecordedRoomIsSeated'
  BY <1>1, <1>2 DEF SeatInv, SeatSocketInRoom, GhostOnlyFromLateJoin,
                    RecordedRoomIsSeated, Seated
<1>5. SocketsOpened'
  BY <1>1, <1>2, <1>3 DEF TypeOK, SeatInv, SocketsOpened, Seated
<1> QED BY <1>4, <1>5 DEF SeatInv

(* A disconnect keeps the seats right. *)
LEMMA DisconnectSeats ==
    ASSUME TypeOK, SeatInv, NEW s \in Sockets, Disconnect(s) PROVE SeatInv'
<1> DEFINE o == OwnerOf[s]
<1>1. o \in Users
  OBVIOUS
<1>2. /\ sockState' = [sockState EXCEPT ![s] = "gone"]
      /\ inVoice' = [inVoice EXCEPT ![s] = {}]
      /\ UNCHANGED <<late, joins>>
  BY DEF Disconnect, taskVars, histVars
<1>3. \A u \in Users, c \in Channels : seat'[u][c] =
        IF u = o /\ SeatTakenBy(c, s) THEN None ELSE seat[u][c]
  BY <1>1 DEF Disconnect, HeldBy, TypeOK
<1>4. \A u \in Users, c \in Channels : Seated(c, u)' =>
        /\ Seated(c, u) /\ seat'[u][c] = seat[u][c]
        /\ seat[u][c].socket \in Sockets \ {s}
  BY <1>3, SeatType DEF Seated, SeatTakenBy, SeatInv, SeatSocketInRoom
<1>5. SeatSocketInRoom' /\ GhostOnlyFromLateJoin'
  BY <1>2, <1>4 DEF TypeOK, SeatInv, SeatSocketInRoom, GhostOnlyFromLateJoin, Seated
<1>6. SocketsOpened'
  BY <1>2, <1>4 DEF TypeOK, Join, SeatInv, SocketsOpened, Seated
<1>7. RecordedRoomIsSeated'
  <2> SUFFICES ASSUME NEW u \in Users, userVoiceChannel'[u] # None
               PROVE  Seated(userVoiceChannel[u], u)'
                      /\ userVoiceChannel'[u] = userVoiceChannel[u]
    BY DEF RecordedRoomIsSeated, Seated
  <2>1. userVoiceChannel[u] \in Channels /\ userVoiceChannel'[u] = userVoiceChannel[u]
        /\ (u = o => ~SeatTakenBy(userVoiceChannel[u], s))
    BY <1>1 DEF Disconnect, ChannelAfterFreeing, HeldBy, TypeOK
  <2> QED BY <1>3, <2>1 DEF SeatInv, RecordedRoomIsSeated, Seated
<1> QED BY <1>5, <1>6, <1>7 DEF SeatInv

(* The first half of a join keeps the seats right. *)
LEMMA JoinReadSeats ==
    ASSUME TypeOK, SeatInv, NEW s \in Sockets, NEW c \in Channels,
           NEW m \in SelfStates, NEW d \in SelfStates, JoinRead(s, c, m, d)
    PROVE  SeatInv'
<1>1. UNCHANGED <<sockState, inVoice, seat, userVoiceChannel, late>>
      /\ sockState[s] # "new"
  BY DEF JoinRead, connVars, seatVars, histVars
<1>2. \A j \in joins' : sockState[j.socket] # "new"
  BY <1>1 DEF JoinRead, SeatInv, SocketsOpened
<1> QED BY <1>1, <1>2 DEF SeatInv, SeatSocketInRoom, GhostOnlyFromLateJoin,
                          RecordedRoomIsSeated, SocketsOpened, Seated

(* The second half of a join keeps the seats right. *)
LEMMA JoinCompleteSeats ==
    ASSUME TypeOK, SeatInv, NEW j \in joins, JoinComplete(j) PROVE SeatInv'
<1> DEFINE s == j.socket
           o == OwnerOf[s]
           k == j.channel
           prev == userVoiceChannel[o]
<1>1. s \in Sockets /\ o \in Users /\ k \in Channels /\ sockState[s] \in {"live", "gone"}
  BY DEF TypeOK, Join, SeatInv, SocketsOpened
<1>2. /\ UNCHANGED sockState
      /\ joins' \subseteq joins
      /\ inVoice' = IF sockState[s] = "gone" THEN inVoice
           ELSE [inVoice EXCEPT ![s] =
                   (IF LeavesPrevious(prev, k) THEN @ \ {prev} ELSE @) \cup {k}]
      /\ userVoiceChannel' = [userVoiceChannel EXCEPT ![o] = k]
      /\ late' = IF sockState[s] = "gone" THEN late \cup {<<k, o>>} ELSE late \ {<<k, o>>}
  BY DEF JoinComplete
<1>3. /\ seat'[o][k].socket = s /\ seat'[o][k] \in Seat
      /\ \A u \in Users, c \in Channels : Seated(c, u)' /\ <<c, u>> # <<k, o>> =>
           /\ seat'[u][c] = seat[u][c]
           /\ Seated(c, u)
           /\ ~(LeavesPrevious(prev, k) /\ c = prev /\ seat[u][c].socket = s)
  <2>3. ASSUME NEW u \in Users, NEW c \in Channels, Seated(c, u)', <<c, u>> # <<k, o>>
        PROVE  /\ seat'[u][c] = seat[u][c]
               /\ Seated(c, u)
               /\ ~(LeavesPrevious(prev, k) /\ c = prev /\ seat[u][c].socket = s)
    <3>1. CASE u # o
      <4>1. seat'[u] = seat[u]
        BY <1>1, <3>1 DEF JoinComplete, TypeOK
      <4>2. Seated(c, u)
        BY <2>3, <4>1 DEF Seated
      <4>3. OwnerOf[seat[u][c].socket] = u
        BY <4>2 DEF SeatInv, SeatSocketInRoom
      <4> QED BY <3>1, <4>1, <4>2, <4>3
    <3>2. CASE u = o
      BY <1>1, <2>3, <3>2 DEF JoinComplete, TypeOK, Seated, SeatTakenBy
    <3> QED BY <3>1, <3>2
  <2> QED BY <2>3, JoinWrites
<1> HIDE DEF o, s, k, prev
<1>4. SeatSocketInRoom'
  <2> SUFFICES ASSUME NEW u \in Users, NEW c \in Channels, Seated(c, u)'
               PROVE  /\ OwnerOf[seat'[u][c].socket] = u
                      /\ sockState'[seat'[u][c].socket] = "live"
                           => c \in inVoice'[seat'[u][c].socket]
    BY DEF SeatSocketInRoom
  <2>1. CASE <<c, u>> = <<k, o>>
    BY <1>1, <1>2, <1>3, <2>1 DEF TypeOK, o
  <2>2. CASE <<c, u>> # <<k, o>>
    <3>1. /\ seat'[u][c] = seat[u][c] /\ seat[u][c].socket \in Sockets
          /\ OwnerOf[seat[u][c].socket] = u
          /\ sockState[seat[u][c].socket] = "live" => c \in inVoice[seat[u][c].socket]
      BY <1>3, <2>2, SeatType DEF SeatInv, SeatSocketInRoom, Seated
    <3> QED BY <1>1, <1>2, <1>3, <2>2, <3>1 DEF TypeOK
  <2> QED BY <2>1, <2>2
<1>5. GhostOnlyFromLateJoin' /\ SocketsOpened'
  <2>1. ASSUME NEW u \in Users, NEW c \in Channels, Seated(c, u)'
        PROVE  /\ sockState[seat'[u][c].socket] # "live" => <<c, u>> \in late'
               /\ sockState[seat'[u][c].socket] # "new"
    <3>1. CASE <<c, u>> = <<k, o>>
      BY <1>1, <1>2, <1>3, <3>1
    <3>2. CASE <<c, u>> # <<k, o>>
      BY <1>2, <1>3, <2>1, <3>2 DEF SeatInv, GhostOnlyFromLateJoin, SocketsOpened
    <3> QED BY <3>1, <3>2
  <2> QED BY <1>2, <2>1 DEF SeatInv, GhostOnlyFromLateJoin, SocketsOpened
<1>6. RecordedRoomIsSeated'
  <2> SUFFICES ASSUME NEW u \in Users, userVoiceChannel'[u] # None
               PROVE  seat'[u][userVoiceChannel'[u]] # None
    BY DEF RecordedRoomIsSeated, Seated
  <2>1. CASE u = o
    BY <1>1, <1>2, <1>3, <2>1 DEF TypeOK, Seat
  <2>2. CASE u # o
    <3>1. userVoiceChannel'[u] = userVoiceChannel[u]
      BY <1>1, <1>2, <2>2 DEF TypeOK
    <3>2. seat'[u] = seat[u]
      BY <1>1, <2>2 DEF JoinComplete, TypeOK, o, s
    <3> QED BY <3>1, <3>2 DEF SeatInv, RecordedRoomIsSeated, Seated
  <2> QED BY <2>1, <2>2
<1> QED BY <1>4, <1>5, <1>6 DEF SeatInv

(* Freeing the seat of o in k: every other seat stays, its socket (whoever  *)
(* left the room) still in its channel's room, and the recorded room is     *)
(* cleared if it was k.                                                     *)
LEMMA FreeingSeats ==
    ASSUME TypeOK, SeatInv, NEW o \in Users, NEW k \in Channels,
           sockState' = sockState, late' = late, joins' \subseteq joins,
           seat' = [seat EXCEPT ![o] = [seat[o] EXCEPT ![k] = None]],
           userVoiceChannel' = [userVoiceChannel EXCEPT ![o] =
                                  ChannelAfterFreeing(o, {k})],
           \A s \in Sockets, c \in Channels : c \in inVoice[s] =>
               c \in inVoice'[s] \/ (c = k /\ OwnerOf[s] = o)
    PROVE  SeatInv'
<1>1. ASSUME NEW u \in Users, NEW c \in Channels, Seated(c, u)'
      PROVE  /\ Seated(c, u) /\ seat'[u][c] = seat[u][c] /\ <<c, u>> # <<k, o>>
             /\ seat[u][c].socket \in Sockets
  <2>1. Seated(c, u) /\ seat'[u][c] = seat[u][c] /\ <<c, u>> # <<k, o>>
    BY <1>1 DEF Seated, TypeOK
  <2> QED BY <2>1, SeatType DEF Seated
<1>2. SeatSocketInRoom'
  <2> SUFFICES ASSUME NEW u \in Users, NEW c \in Channels, Seated(c, u)'
               PROVE  /\ OwnerOf[seat'[u][c].socket] = u
                      /\ sockState'[seat'[u][c].socket] = "live"
                           => c \in inVoice'[seat'[u][c].socket]
    BY DEF SeatSocketInRoom
  <2> QED BY <1>1 DEF SeatInv, SeatSocketInRoom
<1>3. GhostOnlyFromLateJoin' /\ SocketsOpened'
  BY <1>1 DEF SeatInv, GhostOnlyFromLateJoin, SocketsOpened
<1>4. RecordedRoomIsSeated'
  BY DEF SeatInv, RecordedRoomIsSeated, TypeOK, ChannelAfterFreeing, Seated
<1> QED BY <1>2, <1>3, <1>4 DEF SeatInv

(* Leaving keeps the seats right. *)
LEMMA LeaveSeats ==
    ASSUME TypeOK, SeatInv, NEW s \in Sockets, NEW c \in Channels, Leave(s, c)
    PROVE  SeatInv'
<1>1. /\ OwnerOf[s] \in Users
      /\ inVoice' = [inVoice EXCEPT ![s] = @ \ {c}]
      /\ UNCHANGED <<sockState, late, joins>>
  BY DEF Leave, histVars, taskVars
<1>2. CASE SeatTakenBy(c, s)
  <2>1. /\ seat' = [seat EXCEPT ![OwnerOf[s]] = [seat[OwnerOf[s]] EXCEPT ![c] = None]]
        /\ userVoiceChannel' = [userVoiceChannel EXCEPT ![OwnerOf[s]] =
                                  ChannelAfterFreeing(OwnerOf[s], {c})]
    BY <1>2 DEF Leave
  <2>2. \A t \in Sockets, d \in Channels : d \in inVoice[t] =>
          d \in inVoice'[t] \/ (d = c /\ OwnerOf[t] = OwnerOf[s])
    BY <1>1 DEF TypeOK
  <2> QED BY <1>1, <2>1, <2>2, FreeingSeats
<1>3. CASE ~SeatTakenBy(c, s)
  <2>1. UNCHANGED <<seat, userVoiceChannel>>
    BY <1>3 DEF Leave, seatVars
  <2>2. ASSUME NEW u \in Users, NEW d \in Channels, Seated(d, u)
        PROVE  seat[u][d].socket \in Sockets /\ ~(d = c /\ seat[u][d].socket = s)
    BY <1>3, <2>2, SeatType DEF Seated, SeatTakenBy, SeatInv, SeatSocketInRoom
  <2>3. SeatSocketInRoom'
    BY <1>1, <2>1, <2>2 DEF SeatInv, SeatSocketInRoom, Seated, TypeOK
  <2> QED BY <1>1, <2>1, <2>3 DEF SeatInv, GhostOnlyFromLateJoin,
                                  RecordedRoomIsSeated, SocketsOpened, Seated
<1> QED BY <1>2, <1>3

(* An eviction keeps the seats right. *)
LEMMA EvictSeats ==
    ASSUME TypeOK, SeatInv, NEW u \in Users, NEW c \in Channels, Evict(c, u),
           late' = late, joins' \subseteq joins
    PROVE  SeatInv'
<1>1. \A s \in Sockets, d \in Channels : d \in inVoice[s] =>
        d \in inVoice'[s] \/ (d = c /\ OwnerOf[s] = u)
  BY DEF Evict, UserSockets, TypeOK
<1> QED BY <1>1, FreeingSeats DEF Evict

(* A move keeps the seats right. *)
LEMMA MoveSeats == ASSUME TypeOK, SeatInv, NEW m \in mods, Move(m) PROVE SeatInv'
<1> DEFINE o == m.user
           from == m.channel
           entry == seat[o][from]
           moves == /\ entry # None
                    /\ sockState[entry.socket] = "live"
                    /\ from \in inVoice[entry.socket]
<1>1. o \in Users /\ from \in Channels /\ m.to \in Channels
  BY ModTypes DEF Move, TypeOK
<1>2. joins' = joins
  BY DEF Move, ModDone
<1>3. CASE ~moves
  BY <1>2, <1>3, SeatFrame DEF Move, connVars, seatVars, histVars, Seated
<1>4. CASE moves
  <2>1. /\ inVoice' = [inVoice EXCEPT ![entry.socket] = RoomsAfterMove(@, from, m.to)]
        /\ seat' = [seat EXCEPT ![o] = [seat[o] EXCEPT ![from] = None, ![m.to] = entry]]
        /\ userVoiceChannel' = [userVoiceChannel EXCEPT ![o] = m.to]
        /\ late' = late \ {<<m.to, o>>}
        /\ UNCHANGED sockState
    BY <1>4 DEF Move
  <2>2. /\ entry \in Seat /\ entry.socket \in Sockets /\ OwnerOf[entry.socket] = o
        /\ sockState[entry.socket] = "live" /\ entry # None
    BY <1>1, <1>4, SeatType DEF SeatInv, SeatSocketInRoom, Seated
  <2> DEFINE t == entry.socket
  <2> HIDE DEF entry, o, from
  <2>3. ASSUME NEW u \in Users, NEW c \in Channels, Seated(c, u)'
        PROVE  \/ <<c, u>> = <<m.to, o>> /\ seat'[u][c] = entry
               \/ /\ <<c, u>> # <<m.to, o>> /\ <<c, u>> # <<from, o>>
                  /\ Seated(c, u) /\ seat'[u][c] = seat[u][c]
                  /\ seat[u][c].socket \in Sockets
                  /\ OwnerOf[seat[u][c].socket] = u
    <3>1. \/ <<c, u>> = <<m.to, o>> /\ seat'[u][c] = entry
          \/ /\ <<c, u>> # <<m.to, o>> /\ <<c, u>> # <<from, o>>
             /\ Seated(c, u) /\ seat'[u][c] = seat[u][c]
      BY <1>1, <2>1, <2>3 DEF Seated, TypeOK
    <3> QED BY <3>1, SeatType DEF SeatInv, SeatSocketInRoom, Seated
  <2>4. SeatSocketInRoom'
    <3> SUFFICES ASSUME NEW u \in Users, NEW c \in Channels, Seated(c, u)'
                 PROVE  /\ OwnerOf[seat'[u][c].socket] = u
                        /\ sockState'[seat'[u][c].socket] = "live"
                             => c \in inVoice'[seat'[u][c].socket]
      BY DEF SeatSocketInRoom
    <3>1. CASE <<c, u>> = <<m.to, o>> /\ seat'[u][c] = entry
      BY <1>1, <2>1, <2>2, <3>1 DEF RoomsAfterMove, TypeOK
    <3>2. CASE /\ <<c, u>> # <<m.to, o>> /\ <<c, u>> # <<from, o>>
               /\ Seated(c, u) /\ seat'[u][c] = seat[u][c]
               /\ seat[u][c].socket \in Sockets
               /\ OwnerOf[seat[u][c].socket] = u
      BY <2>1, <2>2, <3>2 DEF RoomsAfterMove, TypeOK, SeatInv, SeatSocketInRoom
    <3> QED BY <2>3, <3>1, <3>2
  <2>5. GhostOnlyFromLateJoin' /\ SocketsOpened'
    <3>1. ASSUME NEW u \in Users, NEW c \in Channels, Seated(c, u)'
          PROVE  /\ sockState[seat'[u][c].socket] # "live" => <<c, u>> \in late'
                 /\ sockState[seat'[u][c].socket] # "new"
      BY <2>1, <2>2, <2>3, <3>1 DEF SeatInv, GhostOnlyFromLateJoin, SocketsOpened
    <3> QED BY <1>2, <2>1, <3>1 DEF SeatInv, GhostOnlyFromLateJoin, SocketsOpened
  <2>6. RecordedRoomIsSeated'
    <3> SUFFICES ASSUME NEW u \in Users, userVoiceChannel'[u] # None
                 PROVE  seat'[u][userVoiceChannel'[u]] # None
      BY DEF RecordedRoomIsSeated, Seated
    <3>1. CASE u = o
      BY <1>1, <2>1, <2>2, <3>1 DEF TypeOK
    <3>2. CASE u # o
      BY <1>1, <2>1, <3>2 DEF TypeOK, SeatInv, RecordedRoomIsSeated, Seated
    <3> QED BY <3>1, <3>2
  <2> QED BY <2>4, <2>5, <2>6 DEF SeatInv
<1> QED BY <1>3, <1>4

(* The voice handlers keep the seats right. *)
LEMMA VoiceSeats == TypeOK /\ SeatInv /\ VoiceStep => SeatInv'
<1> SUFFICES ASSUME TypeOK, SeatInv, VoiceStep PROVE SeatInv'
  OBVIOUS
<1>1. ASSUME NEW s \in Sockets, NEW c \in Channels, NEW on \in SelfStates,
             SelfMute(s, c, on) \/ SelfDeafen(s, c, on)
      PROVE  SeatInv'
  <2>1. \A u \in Users, d \in Channels :
          /\ Seated(d, u)' <=> Seated(d, u)
          /\ Seated(d, u) => seat'[u][d].socket = seat[u][d].socket
    <3>1. OwnerOf[s] \in Users /\ Seated(c, OwnerOf[s]) /\ on \in BOOLEAN
      BY <1>1 DEF SelfMute, SelfDeafen, Seated
    <3>2. PICK new \in Seat :
            /\ new.socket = seat[OwnerOf[s]][c].socket
            /\ seat' = [seat EXCEPT ![OwnerOf[s]] = [seat[OwnerOf[s]] EXCEPT ![c] = new]]
      <4>1. CASE SelfMute(s, c, on)
        BY <3>1, <4>1, SeatType, SeatWithType DEF SelfMute, SeatWith, Seated
      <4>2. CASE SelfDeafen(s, c, on)
        BY <3>1, <4>2, SeatType, SeatWithType DEF SelfDeafen, SeatWith, Seated
      <4> QED BY <1>1, <4>1, <4>2
    <3> QED BY <3>1, <3>2 DEF TypeOK, Seated, Seat
  <2> QED BY <1>1, <2>1, SeatFrame
          DEF SelfMute, SelfDeafen, connVars, taskVars, histVars
<1> QED BY <1>1, LeaveSeats, JoinReadSeats, JoinCompleteSeats DEF VoiceStep

(* Moderation keeps the seats right. *)
LEMMA ModerationSeats == TypeOK /\ SeatInv /\ ModerationStep => SeatInv'
<1> SUFFICES ASSUME TypeOK, SeatInv, ModerationStep PROVE SeatInv'
  OBVIOUS
<1>1. ASSUME NEW m \in Mod, ModRead(m) PROVE SeatInv'
  BY <1>1, SeatFrame DEF ModRead, connVars, seatVars, histVars, Seated
<1>2. ASSUME NEW m \in mods, ServerMute(m) \/ ServerDeafen(m) PROVE SeatInv'
  <2> DEFINE entry == seat[m.user][m.channel]
  <2>1. m.channel \in Channels /\ m.user \in Users
    BY ModTypes DEF TypeOK
  <2>2. \A u \in Users, d \in Channels :
          /\ Seated(d, u)' <=> Seated(d, u)
          /\ Seated(d, u) => seat'[u][d].socket = seat[u][d].socket
    <3>1. CASE entry # None /\ m.on
      <4>1. PICK new \in Seat :
              /\ new.socket = entry.socket
              /\ seat' = [seat EXCEPT ![m.user] =
                            [seat[m.user] EXCEPT ![m.channel] = new]]
        BY <1>2, <2>1, <3>1, SeatType, SeatWithType
           DEF ServerMute, ServerDeafen, SeatWith
      <4> QED BY <2>1, <3>1, <4>1 DEF TypeOK, Seated, Seat
    <3>2. CASE ~(entry # None /\ m.on)
      BY <1>2, <3>2 DEF ServerMute, ServerDeafen, Seated
    <3> QED BY <3>1, <3>2
  <2> QED BY <1>2, <2>2, SeatFrame
          DEF ServerMute, ServerDeafen, ModDone, connVars, histVars
<1>3. ASSUME NEW m \in mods, Kick(m) PROVE SeatInv'
  <2>1. m.channel \in Channels /\ m.user \in Users
    BY ModTypes DEF TypeOK
  <2>2. CASE seat[m.user][m.channel] # None
    BY <1>3, <2>1, <2>2, EvictSeats DEF Kick, ModDone, histVars
  <2>3. CASE seat[m.user][m.channel] = None
    BY <1>3, <2>3, SeatFrame DEF Kick, ModDone, connVars, seatVars, histVars, Seated
  <2> QED BY <2>2, <2>3
<1> QED BY <1>1, <1>2, <1>3, MoveSeats DEF ModerationStep

(* The commits of the routes touch no seat. *)
LEMMA CommitSeats == TypeOK /\ SeatInv /\ CommitStep => SeatInv'
BY SeatFrame DEF CommitStep, RemoveMember, AddMember, SetAudience,
                 connVars, seatVars, histVars, taskVars, Seated

(* The refreshes keep the seats right. *)
LEMMA RefreshSeats == TypeOK /\ SeatInv /\ RefreshStep => SeatInv'
<1> SUFFICES ASSUME TypeOK, SeatInv, RefreshStep PROVE SeatInv'
  OBVIOUS
<1>1. ASSUME NEW e \in evictions, EvictRevoked(e) PROVE SeatInv'
  <2>1. e[1] \in Channels /\ e[2] \in Users
    BY DEF TypeOK
  <2> QED BY <1>1, <2>1, EvictSeats DEF EvictRevoked, histVars
<1>2. ASSUME NEW n \in notices,
             SweepChannel(n) \/ RefreshMembership(n) \/ ScanJoinedChannels(n)
      PROVE  SeatInv'
  BY <1>2, SeatFrame DEF SweepChannel, RefreshMembership, ScanJoinedChannels,
                         connVars, seatVars, histVars, Seated
<1>3. ASSUME NEW r \in refreshes, RefreshMemberApply(r) PROVE SeatInv'
  BY <1>3, SeatFrame DEF RefreshMemberApply, connVars, seatVars, histVars, Seated
<1> QED BY <1>1, <1>2, <1>3 DEF RefreshStep

(* Every step keeps the seats right. *)
LEMMA NextSeats == TypeOK /\ SeatInv /\ [Next]_vars => SeatInv'
<1>1. TypeOK /\ SeatInv /\ UNCHANGED vars => SeatInv'
  BY SeatFrame DEF vars, connVars, seatVars, flagVars, dbVars, taskVars, histVars, Seated
<1>2. TypeOK /\ SeatInv /\ ConnectionStep => SeatInv'
  BY ConnectSeats, DisconnectSeats DEF ConnectionStep
<1> QED BY <1>1, <1>2, VoiceSeats, ModerationSeats, CommitSeats, RefreshSeats DEF Next

(* The inductive invariant of the seats holds in every reachable state. *)
LEMMA SeatInvariant == Spec => []SeatInv
BY InitSeats, NextSeats, TypeCorrect, PTL DEF Spec

(* Whatever tabs, joins, moves, kicks and revocations do, the connected tab *)
(* a seat names is in the channel's Socket.IO room.                         *)
THEOREM SeatsReachable == Spec => []SeatSocketInRoom
BY SeatInvariant, PTL DEF SeatInv

(* A seat whose tab has gone was written by a voice:join that finished      *)
(* after the disconnect: no other handler leaves a ghost seat.              *)
THEOREM GhostsAreLateJoins == Spec => []GhostOnlyFromLateJoin
BY SeatInvariant, PTL DEF SeatInv

(* The room recorded for a user is one they are seated in.                  *)
THEOREM RecordedRooms == Spec => []RecordedRoomIsSeated
BY SeatInvariant, PTL DEF SeatInv
-----------------------------------------------------------------------------
(* One tab, one room. *)

(* A user's seats all name an opened tab of theirs. *)
LEMMA SeatedTabOpened ==
    ASSUME TypeOK, SeatInv, NEW u \in Users, NEW c \in Channels, Seated(c, u)
    PROVE  seat[u][c].socket \in OpenedBy(u)
BY SeatType DEF SeatInv, SeatSocketInRoom, SocketsOpened, OpenedBy, Seated

(* A step that opens no tab, and moves the recorded room no more than the   *)
(* seats of the user follow it.                                             *)
LEMMA OneTabFrame ==
    ASSUME OneTabOneRoom,
           \A s \in Sockets : sockState[s] # "new" => sockState'[s] # "new",
           \A u \in Users, c \in Channels : Seated(c, u)' =>
               /\ Seated(c, u)
               /\ userVoiceChannel[u] = c => userVoiceChannel'[u] = c
    PROVE  OneTabOneRoom'
BY DEF OneTabOneRoom, OpenedBy

(* Rewriting a seat that is taken seats nobody anew. *)
LEMMA SeatRewritten ==
    ASSUME TypeOK, NEW o \in Users, NEW k \in Channels, Seated(k, o), NEW new,
           seat' = [seat EXCEPT ![o] = [seat[o] EXCEPT ![k] = new]]
    PROVE  \A u \in Users, c \in Channels : Seated(c, u)' => Seated(c, u)
BY DEF Seated, TypeOK

(* A seat given up leaves a single tab in one room at most. *)
LEMMA FreeingOneTab ==
    ASSUME TypeOK, OneTabOneRoom, NEW o \in Users, NEW k \in Channels,
           sockState' = sockState,
           seat' = [seat EXCEPT ![o] = [seat[o] EXCEPT ![k] = None]],
           userVoiceChannel' = [userVoiceChannel EXCEPT ![o] =
                                  ChannelAfterFreeing(o, {k})]
    PROVE  OneTabOneRoom'
<1>1. ASSUME NEW u \in Users, NEW c \in Channels, Seated(c, u)'
      PROVE  Seated(c, u) /\ (userVoiceChannel[u] = c => userVoiceChannel'[u] = c)
  BY <1>1 DEF Seated, TypeOK, ChannelAfterFreeing
<1> QED BY <1>1, OneTabFrame

(* Connections keep a single tab in one room. *)
LEMMA ConnectionOneTab ==
    TypeOK /\ SeatInv /\ OneTabOneRoom /\ ConnectionStep => OneTabOneRoom'
<1> SUFFICES ASSUME TypeOK, SeatInv, OneTabOneRoom, NEW s \in Sockets,
                    Connect(s) \/ Disconnect(s)
             PROVE  OneTabOneRoom'
  BY DEF ConnectionStep
<1>1. OwnerOf[s] \in Users
  OBVIOUS
<1>2. CASE Connect(s)
  <2>1. /\ sockState[s] = "new" /\ sockState' = [sockState EXCEPT ![s] = "live"]
        /\ UNCHANGED <<seat, userVoiceChannel>>
    BY <1>2 DEF Connect, seatVars
  <2> SUFFICES ASSUME NEW u \in Users, NEW c \in Channels, Seated(c, u)',
                      \A t, w \in OpenedBy(u)' : t = w
               PROVE  userVoiceChannel'[u] = c
    BY DEF OneTabOneRoom
  <2>2. Seated(c, u)
    BY <2>1 DEF Seated
  <2>3. OpenedBy(u) \subseteq OpenedBy(u)'
    BY <2>1 DEF OpenedBy, TypeOK
  <2> QED BY <2>1, <2>2, <2>3 DEF OneTabOneRoom
<1>3. CASE Disconnect(s)
  <2>1. \A t \in Sockets : sockState[t] # "new" => sockState'[t] # "new"
    BY <1>3 DEF Disconnect, TypeOK
  <2> SUFFICES ASSUME NEW u \in Users, NEW c \in Channels, Seated(c, u)',
                      \A t, w \in OpenedBy(u)' : t = w
               PROVE  userVoiceChannel'[u] = c
    BY DEF OneTabOneRoom
  <2>2. Seated(c, u) /\ (u = OwnerOf[s] => ~SeatTakenBy(c, s))
    BY <1>1, <1>3 DEF Disconnect, HeldBy, Seated, TypeOK
  <2>3. \A t, w \in OpenedBy(u) : t = w
    BY <2>1 DEF OpenedBy
  <2>4. u # OwnerOf[s]
    <3> SUFFICES ASSUME u = OwnerOf[s] PROVE FALSE
      OBVIOUS
    <3>1. s \in OpenedBy(u) /\ seat[u][c].socket \in OpenedBy(u)
      BY <1>3, <2>2, SeatedTabOpened DEF Disconnect, OpenedBy
    <3>2. seat[u][c].socket = s
      BY <2>3, <3>1
    <3> QED BY <2>2, <3>2 DEF SeatTakenBy, Seated
  <2>5. userVoiceChannel'[u] = userVoiceChannel[u]
    BY <1>1, <1>3, <2>4 DEF Disconnect, TypeOK
  <2> QED BY <2>2, <2>3, <2>5 DEF OneTabOneRoom
<1> QED BY <1>2, <1>3

(* A join keeps a single tab in one room: the recorded room is the only other, and is
   left. *)
LEMMA JoinCompleteOneTab ==
    ASSUME TypeOK, SeatInv, OneTabOneRoom, NEW j \in joins, JoinComplete(j)
    PROVE  OneTabOneRoom'
<1> DEFINE s == j.socket
           o == OwnerOf[s]
           k == j.channel
           prev == userVoiceChannel[o]
<1>1. s \in Sockets /\ o \in Users /\ k \in Channels /\ sockState[s] # "new"
  BY DEF TypeOK, Join, SeatInv, SocketsOpened
<1>2. sockState' = sockState
      /\ userVoiceChannel' = [userVoiceChannel EXCEPT ![o] = k]
  BY DEF JoinComplete
<1> SUFFICES ASSUME NEW u \in Users, NEW c \in Channels, Seated(c, u)',
                    \A t, w \in OpenedBy(u)' : t = w
             PROVE  userVoiceChannel'[u] = c
  BY DEF OneTabOneRoom
<1>3. \A t, w \in OpenedBy(u) : t = w
  BY <1>2 DEF OpenedBy
<1>4. CASE u # o
  <2>1. seat'[u] = seat[u]
    BY <1>1, <1>4 DEF JoinComplete, TypeOK
  <2> QED BY <1>1, <1>2, <1>3, <1>4, <2>1 DEF TypeOK, OneTabOneRoom, Seated
<1>5. CASE u = o
  <2>1. userVoiceChannel'[u] = k
    BY <1>1, <1>2, <1>5 DEF TypeOK
  <2>2. ASSUME c # k PROVE FALSE
    <3>1. /\ Seated(c, u)
          /\ ~(LeavesPrevious(prev, k) /\ c = prev /\ SeatTakenBy(c, s))
      BY <1>1, <1>5, <2>2 DEF JoinComplete, TypeOK, Seated
    <3>2. c = prev /\ prev # None
      BY <1>3, <1>5, <3>1 DEF OneTabOneRoom
    <3>3. s \in OpenedBy(u) /\ seat[u][c].socket \in OpenedBy(u)
      BY <1>1, <1>5, <3>1, SeatedTabOpened DEF OpenedBy
    <3>4. seat[u][c].socket = s
      BY <1>3, <3>3
    <3>5. SeatTakenBy(c, s)
      BY <1>5, <3>1, <3>4 DEF SeatTakenBy, Seated
    <3> QED BY <2>2, <3>1, <3>2, <3>5 DEF LeavesPrevious
  <2> QED BY <2>1, <2>2
<1> QED BY <1>4, <1>5

(* The voice handlers keep a single tab in one room. *)
LEMMA VoiceOneTab ==
    TypeOK /\ SeatInv /\ OneTabOneRoom /\ VoiceStep => OneTabOneRoom'
<1> SUFFICES ASSUME TypeOK, SeatInv, OneTabOneRoom, VoiceStep PROVE OneTabOneRoom'
  OBVIOUS
<1>1. ASSUME NEW s \in Sockets, NEW c \in Channels, Leave(s, c) PROVE OneTabOneRoom'
  <2>1. OwnerOf[s] \in Users /\ sockState' = sockState
    BY <1>1 DEF Leave
  <2>2. CASE SeatTakenBy(c, s)
    <3>1. /\ seat' = [seat EXCEPT ![OwnerOf[s]] =
                        [seat[OwnerOf[s]] EXCEPT ![c] = None]]
          /\ userVoiceChannel' = [userVoiceChannel EXCEPT ![OwnerOf[s]] =
                                    ChannelAfterFreeing(OwnerOf[s], {c})]
      BY <1>1, <2>2 DEF Leave
    <3> QED BY <2>1, <3>1, FreeingOneTab
  <2>3. CASE ~SeatTakenBy(c, s)
    BY <1>1, <2>1, <2>3, OneTabFrame DEF Leave, seatVars, Seated
  <2> QED BY <2>2, <2>3
<1>2. ASSUME NEW s \in Sockets, NEW c \in Channels, NEW on \in SelfStates,
             SelfMute(s, c, on) \/ SelfDeafen(s, c, on)
      PROVE  OneTabOneRoom'
  <2>1. OwnerOf[s] \in Users /\ Seated(c, OwnerOf[s])
    BY <1>2 DEF SelfMute, SelfDeafen, Seated
  <2>2. PICK new : seat' = [seat EXCEPT ![OwnerOf[s]] =
                              [seat[OwnerOf[s]] EXCEPT ![c] = new]]
    BY <1>2 DEF SelfMute, SelfDeafen
  <2>3. \A u \in Users, d \in Channels : Seated(d, u)' => Seated(d, u)
    BY <2>1, <2>2, SeatRewritten
  <2> QED BY <1>2, <2>3, OneTabFrame DEF SelfMute, SelfDeafen, connVars
<1>3. ASSUME NEW s \in Sockets, NEW c \in Channels, NEW m \in SelfStates,
             NEW d \in SelfStates, JoinRead(s, c, m, d)
      PROVE  OneTabOneRoom'
  BY <1>3, OneTabFrame DEF JoinRead, connVars, seatVars, Seated
<1> QED BY <1>1, <1>2, <1>3, JoinCompleteOneTab DEF VoiceStep

(* A move keeps a single tab in one room. *)
LEMMA MoveOneTab ==
    ASSUME TypeOK, SeatInv, OneTabOneRoom, NEW m \in mods, Move(m)
    PROVE  OneTabOneRoom'
<1> DEFINE o == m.user
           from == m.channel
           entry == seat[o][from]
           moves == /\ entry # None
                    /\ sockState[entry.socket] = "live"
                    /\ from \in inVoice[entry.socket]
<1>1. o \in Users /\ from \in Channels /\ m.to \in Channels
  BY ModTypes DEF Move, TypeOK
<1>2. CASE ~moves
  BY <1>2, OneTabFrame DEF Move, connVars, seatVars, Seated
<1>3. CASE moves
  <2>1. /\ seat' = [seat EXCEPT ![o] = [seat[o] EXCEPT ![from] = None, ![m.to] = entry]]
        /\ userVoiceChannel' = [userVoiceChannel EXCEPT ![o] = m.to]
        /\ UNCHANGED sockState
    BY <1>3 DEF Move
  <2>2. Seated(from, o)
    BY <1>3 DEF Seated
  <2> HIDE DEF entry, o, from
  <2> SUFFICES ASSUME NEW u \in Users, NEW c \in Channels, Seated(c, u)',
                      \A t, w \in OpenedBy(u)' : t = w
               PROVE  userVoiceChannel'[u] = c
    BY DEF OneTabOneRoom
  <2>3. \A t, w \in OpenedBy(u) : t = w
    BY <2>1 DEF OpenedBy
  <2>4. CASE u = o
    <3>1. userVoiceChannel'[u] = m.to
      BY <1>1, <2>1, <2>4 DEF TypeOK
    <3>2. c = m.to \/ (c # from /\ Seated(c, u))
      BY <1>1, <2>1, <2>4 DEF TypeOK, Seated
    <3>3. ~(c # from /\ Seated(c, u))
      BY <1>1, <2>2, <2>3, <2>4 DEF OneTabOneRoom
    <3> QED BY <3>1, <3>2, <3>3
  <2>5. CASE u # o
    BY <1>1, <2>1, <2>3, <2>5 DEF TypeOK, Seated, OneTabOneRoom
  <2> QED BY <2>4, <2>5
<1> QED BY <1>2, <1>3

(* Moderation keeps a single tab in one room. *)
LEMMA ModerationOneTab ==
    TypeOK /\ SeatInv /\ OneTabOneRoom /\ ModerationStep => OneTabOneRoom'
<1> SUFFICES ASSUME TypeOK, SeatInv, OneTabOneRoom, ModerationStep
             PROVE  OneTabOneRoom'
  OBVIOUS
<1>1. ASSUME NEW m \in Mod, ModRead(m) PROVE OneTabOneRoom'
  BY <1>1, OneTabFrame DEF ModRead, connVars, seatVars, Seated
<1>2. ASSUME NEW m \in mods, ServerMute(m) \/ ServerDeafen(m) PROVE OneTabOneRoom'
  <2>1. m.channel \in Channels /\ m.user \in Users
    BY ModTypes DEF TypeOK
  <2>2. \A u \in Users, d \in Channels : Seated(d, u)' => Seated(d, u)
    <3>1. CASE Seated(m.channel, m.user) /\ m.on
      <4>1. PICK new : seat' = [seat EXCEPT ![m.user] =
                                  [seat[m.user] EXCEPT ![m.channel] = new]]
        BY <1>2, <3>1 DEF ServerMute, ServerDeafen, Seated
      <4> QED BY <2>1, <3>1, <4>1, SeatRewritten
    <3>2. CASE ~(Seated(m.channel, m.user) /\ m.on)
      BY <1>2, <3>2 DEF ServerMute, ServerDeafen, Seated
    <3> QED BY <3>1, <3>2
  <2> QED BY <1>2, <2>2, OneTabFrame DEF ServerMute, ServerDeafen, connVars
<1>3. ASSUME NEW m \in mods, Kick(m) PROVE OneTabOneRoom'
  <2>1. m.channel \in Channels /\ m.user \in Users
    BY ModTypes DEF TypeOK
  <2>2. CASE seat[m.user][m.channel] # None
    BY <1>3, <2>1, <2>2, FreeingOneTab DEF Kick, Evict
  <2>3. CASE seat[m.user][m.channel] = None
    BY <1>3, <2>3, OneTabFrame DEF Kick, connVars, seatVars, Seated
  <2> QED BY <2>2, <2>3
<1> QED BY <1>1, <1>2, <1>3, MoveOneTab DEF ModerationStep

(* The commits of the routes touch no seat. *)
LEMMA CommitOneTab == TypeOK /\ OneTabOneRoom /\ CommitStep => OneTabOneRoom'
BY OneTabFrame DEF CommitStep, RemoveMember, AddMember, SetAudience,
                   connVars, seatVars, Seated

(* The refreshes keep a single tab in one room. *)
LEMMA RefreshOneTab == TypeOK /\ OneTabOneRoom /\ RefreshStep => OneTabOneRoom'
<1> SUFFICES ASSUME TypeOK, OneTabOneRoom, RefreshStep PROVE OneTabOneRoom'
  OBVIOUS
<1>1. ASSUME NEW e \in evictions, EvictRevoked(e) PROVE OneTabOneRoom'
  <2>1. e[1] \in Channels /\ e[2] \in Users
    BY DEF TypeOK
  <2> QED BY <1>1, <2>1, FreeingOneTab DEF EvictRevoked, Evict
<1>2. ASSUME NEW n \in notices,
             SweepChannel(n) \/ RefreshMembership(n) \/ ScanJoinedChannels(n)
      PROVE  OneTabOneRoom'
  BY <1>2, OneTabFrame DEF SweepChannel, RefreshMembership, ScanJoinedChannels,
                           connVars, seatVars, Seated
<1>3. ASSUME NEW r \in refreshes, RefreshMemberApply(r) PROVE OneTabOneRoom'
  BY <1>3, OneTabFrame DEF RefreshMemberApply, connVars, seatVars, Seated
<1> QED BY <1>1, <1>2, <1>3 DEF RefreshStep

(* A user who has only ever opened one tab sits in one room at most, and it *)
(* is the recorded one: the seats are inductive with the sockets they name. *)
THEOREM OneTabStaysInOneRoom == Spec => []OneTabOneRoom
<1>1. Init => OneTabOneRoom
  BY DEF Init, OneTabOneRoom, Seated
<1>2. TypeOK /\ SeatInv /\ OneTabOneRoom /\ UNCHANGED vars => OneTabOneRoom'
  BY OneTabFrame DEF vars, connVars, seatVars, flagVars, dbVars, taskVars, histVars, Seated
<1>3. TypeOK /\ SeatInv /\ OneTabOneRoom /\ [Next]_vars => OneTabOneRoom'
  BY <1>2, ConnectionOneTab, VoiceOneTab, ModerationOneTab, CommitOneTab, RefreshOneTab
     DEF Next
<1> QED BY <1>1, <1>3, TypeCorrect, SeatInvariant, PTL DEF Spec
-----------------------------------------------------------------------------
(* Revoked seats. *)

(* The parts of a notice. *)
LEMMA NoticeTypes ==
    ASSUME NEW n \in Notice
    PROVE  /\ n.scope = "channel" => n.channel \in Channels
           /\ n.scope \in {"member", "scan"} => n.server \in Servers /\ n.user \in Users
           /\ n.scope = "scan" => n.wasMember \in BOOLEAN
           /\ n.scope = "channel" => n = [scope |-> "channel", channel |-> n.channel]
BY DEF Notice

(* A step that seats nobody anew, revokes no access and drops no pending    *)
(* notice, refresh or eviction, except for an eviction it carries out.      *)
LEMMA OwedFrame ==
    ASSUME RevokedSeatIsOwedEviction,
           \A u \in Users, c \in Channels :
               /\ Seated(c, u)' => Seated(c, u)
               /\ Seated(c, u)' /\ <<c, u>> \in evictions => <<c, u>> \in evictions',
           notices \subseteq notices', refreshes \subseteq refreshes',
           UNCHANGED <<member, visible, stale>>
    PROVE  RevokedSeatIsOwedEviction'
BY DEF RevokedSeatIsOwedEviction, Overstays, EvictionOwed, CanView

(* The same for a step that changes one seat and says in stale whether its  *)
(* user could view the channel.                                             *)
LEMMA OwedNewSeat ==
    ASSUME RevokedSeatIsOwedEviction, NEW o \in Users, NEW k \in Channels,
           \A u \in Users, c \in Channels :
               Seated(c, u)' => Seated(c, u) \/ (c = k /\ u = o),
           stale' = IF CanView(k, o) THEN stale \ {<<k, o>>} ELSE stale \cup {<<k, o>>},
           UNCHANGED <<member, visible, notices, refreshes, evictions>>
    PROVE  RevokedSeatIsOwedEviction'
<1> SUFFICES ASSUME NEW u \in Users, NEW c \in Channels, Overstays(c, u)'
             PROVE  EvictionOwed(c, u)
  BY DEF RevokedSeatIsOwedEviction, EvictionOwed
<1>1. CanView(c, u)' = CanView(c, u)
  BY DEF CanView
<1>2. ~(c = k /\ u = o)
  BY <1>1 DEF Overstays
<1>3. Overstays(c, u)
  BY <1>1, <1>2 DEF Overstays
<1> QED BY <1>3 DEF RevokedSeatIsOwedEviction

(* Connections seat nobody and settle no refresh. *)
LEMMA ConnectionOwed ==
    TypeOK /\ RevokedSeatIsOwedEviction /\ ConnectionStep => RevokedSeatIsOwedEviction'
<1> SUFFICES ASSUME TypeOK, RevokedSeatIsOwedEviction, NEW s \in Sockets,
                    Connect(s) \/ Disconnect(s)
             PROVE  RevokedSeatIsOwedEviction'
  BY DEF ConnectionStep
<1>1. OwnerOf[s] \in Users
  OBVIOUS
<1>2. \A u \in Users, c \in Channels : Seated(c, u)' => Seated(c, u)
  BY <1>1 DEF Connect, Disconnect, seatVars, Seated, TypeOK
<1> QED BY <1>2, OwedFrame DEF Connect, Disconnect, dbVars, taskVars, histVars

(* The voice handlers leave every revoked seat owed its eviction. *)
LEMMA VoiceOwed ==
    TypeOK /\ RevokedSeatIsOwedEviction /\ VoiceStep => RevokedSeatIsOwedEviction'
<1> SUFFICES ASSUME TypeOK, RevokedSeatIsOwedEviction, VoiceStep
             PROVE  RevokedSeatIsOwedEviction'
  OBVIOUS
<1>1. ASSUME NEW s \in Sockets, NEW c \in Channels, Leave(s, c)
      PROVE  RevokedSeatIsOwedEviction'
  <2>1. OwnerOf[s] \in Users
    OBVIOUS
  <2>2. \A u \in Users, d \in Channels : Seated(d, u)' => Seated(d, u)
    BY <1>1, <2>1 DEF Leave, seatVars, Seated, TypeOK
  <2> QED BY <1>1, <2>2, OwedFrame DEF Leave, dbVars, taskVars, histVars
<1>2. ASSUME NEW s \in Sockets, NEW c \in Channels, NEW on \in SelfStates,
             SelfMute(s, c, on) \/ SelfDeafen(s, c, on)
      PROVE  RevokedSeatIsOwedEviction'
  <2>1. OwnerOf[s] \in Users /\ Seated(c, OwnerOf[s])
    BY <1>2 DEF SelfMute, SelfDeafen, Seated
  <2>2. PICK new : seat' = [seat EXCEPT ![OwnerOf[s]] =
                              [seat[OwnerOf[s]] EXCEPT ![c] = new]]
    BY <1>2 DEF SelfMute, SelfDeafen
  <2>3. \A u \in Users, d \in Channels : Seated(d, u)' => Seated(d, u)
    BY <2>1, <2>2, SeatRewritten
  <2> QED BY <1>2, <2>3, OwedFrame DEF SelfMute, SelfDeafen, dbVars, taskVars, histVars
<1>3. ASSUME NEW s \in Sockets, NEW c \in Channels, NEW m \in SelfStates,
             NEW d \in SelfStates, JoinRead(s, c, m, d)
      PROVE  RevokedSeatIsOwedEviction'
  BY <1>3, OwedFrame DEF JoinRead, seatVars, dbVars, histVars, Seated
<1>4. ASSUME NEW j \in joins, JoinComplete(j) PROVE RevokedSeatIsOwedEviction'
  <2>1. OwnerOf[j.socket] \in Users /\ j.channel \in Channels
    BY <1>4, JoinWrites
  <2>2. \A u \in Users, c \in Channels :
          Seated(c, u)' => Seated(c, u) \/ (c = j.channel /\ u = OwnerOf[j.socket])
    BY <1>4, <2>1 DEF JoinComplete, Seated, TypeOK
  <2> QED BY <1>4, <2>1, <2>2, OwedNewSeat DEF JoinComplete, dbVars
<1> QED BY <1>1, <1>2, <1>3, <1>4 DEF VoiceStep

(* Moderation leaves every revoked seat owed its eviction. *)
LEMMA ModerationOwed ==
    TypeOK /\ RevokedSeatIsOwedEviction /\ ModerationStep => RevokedSeatIsOwedEviction'
<1> SUFFICES ASSUME TypeOK, RevokedSeatIsOwedEviction, ModerationStep
             PROVE  RevokedSeatIsOwedEviction'
  OBVIOUS
<1>1. ASSUME NEW m \in Mod, ModRead(m) PROVE RevokedSeatIsOwedEviction'
  BY <1>1, OwedFrame DEF ModRead, seatVars, dbVars, histVars, Seated
<1>2. ASSUME NEW m \in mods, ServerMute(m) \/ ServerDeafen(m)
      PROVE  RevokedSeatIsOwedEviction'
  <2>1. m.channel \in Channels /\ m.user \in Users
    BY ModTypes DEF TypeOK
  <2>2. \A u \in Users, d \in Channels : Seated(d, u)' => Seated(d, u)
    <3>1. CASE Seated(m.channel, m.user) /\ m.on
      <4>1. PICK new : seat' = [seat EXCEPT ![m.user] =
                                  [seat[m.user] EXCEPT ![m.channel] = new]]
        BY <1>2, <3>1 DEF ServerMute, ServerDeafen, Seated
      <4> QED BY <2>1, <3>1, <4>1, SeatRewritten
    <3>2. CASE ~(Seated(m.channel, m.user) /\ m.on)
      BY <1>2, <3>2 DEF ServerMute, ServerDeafen, Seated
    <3> QED BY <3>1, <3>2
  <2> QED BY <1>2, <2>2, OwedFrame
          DEF ServerMute, ServerDeafen, ModDone, dbVars, histVars
<1>3. ASSUME NEW m \in mods, Kick(m) PROVE RevokedSeatIsOwedEviction'
  <2>1. m.channel \in Channels /\ m.user \in Users
    BY ModTypes DEF TypeOK
  <2>2. \A u \in Users, d \in Channels : Seated(d, u)' => Seated(d, u)
    <3>1. CASE seat[m.user][m.channel] # None
      BY <1>3, <2>1, <3>1, SeatRewritten DEF Kick, Evict, Seated
    <3>2. CASE seat[m.user][m.channel] = None
      BY <1>3, <3>2 DEF Kick, seatVars, Seated
    <3> QED BY <3>1, <3>2
  <2> QED BY <1>3, <2>2, OwedFrame DEF Kick, ModDone, dbVars, histVars
<1>4. ASSUME NEW m \in mods, Move(m) PROVE RevokedSeatIsOwedEviction'
  <2> DEFINE o == m.user
             entry == seat[o][m.channel]
             moves == /\ entry # None
                      /\ sockState[entry.socket] = "live"
                      /\ m.channel \in inVoice[entry.socket]
  <2>1. o \in Users /\ m.channel \in Channels /\ m.to \in Channels
    BY <1>4, ModTypes DEF Move, TypeOK
  <2>2. UNCHANGED <<member, visible, notices, refreshes, evictions>>
    BY <1>4 DEF Move, ModDone, dbVars
  <2>3. CASE ~moves
    BY <1>4, <2>2, <2>3, OwedFrame DEF Move, seatVars, histVars, Seated
  <2>4. CASE moves
    <3>1. /\ seat' = [seat EXCEPT ![o] = [seat[o] EXCEPT
                        ![m.channel] = None, ![m.to] = entry]]
          /\ stale' = IF CanView(m.to, o) THEN stale \ {<<m.to, o>>}
                                          ELSE stale \cup {<<m.to, o>>}
      BY <1>4, <2>4 DEF Move
    <3> HIDE DEF entry, o
    <3>2. \A u \in Users, c \in Channels :
            Seated(c, u)' => Seated(c, u) \/ (c = m.to /\ u = o)
      BY <2>1, <3>1 DEF Seated, TypeOK
    <3> QED BY <2>1, <2>2, <3>1, <3>2, OwedNewSeat
  <2> QED BY <2>3, <2>4
<1> QED BY <1>1, <1>2, <1>3, <1>4 DEF ModerationStep

(* A commit that revokes access leaves the notice that will evict. *)
LEMMA CommitOwed ==
    TypeOK /\ RevokedSeatIsOwedEviction /\ CommitStep => RevokedSeatIsOwedEviction'
<1> SUFFICES ASSUME TypeOK, RevokedSeatIsOwedEviction, CommitStep,
                    NEW u \in Users, NEW c \in Channels, Overstays(c, u)'
             PROVE  EvictionOwed(c, u)'
  BY DEF RevokedSeatIsOwedEviction
<1>1. ASSUME NEW v \in Servers, NEW w \in Users, RemoveMember(v, w)
      PROVE  EvictionOwed(c, u)'
  <2>1. /\ member' = [member EXCEPT ![v] = @ \ {w}]
        /\ notices' = notices \cup {MemberNotice(v, w)}
        /\ UNCHANGED <<seat, visible, stale, refreshes, evictions>>
    BY <1>1 DEF RemoveMember, seatVars, histVars
  <2>2. CASE ServerOf[c] = v /\ u = w
    BY <2>1, <2>2 DEF EvictionOwed, MemberNotice
  <2>3. CASE ~(ServerOf[c] = v /\ u = w)
    <3>1. Overstays(c, u)
      BY <2>1, <2>3 DEF Overstays, CanView, Seated, TypeOK
    <3> QED BY <2>1, <3>1 DEF RevokedSeatIsOwedEviction, EvictionOwed
  <2> QED BY <2>2, <2>3
<1>2. ASSUME NEW v \in Servers, NEW w \in Users, AddMember(v, w)
      PROVE  EvictionOwed(c, u)'
  <2>1. /\ member' = [member EXCEPT ![v] = @ \cup {w}]
        /\ notices \subseteq notices'
        /\ UNCHANGED <<seat, visible, stale, refreshes, evictions>>
    BY <1>2 DEF AddMember, seatVars, histVars
  <2>2. Overstays(c, u)
    BY <2>1 DEF Overstays, CanView, Seated, TypeOK
  <2> QED BY <2>1, <2>2 DEF RevokedSeatIsOwedEviction, EvictionOwed
<1>3. ASSUME NEW d \in Channels, NEW audience \in SUBSET Users,
             SetAudience(d, audience)
      PROVE  EvictionOwed(c, u)'
  <2>1. /\ visible' = [visible EXCEPT ![d] = audience]
        /\ notices' = notices \cup {[scope |-> "channel", channel |-> d]}
        /\ UNCHANGED <<seat, member, stale, refreshes, evictions>>
    BY <1>3 DEF SetAudience, seatVars, histVars
  <2>2. CASE c = d
    BY <2>1, <2>2 DEF EvictionOwed
  <2>3. CASE c # d
    <3>1. Overstays(c, u)
      BY <2>1, <2>3 DEF Overstays, CanView, Seated, TypeOK
    <3> QED BY <2>1, <3>1 DEF RevokedSeatIsOwedEviction, EvictionOwed
  <2> QED BY <2>2, <2>3
<1> QED BY <1>1, <1>2, <1>3 DEF CommitStep

(* The chain notice, scan, refresh, eviction: each link hands every seat it *)
(* owed an eviction to the next.                                            *)
LEMMA RefreshOwed ==
    TypeOK /\ RevokedSeatIsOwedEviction /\ RefreshStep => RevokedSeatIsOwedEviction'
<1> SUFFICES ASSUME TypeOK, RevokedSeatIsOwedEviction, RefreshStep,
                    NEW u \in Users, NEW c \in Channels, Overstays(c, u)'
             PROVE  EvictionOwed(c, u)'
  BY DEF RevokedSeatIsOwedEviction
<1>1. Overstays(c, u) /\ EvictionOwed(c, u)
  <2>1. Seated(c, u)
    <3>1. ASSUME NEW e \in evictions, EvictRevoked(e) PROVE Seated(c, u)
      <4>1. e[1] \in Channels /\ e[2] \in Users
        BY DEF TypeOK
      <4> QED BY <3>1, <4>1 DEF EvictRevoked, Evict, Overstays, Seated, TypeOK
    <3> QED BY <3>1 DEF RefreshStep, SweepChannel, RefreshMembership,
              ScanJoinedChannels, RefreshMemberApply, seatVars, Overstays, Seated
  <2>2. UNCHANGED <<member, visible, stale>>
    BY DEF RefreshStep, SweepChannel, RefreshMembership, ScanJoinedChannels,
           RefreshMemberApply, EvictRevoked, dbVars, histVars
  <2> QED BY <2>1, <2>2 DEF Overstays, CanView, RevokedSeatIsOwedEviction
<1>2. Seated(c, u) /\ ~CanView(c, u) /\ u \in Occupants(c)
  BY <1>1 DEF Overstays, Seated, Occupants
<1>3. ASSUME NEW n \in notices, SweepChannel(n) PROVE EvictionOwed(c, u)'
  <2>1. n \in Notice /\ n.scope = "channel"
    BY <1>3 DEF SweepChannel, TypeOK
  <2>2. n = [scope |-> "channel", channel |-> n.channel]
    BY <2>1, NoticeTypes
  <2>3. /\ notices' = notices \ {n} /\ refreshes' = refreshes
        /\ evictions' = evictions \cup {<<n.channel, w>> :
              w \in {x \in Occupants(n.channel) : ~CanView(n.channel, x)}}
    BY <1>3 DEF SweepChannel
  <2>4. CASE n.channel = c
    BY <1>2, <2>3, <2>4 DEF EvictionOwed
  <2>5. CASE n.channel # c
    BY <1>1, <2>1, <2>2, <2>3, <2>5 DEF EvictionOwed
  <2> QED BY <2>4, <2>5
<1>4. ASSUME NEW n \in notices, RefreshMembership(n) PROVE EvictionOwed(c, u)'
  <2> DEFINE scan == [scope |-> "scan", server |-> n.server, user |-> n.user,
                      wasMember |-> n.user \in member[n.server]]
  <2>1. /\ n.scope = "member" /\ notices' = (notices \ {n}) \cup {scan}
        /\ UNCHANGED <<refreshes, evictions>>
    BY <1>4 DEF RefreshMembership
  <2>2. scan.scope = "scan" /\ scan.server = n.server /\ scan.user = n.user
    OBVIOUS
  <2> HIDE DEF scan
  <2> QED BY <1>1, <2>1, <2>2 DEF EvictionOwed
<1>5. ASSUME NEW n \in notices, ScanJoinedChannels(n) PROVE EvictionOwed(c, u)'
  <2> DEFINE r == [server |-> n.server, user |-> n.user, wasMember |-> n.wasMember,
                   channels |-> {d \in Channels : /\ ServerOf[d] = n.server
                                                  /\ n.user \in Occupants(d)}]
  <2>1. /\ n.scope = "scan" /\ notices' = notices \ {n}
        /\ refreshes' = refreshes \cup {r} /\ evictions' = evictions
    BY <1>5 DEF ScanJoinedChannels
  <2>2. CASE n.server = ServerOf[c] /\ n.user = u
    <3>1. r.user = u /\ c \in r.channels
      BY <1>2, <2>2
    <3> QED BY <2>1, <3>1 DEF EvictionOwed
  <2>3. CASE ~(n.server = ServerOf[c] /\ n.user = u)
    <3> HIDE DEF r
    <3> QED BY <1>1, <2>1, <2>3 DEF EvictionOwed
  <2> QED BY <2>2, <2>3
<1>6. ASSUME NEW r \in refreshes, RefreshMemberApply(r) PROVE EvictionOwed(c, u)'
  <2>1. /\ notices' = notices /\ refreshes' = refreshes \ {r}
        /\ evictions' = evictions \cup
              {<<d, r.user>> : d \in {x \in r.channels : ~CanView(x, r.user)}}
    BY <1>6 DEF RefreshMemberApply
  <2>2. CASE r.user = u /\ c \in r.channels
    BY <1>2, <2>1, <2>2 DEF EvictionOwed
  <2>3. CASE ~(r.user = u /\ c \in r.channels)
    BY <1>1, <2>1, <2>3 DEF EvictionOwed
  <2> QED BY <2>2, <2>3
<1>7. ASSUME NEW e \in evictions, EvictRevoked(e) PROVE EvictionOwed(c, u)'
  <2>1. e[1] \in Channels /\ e[2] \in Users /\ e = <<e[1], e[2]>>
    BY DEF TypeOK
  <2>2. <<c, u>> # e
    BY <1>7, <2>1 DEF EvictRevoked, Evict, Overstays, Seated, TypeOK
  <2> QED BY <1>1, <1>7, <2>2 DEF EvictionOwed, EvictRevoked
<1> QED BY <1>3, <1>4, <1>5, <1>6, <1>7 DEF RefreshStep

(* A seat in a channel its user may no longer view is never forgotten: its  *)
(* notice, refresh or eviction is pending, for any number of users, tabs,   *)
(* channels and servers.                                                    *)
THEOREM RevokedSeatsAreOwedEviction == Spec => []RevokedSeatIsOwedEviction
<1>1. Init => RevokedSeatIsOwedEviction
  BY DEF Init, RevokedSeatIsOwedEviction, Overstays, Seated
<1>2. TypeOK /\ RevokedSeatIsOwedEviction /\ UNCHANGED vars => RevokedSeatIsOwedEviction'
  BY OwedFrame DEF vars, connVars, seatVars, flagVars, dbVars, taskVars, histVars, Seated
<1>3. TypeOK /\ RevokedSeatIsOwedEviction /\ [Next]_vars => RevokedSeatIsOwedEviction'
  BY <1>2, ConnectionOwed, VoiceOwed, ModerationOwed, CommitOwed, RefreshOwed DEF Next
<1> QED BY <1>1, <1>3, TypeCorrect, PTL DEF Spec
-----------------------------------------------------------------------------
(* Server mutes and deafens. *)

(* A move in progress stays on its server: the flags that silence the seat  *)
(* it carries are the same at both ends.                                    *)
MovesStayOnServer ==
    \A m \in mods : m.act = "move" => ServerOf[m.to] = ServerOf[m.channel]

(* Moves stay within a server in every reachable state. *)
LEMMA MovesInvariant == Spec => []MovesStayOnServer
<1>1. Init => MovesStayOnServer
  BY DEF Init, MovesStayOnServer
<1>2. ASSUME MovesStayOnServer, NEW m \in Mod, ModRead(m) PROVE MovesStayOnServer'
  BY <1>2 DEF MovesStayOnServer, ModRead
<1>3. ASSUME MovesStayOnServer, ConnectionStep \/ VoiceStep \/ CommitStep \/ RefreshStep
      PROVE  mods' = mods
  BY <1>3 DEF ConnectionStep, VoiceStep, CommitStep, RefreshStep, Connect, Disconnect,
              Leave, SelfMute, SelfDeafen, JoinRead, JoinComplete, RemoveMember,
              AddMember, SetAudience, SweepChannel, RefreshMembership,
              ScanJoinedChannels, RefreshMemberApply, EvictRevoked, taskVars
<1>4. ASSUME NEW m \in mods, ServerMute(m) \/ ServerDeafen(m) \/ Kick(m) \/ Move(m)
      PROVE  mods' \subseteq mods
  BY <1>4 DEF ServerMute, ServerDeafen, Kick, Move, ModDone
<1>5. ASSUME mods' \subseteq mods, MovesStayOnServer PROVE MovesStayOnServer'
  BY <1>5 DEF MovesStayOnServer
<1>6. UNCHANGED vars => mods' \subseteq mods
  BY DEF vars, taskVars
<1>7. MovesStayOnServer /\ [Next]_vars => MovesStayOnServer'
  BY <1>2, <1>3, <1>4, <1>5, <1>6 DEF Next, ModerationStep
<1> QED BY <1>1, <1>7, PTL DEF Spec

(* What a step may do to the seat of u in c: while a flag covers it and     *)
(* every seat on the server is closed, the seat is closed afterwards.       *)
KeepsClosed(c, u) ==
    /\ (IsServerMuted(c, u) /\ SilencedOn(ServerOf[c], u)) => seat'[u][c].muted
    /\ (IsServerDeafened(c, u) /\ DeafenedOn(ServerOf[c], u))
          => seat'[u][c].deafened /\ seat'[u][c].muted
AllKeptClosed == \A u \in Users, c \in Channels : Seated(c, u)' => KeepsClosed(c, u)

(* A seat that is as it was, or carried over from the same server.          *)
LEMMA CarriedSeat ==
    ASSUME NEW u \in Users, NEW c \in Channels, NEW d \in Channels,
           ServerOf[d] = ServerOf[c], Seated(d, u), seat'[u][c] = seat[u][d]
    PROVE  KeepsClosed(c, u)
BY DEF KeepsClosed, SilencedOn, DeafenedOn

(* A step that changes no seat that stays opens none. *)
LEMMA NothingOpened ==
    ASSUME \A u \in Users, c \in Channels : Seated(c, u)' => seat'[u][c] = seat[u][c]
    PROVE  AllKeptClosed
<1> SUFFICES ASSUME NEW u \in Users, NEW c \in Channels, Seated(c, u)'
             PROVE  KeepsClosed(c, u)
  BY DEF AllKeptClosed
<1>1. seat'[u][c] = seat[u][c] /\ Seated(c, u)
  BY DEF Seated
<1> QED BY <1>1, CarriedSeat

(* Connections open no covered seat. *)
LEMMA ConnectionKept == TypeOK /\ ConnectionStep => AllKeptClosed
<1> SUFFICES ASSUME TypeOK, NEW s \in Sockets, Connect(s) \/ Disconnect(s),
                    NEW u \in Users, NEW c \in Channels, Seated(c, u)'
             PROVE  seat'[u][c] = seat[u][c]
  BY NothingOpened DEF ConnectionStep
<1>1. OwnerOf[s] \in Users
  OBVIOUS
<1> QED BY <1>1 DEF Connect, Disconnect, seatVars, Seated, TypeOK

(* One seat of one user is rewritten. *)
LEMMA OneSeatKept ==
    ASSUME TypeOK, NEW o \in Users, NEW k \in Channels, NEW new,
           seat' = [seat EXCEPT ![o] = [seat[o] EXCEPT ![k] = new]],
           new # None => KeepsClosed(k, o)
    PROVE  AllKeptClosed
<1> SUFFICES ASSUME NEW u \in Users, NEW c \in Channels, Seated(c, u)'
             PROVE  KeepsClosed(c, u)
  BY DEF AllKeptClosed
<1>1. CASE u = o /\ c = k
  BY <1>1 DEF Seated, TypeOK
<1>2. CASE ~(u = o /\ c = k)
  <2>1. seat'[u][c] = seat[u][c]
    BY <1>2 DEF TypeOK
  <2> QED BY <2>1, CarriedSeat DEF Seated
<1> QED BY <1>1, <1>2

(* A user's own mute opens no covered seat. *)
LEMMA SelfMuteKept ==
    ASSUME TypeOK, NEW s \in Sockets, NEW c \in Channels, NEW on \in SelfStates,
           SelfMute(s, c, on)
    PROVE  AllKeptClosed
<1> DEFINE u == OwnerOf[s]
           new == SeatWith(seat[u][c], on, seat[u][c].deafened)
<1>1. /\ u \in Users /\ Seated(c, u)
      /\ on \/ MayUnmute(c, u)
      /\ seat' = [seat EXCEPT ![u] = [seat[u] EXCEPT ![c] = new]]
  BY DEF SelfMute, Seated
<1>2. new.muted = on /\ new.deafened = seat[u][c].deafened
  BY DEF SeatWith
<1>3. seat'[u][c] = new
  BY <1>1 DEF TypeOK
<1> HIDE DEF u, new
<1>4. KeepsClosed(c, u)
  BY <1>1, <1>2, <1>3 DEF KeepsClosed, MayUnmute, DeafenedOn
<1> QED BY <1>1, <1>4, OneSeatKept

(* A user's own deafen opens no covered seat. *)
LEMMA SelfDeafenKept ==
    ASSUME TypeOK, NEW s \in Sockets, NEW c \in Channels, NEW on \in SelfStates,
           SelfDeafen(s, c, on)
    PROVE  AllKeptClosed
<1> DEFINE u == OwnerOf[s]
           new == SeatWith(seat[u][c], seat[u][c].muted \/ on, on)
<1>1. /\ u \in Users /\ Seated(c, u)
      /\ on \/ ~IsServerDeafened(c, u)
      /\ seat' = [seat EXCEPT ![u] = [seat[u] EXCEPT ![c] = new]]
  BY DEF SelfDeafen, Seated
<1>2. new.muted = (seat[u][c].muted \/ on) /\ new.deafened = on
  BY DEF SeatWith
<1>3. seat'[u][c] = new
  BY <1>1 DEF TypeOK
<1> HIDE DEF u, new
<1>4. KeepsClosed(c, u)
  BY <1>1, <1>2, <1>3 DEF KeepsClosed, SilencedOn, DeafenedOn
<1> QED BY <1>1, <1>4, OneSeatKept

(* A join opens no covered seat. *)
LEMMA JoinKept ==
    ASSUME TypeOK, NEW j \in joins, JoinComplete(j)
    PROVE  AllKeptClosed
<1> DEFINE s == j.socket
           o == OwnerOf[s]
           k == j.channel
           deaf == j.deafened \/ IsServerDeafened(k, o)
           taken == [socket |-> s, deafened |-> deaf,
                     muted |-> j.muted \/ deaf \/ IsServerMuted(k, o)]
<1>1. s \in Sockets /\ o \in Users /\ k \in Channels
  BY JoinWrites
<1>2. /\ seat'[o][k] = taken
      /\ \A u \in Users, c \in Channels :
           Seated(c, u)' /\ <<c, u>> # <<k, o>> => seat'[u][c] = seat[u][c]
  BY <1>1 DEF JoinComplete, TypeOK, Seated
<1>3. /\ taken.deafened = deaf
      /\ taken.muted = (j.muted \/ deaf \/ IsServerMuted(k, o))
  OBVIOUS
<1>4. KeepsClosed(k, o)
  BY <1>2, <1>3 DEF KeepsClosed
<1> HIDE DEF o, k
<1> SUFFICES ASSUME NEW u \in Users, NEW c \in Channels, Seated(c, u)'
             PROVE  KeepsClosed(c, u)
  BY DEF AllKeptClosed
<1>5. CASE <<c, u>> = <<k, o>>
  BY <1>4, <1>5
<1>6. CASE <<c, u>> # <<k, o>>
  BY <1>2, <1>6, CarriedSeat DEF Seated
<1> QED BY <1>5, <1>6

(* The voice handlers open no covered seat. *)
LEMMA VoiceKept == TypeOK /\ VoiceStep => AllKeptClosed
<1> SUFFICES ASSUME TypeOK, VoiceStep PROVE AllKeptClosed
  OBVIOUS
<1>1. ASSUME NEW s \in Sockets, NEW c \in Channels, Leave(s, c) PROVE AllKeptClosed
  <2>1. OwnerOf[s] \in Users
    OBVIOUS
  <2>2. CASE SeatTakenBy(c, s)
    BY <1>1, <2>1, <2>2, OneSeatKept DEF Leave
  <2>3. CASE ~SeatTakenBy(c, s)
    BY <1>1, <2>3, NothingOpened DEF Leave, seatVars
  <2> QED BY <2>2, <2>3
<1>2. ASSUME NEW s \in Sockets, NEW c \in Channels, NEW m \in SelfStates,
             NEW d \in SelfStates, JoinRead(s, c, m, d)
      PROVE  AllKeptClosed
  BY <1>2, NothingOpened DEF JoinRead, seatVars
<1> QED BY <1>1, <1>2, SelfMuteKept, SelfDeafenKept, JoinKept DEF VoiceStep

(* A move opens no covered seat: the flags of its server go with the user. *)
LEMMA MoveKept ==
    ASSUME TypeOK, MovesStayOnServer, NEW m \in mods, Move(m)
    PROVE  AllKeptClosed
<1> DEFINE o == m.user
           from == m.channel
           entry == seat[o][from]
           moves == /\ entry # None
                    /\ sockState[entry.socket] = "live"
                    /\ from \in inVoice[entry.socket]
<1>1. o \in Users /\ from \in Channels /\ m.to \in Channels
      /\ ServerOf[m.to] = ServerOf[from]
  BY ModTypes DEF Move, TypeOK, MovesStayOnServer
<1>2. CASE ~moves
  BY <1>2, NothingOpened DEF Move, seatVars
<1>3. CASE moves
  <2>1. seat' = [seat EXCEPT ![o] = [seat[o] EXCEPT ![from] = None, ![m.to] = entry]]
    BY <1>3 DEF Move
  <2>2. Seated(from, o) /\ entry = seat[o][from]
    BY <1>3 DEF Seated
  <2> HIDE DEF entry, o, from
  <2> SUFFICES ASSUME NEW u \in Users, NEW c \in Channels, Seated(c, u)'
               PROVE  KeepsClosed(c, u)
    BY DEF AllKeptClosed
  <2>3. CASE c = m.to /\ u = o
    <3>1. seat'[u][c] = seat[u][from]
      BY <1>1, <2>1, <2>2, <2>3 DEF TypeOK
    <3> QED BY <1>1, <2>2, <2>3, <3>1, CarriedSeat
  <2>4. CASE ~(c = m.to /\ u = o)
    <3>1. seat'[u][c] = seat[u][c]
      BY <1>1, <2>1, <2>4 DEF TypeOK, Seated
    <3> QED BY <3>1, CarriedSeat DEF Seated
  <2> QED BY <2>3, <2>4
<1> QED BY <1>2, <1>3

(* Moderation opens no covered seat, but by lifting the flag. *)
LEMMA ModerationKept == TypeOK /\ MovesStayOnServer /\ ModerationStep => AllKeptClosed
<1> SUFFICES ASSUME TypeOK, MovesStayOnServer, ModerationStep PROVE AllKeptClosed
  OBVIOUS
<1>1. ASSUME NEW m \in Mod, ModRead(m) PROVE AllKeptClosed
  BY <1>1, NothingOpened DEF ModRead, seatVars
<1>2. ASSUME NEW m \in mods, ServerMute(m) \/ ServerDeafen(m) PROVE AllKeptClosed
  <2> DEFINE k == m.channel
             o == m.user
             entry == seat[o][k]
  <2>1. k \in Channels /\ o \in Users
    BY ModTypes DEF TypeOK
  <2>2. CASE entry # None /\ m.on
    <3>1. PICK d : /\ seat' = [seat EXCEPT ![o] =
                         [seat[o] EXCEPT ![k] = SeatWith(entry, TRUE, d)]]
                   /\ d = TRUE \/ d = entry.deafened
      BY <1>2, <2>2 DEF ServerMute, ServerDeafen
    <3>2. SeatWith(entry, TRUE, d).muted = TRUE /\ SeatWith(entry, TRUE, d).deafened = d
      BY DEF SeatWith
    <3>3. seat'[o][k] = SeatWith(entry, TRUE, d)
      BY <2>1, <3>1 DEF TypeOK
    <3>4. KeepsClosed(k, o)
      BY <2>1, <2>2, <3>1, <3>2, <3>3 DEF KeepsClosed, DeafenedOn, Seated
    <3> QED BY <2>1, <3>1, <3>4, OneSeatKept
  <2>3. CASE ~(entry # None /\ m.on)
    BY <1>2, <2>3, NothingOpened DEF ServerMute, ServerDeafen
  <2> QED BY <2>2, <2>3
<1>3. ASSUME NEW m \in mods, Kick(m) PROVE AllKeptClosed
  <2>1. m.channel \in Channels /\ m.user \in Users
    BY ModTypes DEF TypeOK
  <2>2. CASE seat[m.user][m.channel] # None
    BY <1>3, <2>1, <2>2, OneSeatKept DEF Kick, Evict
  <2>3. CASE seat[m.user][m.channel] = None
    BY <1>3, <2>3, NothingOpened DEF Kick, seatVars
  <2> QED BY <2>2, <2>3
<1> QED BY <1>1, <1>2, <1>3, MoveKept DEF ModerationStep

(* Commits and refreshes open no covered seat. *)
LEMMA OtherStepsKept == TypeOK /\ (CommitStep \/ RefreshStep) => AllKeptClosed
<1> SUFFICES ASSUME TypeOK, CommitStep \/ RefreshStep PROVE AllKeptClosed
  OBVIOUS
<1>1. ASSUME NEW e \in evictions, EvictRevoked(e) PROVE AllKeptClosed
  <2>1. e[1] \in Channels /\ e[2] \in Users
    BY DEF TypeOK
  <2> QED BY <1>1, <2>1, OneSeatKept DEF EvictRevoked, Evict
<1>2. ASSUME CommitStep PROVE AllKeptClosed
  BY <1>2, NothingOpened DEF CommitStep, RemoveMember, AddMember, SetAudience, seatVars
<1>3. ASSUME NEW n \in notices,
             SweepChannel(n) \/ RefreshMembership(n) \/ ScanJoinedChannels(n)
      PROVE  AllKeptClosed
  BY <1>3, NothingOpened DEF SweepChannel, RefreshMembership, ScanJoinedChannels, seatVars
<1>4. ASSUME NEW r \in refreshes, RefreshMemberApply(r) PROVE AllKeptClosed
  BY <1>4, NothingOpened DEF RefreshMemberApply, seatVars
<1> QED BY <1>1, <1>2, <1>3, <1>4 DEF RefreshStep

(* A server mute or deafen holds through every step of every handler: no    *)
(* toggle, rejoin, other tab or move opens a closed seat it covers.         *)
THEOREM ModerationHolds == Spec => ModerationSticks
<1> DEFINE Sticks == \A v \in Servers, u \in Users :
        /\ (<<v, u>> \in serverMuted \cap serverMuted' /\ SilencedOn(v, u))
             => SilencedOn(v, u)'
        /\ (<<v, u>> \in serverDeafened \cap serverDeafened' /\ DeafenedOn(v, u))
             => DeafenedOn(v, u)'
<1>1. AllKeptClosed => Sticks
  BY DEF AllKeptClosed, KeepsClosed, IsServerMuted, IsServerDeafened, FlagKey,
         SilencedOn, DeafenedOn
<1>2. TypeOK /\ MovesStayOnServer /\ [Next]_vars => [Sticks]_vars
  BY <1>1, ConnectionKept, VoiceKept, ModerationKept, OtherStepsKept DEF Next
<1> QED BY <1>2, TypeCorrect, MovesInvariant, PTL DEF Spec, ModerationSticks
=============================================================================
