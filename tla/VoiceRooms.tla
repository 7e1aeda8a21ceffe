----------------------------- MODULE VoiceRooms -----------------------------
(***************************************************************************)
(* The voice seats of Campfire's realtime server (realtime/server.ts).     *)
(*                                                                         *)
(* A user may hold several sockets (browser tabs, devices).  A seat in a   *)
(* voice channel belongs to a user and names the socket that took it.      *)
(* Handlers run on one event loop, so the code between two database awaits *)
(* is one step here; a handler that awaits is split at the await and what  *)
(* it read travels in a record (joins, mods, refreshes, evictions).  The   *)
(* awaits of socket.join and socket.leave settle in the microtask queue of *)
(* the in-memory adapter, before another event is dispatched, and split    *)
(* nothing.  Broadcasts, avatars and cameras are left out.                 *)
(***************************************************************************)
EXTENDS Naturals, FiniteSets

CONSTANTS
    Users, Sockets, Channels, Servers,
    OwnerOf,          \* OwnerOf[s]: the user socket s is authenticated as
    ServerOf,         \* ServerOf[c]: the server voice channel c belongs to
    SelfStates,       \* bound: self mute/deafen states a client asks for
    ModActs,          \* bound: kinds of moderation asked for
    None,
    MaxJoins,         \* bound: voice:join handlers in flight
    MaxMods,          \* bound: moderation handlers run in a behaviour
    MaxChanges        \* bound: membership and visibility commits

ASSUME ConstantsAssumption ==
    /\ OwnerOf \in [Sockets -> Users]
    /\ ServerOf \in [Channels -> Servers]
    /\ SelfStates \subseteq BOOLEAN
    /\ ModActs \subseteq {"mute", "deafen", "kick", "move"}
    /\ None \notin Channels
    /\ None \notin [socket : Sockets, muted : BOOLEAN, deafened : BOOLEAN]
    /\ MaxJoins \in Nat /\ MaxMods \in Nat /\ MaxChanges \in Nat

VARIABLES
    sockState,        \* "new", "live" or "gone"; a socket id is never reused
    inVoice,          \* inVoice[s]: channels c whose Socket.IO room voice:c holds s
    seat,             \* seat[u][c]: voiceRooms.get(c).get(u)
    userVoiceChannel, \* the room the server believes the user is in
    serverMuted, serverDeafened,
    member,           \* DB: member[v], the members of server v (not banned)
    visible,          \* DB: visible[c], users whom the overrides of c let view
    joins,            \* voice:join handlers past their access read
    mods,             \* mod:* handlers past their permission read
    notices,          \* committed changes not yet handed to the refresher, and
                      \* refreshMemberForServer calls past their first read
    refreshes,        \* refreshMemberForServer calls past their reads
    evictions,        \* refreshChannelForUser calls that read "no access"
    modCount, changeCount,
    late,             \* history: seats written by a join whose socket had gone
    stale             \* history: seats written on an outdated access answer

connVars == <<sockState, inVoice>>
seatVars == <<seat, userVoiceChannel>>
flagVars == <<serverMuted, serverDeafened>>
dbVars   == <<member, visible, changeCount>>
taskVars == <<joins, mods, notices, refreshes, evictions, modCount>>
histVars == <<late, stale>>
vars == <<connVars, seatVars, flagVars, dbVars, taskVars, histVars>>

Seat == [socket : Sockets, muted : BOOLEAN, deafened : BOOLEAN]
Join == [socket : Sockets, channel : Channels, muted : BOOLEAN, deafened : BOOLEAN]
Mod  == [act : {"mute", "deafen"}, channel : Channels, user : Users, on : BOOLEAN]
            \cup [act : {"kick"}, channel : Channels, user : Users]
            \cup [act : {"move"}, channel : Channels, to : Channels, user : Users]
Notice == [scope : {"channel"}, channel : Channels]
            \cup [scope : {"member"}, server : Servers, user : Users]
            \cup [scope : {"scan"}, server : Servers, user : Users,
                  wasMember : BOOLEAN]
Refresh == [server : Servers, user : Users, wasMember : BOOLEAN,
            channels : SUBSET Channels]

SeatWith(e, muted, deafened) ==
    [socket |-> e.socket, muted |-> muted, deafened |-> deafened]

(* resolveChannelAccess(c, u)?.canView *)
CanView(c, u) == u \in member[ServerOf[c]] /\ u \in visible[c]

(* userSockets.get(u): the live sockets of u *)
UserSockets(u) == {s \in Sockets : OwnerOf[s] = u /\ sockState[s] = "live"}

KeyedByChannel(c, u) == <<c, u>>                                \* mutant
(* The key of a mute or deafen: it covers every voice channel of the server *)
FlagKey(c, u) == <<ServerOf[c], u>>

(* moderationFlags: a seat exists only where voiceChannelServer is cached *)
IsServerMuted(c, u)    == FlagKey(c, u) \in serverMuted
IsServerDeafened(c, u) == FlagKey(c, u) \in serverDeafened

UnmuteUnlessDeafened(c, u) == ~IsServerDeafened(c, u)           \* mutant
(* A user may unmute only while neither flag is set. *)
MayUnmute(c, u) == ~IsServerMuted(c, u) /\ ~IsServerDeafened(c, u)

SeatTakenBy(c, s) == /\ seat[OwnerOf[s]][c] # None
                     /\ seat[OwnerOf[s]][c].socket = s

FreesCurrentRoom(s) == {c \in Channels : SeatTakenBy(c, s)     \* mutant
                                         /\ userVoiceChannel[OwnerOf[s]] = c}
(* The rooms a closing socket gives up: the loop over voiceRooms *)
HeldBy(s) == {c \in Channels : SeatTakenBy(c, s)}

LeftAsItWas(u, freed) == userVoiceChannel[u]                    \* mutant
(* userVoiceChannel once the user's seats in freed are gone *)
ChannelAfterFreeing(u, freed) ==
    IF userVoiceChannel[u] \in freed THEN None ELSE userVoiceChannel[u]

NeverLeaves(prev, c) == FALSE                                   \* mutant
(* voice:join leaves the room the user was in, unless it is the same one *)
LeavesPrevious(prev, c) == prev # None /\ prev # c

LeavesOnly(rooms, from, to) == rooms \ {from}                  \* mutant
(* The Socket.IO rooms of a socket moved from one voice room to another *)
RoomsAfterMove(rooms, from, to) == (rooms \ {from}) \cup {to}

-----------------------------------------------------------------------------
Init ==
    /\ sockState = [s \in Sockets |-> "new"]
    /\ inVoice = [s \in Sockets |-> {}]
    /\ seat = [u \in Users |-> [c \in Channels |-> None]]
    /\ userVoiceChannel = [u \in Users |-> None]
    /\ serverMuted = {} /\ serverDeafened = {}
    /\ member = [v \in Servers |-> Users]
    /\ visible = [c \in Channels |-> Users]
    /\ joins = {} /\ mods = {} /\ notices = {} /\ refreshes = {}
    /\ evictions = {}
    /\ modCount = 0 /\ changeCount = 0
    /\ late = {} /\ stale = {}

(* io.on("connection"): the socket enters userSockets *)
Connect(s) ==
    /\ sockState[s] = "new"
    /\ sockState' = [sockState EXCEPT ![s] = "live"]
    /\ UNCHANGED <<inVoice, seatVars, flagVars, dbVars, taskVars, histVars>>

(* Socket.IO takes the socket out of every room, then the handler runs     *)
(* leaveVoiceChannel on every room; the user's last socket also drops      *)
(* userVoiceChannel.  A session revocation disconnects through here too.   *)
Disconnect(s) ==
    LET u == OwnerOf[s]
        held == HeldBy(s)
        lastSocket == UserSockets(u) = {s}
    IN  /\ sockState[s] = "live"
        /\ sockState' = [sockState EXCEPT ![s] = "gone"]
        /\ inVoice' = [inVoice EXCEPT ![s] = {}]
        /\ seat' = [seat EXCEPT ![u] =
              [c \in Channels |-> IF c \in held THEN None ELSE seat[u][c]]]
        /\ userVoiceChannel' = [userVoiceChannel EXCEPT ![u] =
              IF lastSocket THEN None ELSE ChannelAfterFreeing(u, held)]
        /\ UNCHANGED <<flagVars, dbVars, taskVars, histVars>>

-----------------------------------------------------------------------------
(* voice:join up to its await: both lookups answered, access granted.      *)
JoinRead(s, c, muted, deafened) ==
    /\ sockState[s] = "live"
    /\ CanView(c, OwnerOf[s])
    /\ Cardinality(joins) < MaxJoins
    /\ joins' = joins \cup {[socket |-> s, channel |-> c,
                             muted |-> muted, deafened |-> deafened]}
    /\ UNCHANGED <<connVars, seatVars, flagVars, dbVars, mods, notices,
                   refreshes, evictions, modCount, histVars>>

(* The rest of voice:join.  It does not look at the socket again; Socket.IO *)
(* ignores a join of a socket that has closed.                              *)
JoinComplete(j) ==
    LET s == j.socket
        u == OwnerOf[s]
        c == j.channel
        prev == userVoiceChannel[u]
        leavesPrev == LeavesPrevious(prev, c)
        deaf == j.deafened \/ IsServerDeafened(c, u)
        taken == [socket |-> s, deafened |-> deaf,
                  muted |-> j.muted \/ deaf \/ IsServerMuted(c, u)]
    IN  /\ j \in joins
        /\ joins' = joins \ {j}
        /\ inVoice' = IF sockState[s] = "gone" THEN inVoice
             ELSE [inVoice EXCEPT ![s] =
                     (IF leavesPrev THEN @ \ {prev} ELSE @) \cup {c}]
        /\ seat' = [seat EXCEPT ![u] = [d \in Channels |->
              IF d = c THEN taken
              ELSE IF leavesPrev /\ d = prev /\ SeatTakenBy(d, s) THEN None
              ELSE seat[u][d]]]
        /\ userVoiceChannel' = [userVoiceChannel EXCEPT ![u] = c]
        /\ late' = IF sockState[s] = "gone" THEN late \cup {<<c, u>>}
                                            ELSE late \ {<<c, u>>}
        /\ stale' = IF CanView(c, u) THEN stale \ {<<c, u>>}
                                     ELSE stale \cup {<<c, u>>}
        /\ UNCHANGED <<sockState, flagVars, dbVars, mods, notices, refreshes,
                       evictions, modCount>>

(* voice:leave, by leaveVoiceChannel: only the tab that took the seat      *)
(* frees it.                                                               *)
Leave(s, c) ==
    LET u == OwnerOf[s]
    IN  /\ sockState[s] = "live"
        /\ inVoice' = [inVoice EXCEPT ![s] = @ \ {c}]
        /\ \/ /\ SeatTakenBy(c, s)
              /\ seat' = [seat EXCEPT ![u] = [seat[u] EXCEPT ![c] = None]]
              /\ userVoiceChannel' = [userVoiceChannel EXCEPT ![u] =
                    ChannelAfterFreeing(u, {c})]
           \/ /\ ~SeatTakenBy(c, s)
              /\ UNCHANGED seatVars
        /\ UNCHANGED <<sockState, flagVars, dbVars, taskVars, histVars>>

(* voice:mute from any tab; a server mute or deafen refuses an unmute.     *)
SelfMute(s, c, muted) ==
    LET u == OwnerOf[s]
    IN  /\ sockState[s] = "live"
        /\ seat[u][c] # None
        /\ muted \/ MayUnmute(c, u)
        /\ seat' = [seat EXCEPT ![u] = [seat[u] EXCEPT ![c] =
                      SeatWith(seat[u][c], muted, seat[u][c].deafened)]]
        /\ UNCHANGED <<connVars, userVoiceChannel, flagVars, dbVars, taskVars,
                       histVars>>

(* voice:deafen; deafening mutes, undeafening leaves the mute alone.       *)
SelfDeafen(s, c, deafened) ==
    LET u == OwnerOf[s]
    IN  /\ sockState[s] = "live"
        /\ seat[u][c] # None
        /\ deafened \/ ~IsServerDeafened(c, u)
        /\ seat' = [seat EXCEPT ![u] = [seat[u] EXCEPT ![c] =
                      SeatWith(seat[u][c], seat[u][c].muted \/ deafened, deafened)]]
        /\ UNCHANGED <<connVars, userVoiceChannel, flagVars, dbVars, taskVars,
                       histVars>>

-----------------------------------------------------------------------------
(* A mod:* handler up to its last await: getVoiceModerationContext found   *)
(* the target an active member, and a move found a target room of the same *)
(* server that the target may view.  The moderator is not modelled: any    *)
(* member may be moderated through any voice channel of the server.        *)
ModRead(m) ==
    /\ modCount < MaxMods
    /\ m.user \in member[ServerOf[m.channel]]
    /\ m.act = "move" => /\ m.to # m.channel
                         /\ ServerOf[m.to] = ServerOf[m.channel]
                         /\ CanView(m.to, m.user)
    /\ mods' = mods \cup {m}
    /\ modCount' = modCount + 1
    /\ UNCHANGED <<connVars, seatVars, flagVars, dbVars, joins, notices,
                   refreshes, evictions, histVars>>

(* What is left of every task set and counter by finishing handler m. *)
ModDone(m) ==
    /\ m \in mods
    /\ mods' = mods \ {m}
    /\ UNCHANGED <<dbVars, joins, notices, refreshes, evictions, modCount>>

SetFlag(flag, key, on) == IF on THEN flag \cup {key} ELSE flag \ {key}

(* mod:server-mute: the flag covers the server, the seat muted at once is  *)
(* the one in the channel the moderator named.  Lifting it unmutes nobody. *)
ServerMute(m) ==
    LET key == FlagKey(m.channel, m.user)
        entry == seat[m.user][m.channel]
    IN  /\ m.act = "mute"
        /\ ModDone(m)
        /\ serverMuted' = SetFlag(serverMuted, key, m.on)
        /\ seat' = IF entry # None /\ m.on
                     THEN [seat EXCEPT ![m.user] = [seat[m.user] EXCEPT
                              ![m.channel] = SeatWith(entry, TRUE, entry.deafened)]]
                     ELSE seat
        /\ UNCHANGED <<connVars, userVoiceChannel, serverDeafened, histVars>>

(* mod:server-deafen, which also mutes. *)
ServerDeafen(m) ==
    LET key == FlagKey(m.channel, m.user)
        entry == seat[m.user][m.channel]
    IN  /\ m.act = "deafen"
        /\ ModDone(m)
        /\ serverDeafened' = SetFlag(serverDeafened, key, m.on)
        /\ seat' = IF entry # None /\ m.on
                     THEN [seat EXCEPT ![m.user] = [seat[m.user] EXCEPT
                              ![m.channel] = SeatWith(entry, TRUE, TRUE)]]
                     ELSE seat
        /\ UNCHANGED <<connVars, userVoiceChannel, serverMuted, histVars>>

(* evictVoiceParticipant: the seat goes, and every live tab of the user    *)
(* leaves the room.                                                        *)
Evict(c, u) ==
    /\ inVoice' = [s \in Sockets |-> IF s \in UserSockets(u)
                                       THEN inVoice[s] \ {c} ELSE inVoice[s]]
    /\ seat' = [seat EXCEPT ![u] = [seat[u] EXCEPT ![c] = None]]
    /\ userVoiceChannel' = [userVoiceChannel EXCEPT ![u] =
          ChannelAfterFreeing(u, {c})]
    /\ UNCHANGED sockState

(* mod:kick-voice: only a seated target is evicted. *)
Kick(m) ==
    /\ m.act = "kick"
    /\ ModDone(m)
    /\ IF seat[m.user][m.channel] # None
         THEN Evict(m.channel, m.user)
         ELSE UNCHANGED <<connVars, seatVars>>
    /\ UNCHANGED <<flagVars, histVars>>

(* mod:move-user: carried out when the seat's socket is connected and in   *)
(* the room; the seat, its mute and its deafen travel unchanged.           *)
Move(m) ==
    LET u == m.user
        entry == seat[u][m.channel]
        s == entry.socket
    IN  /\ m.act = "move"
        /\ ModDone(m)
        /\ \/ /\ entry # None
              /\ sockState[s] = "live"
              /\ m.channel \in inVoice[s]
              /\ inVoice' = [inVoice EXCEPT ![s] =
                    RoomsAfterMove(@, m.channel, m.to)]
              /\ seat' = [seat EXCEPT ![u] = [seat[u] EXCEPT
                             ![m.channel] = None, ![m.to] = entry]]
              /\ userVoiceChannel' = [userVoiceChannel EXCEPT ![u] = m.to]
              /\ late' = late \ {<<m.to, u>>}
              /\ stale' = IF CanView(m.to, u) THEN stale \ {<<m.to, u>>}
                                              ELSE stale \cup {<<m.to, u>>}
              /\ UNCHANGED sockState
           \/ /\ \/ entry = None
                 \/ entry # None /\ ~(sockState[s] = "live" /\ m.channel \in inVoice[s])
              /\ UNCHANGED <<connVars, seatVars, histVars>>
        /\ UNCHANGED flagVars

-----------------------------------------------------------------------------
(* Database commits, and the notice each route sends after its commit.     *)

MemberNotice(v, u) == [scope |-> "member", server |-> v, user |-> u]

(* members/[userId]: a member is removed or banned. *)
RemoveMember(v, u) ==
    /\ changeCount < MaxChanges
    /\ u \in member[v]
    /\ member' = [member EXCEPT ![v] = @ \ {u}]
    /\ notices' = notices \cup {MemberNotice(v, u)}
    /\ changeCount' = changeCount + 1
    /\ UNCHANGED <<connVars, seatVars, flagVars, visible, joins, mods,
                   refreshes, evictions, modCount, histVars>>

(* servers/join sends no notice; members/[userId] sends one on an unban. *)
AddMember(v, u) ==
    /\ changeCount < MaxChanges
    /\ u \notin member[v]
    /\ member' = [member EXCEPT ![v] = @ \cup {u}]
    /\ notices' \in {notices, notices \cup {MemberNotice(v, u)}}
    /\ changeCount' = changeCount + 1
    /\ UNCHANGED <<connVars, seatVars, flagVars, visible, joins, mods,
                   refreshes, evictions, modCount, histVars>>

(* channels/[channelId]/permissions: an override hides c from the users    *)
(* not in audience, or shows it to them.                                   *)
SetAudience(c, audience) ==
    /\ changeCount < MaxChanges
    /\ audience # visible[c]
    /\ visible' = [visible EXCEPT ![c] = audience]
    /\ notices' = notices \cup {[scope |-> "channel", channel |-> c]}
    /\ changeCount' = changeCount + 1
    /\ UNCHANGED <<connVars, seatVars, flagVars, member, joins, mods,
                   refreshes, evictions, modCount, histVars>>

-----------------------------------------------------------------------------
SubscribersOf(c) == {u \in Users :                              \* mutant
                        \E s \in UserSockets(u) : c \in inVoice[s]}
(* The users refreshChannelAuthorization and joinedChannelsForServer find  *)
(* in a channel: seated, or with a live tab in its Socket.IO room.         *)
Occupants(c) == {u \in Users : \/ seat[u][c] # None
                               \/ \E s \in UserSockets(u) : c \in inVoice[s]}

(* refreshChannelAuthorization: one refreshChannelForUser per occupant,    *)
(* of which those that read "no access" go on to evict.                    *)
SweepChannel(n) ==
    /\ n \in notices
    /\ n.scope = "channel"
    /\ notices' = notices \ {n}
    /\ evictions' = evictions \cup
          {<<n.channel, u>> : u \in {w \in Occupants(n.channel) : ~CanView(n.channel, w)}}
    /\ UNCHANGED <<connVars, seatVars, flagVars, dbVars, joins, mods,
                   refreshes, modCount, histVars>>

(* refreshMemberForServer up to its first answer, the membership row.       *)
RefreshMembership(n) ==
    /\ n \in notices
    /\ n.scope = "member"
    /\ notices' = (notices \ {n}) \cup
          {[scope |-> "scan", server |-> n.server, user |-> n.user,
            wasMember |-> n.user \in member[n.server]]}
    /\ UNCHANGED <<connVars, seatVars, flagVars, dbVars, joins, mods,
                   refreshes, evictions, modCount, histVars>>

(* joinedChannelsForServer, called once that answer has come: the rooms and *)
(* seats of the user, looked up while the database names their servers.     *)
ScanJoinedChannels(n) ==
    /\ n \in notices
    /\ n.scope = "scan"
    /\ notices' = notices \ {n}
    /\ refreshes' = refreshes \cup
          {[server |-> n.server, user |-> n.user, wasMember |-> n.wasMember,
            channels |-> {c \in Channels : /\ ServerOf[c] = n.server
                                           /\ n.user \in Occupants(c)}]}
    /\ UNCHANGED <<connVars, seatVars, flagVars, dbVars, joins, mods,
                   evictions, modCount, histVars>>

(* The rest of refreshMemberForServer: a departed member's flags go, and   *)
(* each channel found is checked.                                          *)
RefreshMemberApply(r) ==
    LET key == <<r.server, r.user>>
    IN  /\ r \in refreshes
        /\ refreshes' = refreshes \ {r}
        /\ serverMuted' = IF r.wasMember THEN serverMuted ELSE serverMuted \ {key}
        /\ serverDeafened' = IF r.wasMember THEN serverDeafened
                                            ELSE serverDeafened \ {key}
        /\ evictions' = evictions \cup
              {<<c, r.user>> : c \in {d \in r.channels : ~CanView(d, r.user)}}
        /\ UNCHANGED <<connVars, seatVars, dbVars, joins, mods, notices,
                       modCount, histVars>>

(* refreshChannelForUser past a "no access" answer, however old it is.     *)
EvictRevoked(e) ==
    /\ e \in evictions
    /\ evictions' = evictions \ {e}
    /\ Evict(e[1], e[2])
    /\ UNCHANGED <<flagVars, dbVars, joins, mods, notices, refreshes, modCount,
                   histVars>>

-----------------------------------------------------------------------------
ConnectionStep == \E s \in Sockets : Connect(s) \/ Disconnect(s)
VoiceStep ==
    \/ \E s \in Sockets, c \in Channels :
          \/ Leave(s, c)
          \/ \E on \in SelfStates : SelfMute(s, c, on) \/ SelfDeafen(s, c, on)
          \/ \E m \in SelfStates, d \in SelfStates : JoinRead(s, c, m, d)
    \/ \E j \in joins : JoinComplete(j)
ModerationStep ==
    \/ \E m \in Mod : m.act \in ModActs /\ ModRead(m)
    \/ \E m \in mods : ServerMute(m) \/ ServerDeafen(m) \/ Kick(m) \/ Move(m)
CommitStep ==
    \/ \E v \in Servers, u \in Users : RemoveMember(v, u) \/ AddMember(v, u)
    \/ \E c \in Channels, audience \in SUBSET Users : SetAudience(c, audience)
RefreshStep ==
    \/ \E n \in notices : \/ SweepChannel(n)
                       \/ RefreshMembership(n) \/ ScanJoinedChannels(n)
    \/ \E r \in refreshes : RefreshMemberApply(r)
    \/ \E e \in evictions : EvictRevoked(e)

Next == ConnectionStep \/ VoiceStep \/ ModerationStep \/ CommitStep \/ RefreshStep

Spec == Init /\ [][Next]_vars

(* Promises settle and their continuations run: no task waits forever.     *)
Fairness ==
    /\ \A n \in Notice : /\ WF_vars(SweepChannel(n))
                       /\ WF_vars(RefreshMembership(n))
                       /\ WF_vars(ScanJoinedChannels(n))
    /\ \A r \in Refresh : WF_vars(RefreshMemberApply(r))
    /\ \A e \in Channels \X Users : WF_vars(EvictRevoked(e))

FairSpec == Spec /\ Fairness

-----------------------------------------------------------------------------
(* Every handler leaves each map well formed: seats of known sockets in     *)
(* voice channels, mutes and deafens keyed by server.                       *)
TypeOK ==
    /\ sockState \in [Sockets -> {"new", "live", "gone"}]
    /\ inVoice \in [Sockets -> SUBSET Channels]
    /\ seat \in [Users -> [Channels -> Seat \cup {None}]]
    /\ userVoiceChannel \in [Users -> Channels \cup {None}]
    /\ serverMuted \subseteq Servers \X Users
    /\ serverDeafened \subseteq Servers \X Users
    /\ member \in [Servers -> SUBSET Users]
    /\ visible \in [Channels -> SUBSET Users]
    /\ joins \subseteq Join /\ mods \subseteq Mod
    /\ notices \subseteq Notice /\ refreshes \subseteq Refresh
    /\ evictions \subseteq Channels \X Users
    /\ modCount \in Nat /\ changeCount \in Nat
    /\ late \subseteq Channels \X Users /\ stale \subseteq Channels \X Users

Seated(c, u) == seat[u][c] # None

(* A seat names a tab of its own user, and while that tab is connected it  *)
(* is in the channel's Socket.IO room: signalling relayed to the seat's    *)
(* socket, and roster updates sent to the room, both reach the seat.       *)
SeatSocketInRoom ==
    \A u \in Users, c \in Channels : Seated(c, u) =>
        /\ OwnerOf[seat[u][c].socket] = u
        /\ sockState[seat[u][c].socket] = "live" => c \in inVoice[seat[u][c].socket]

(* The only way a seat outlives its tab is a voice:join that was awaiting  *)
(* its access lookup when the tab closed; whatever order tabs open, move   *)
(* and close in, no other handler leaves one behind.                       *)
GhostOnlyFromLateJoin ==
    \A u \in Users, c \in Channels :
        Seated(c, u) /\ sockState[seat[u][c].socket] # "live" => <<c, u>> \in late

(* The room recorded for a user is one the user has a seat in: the next    *)
(* voice:join relies on it to give up the previous seat.                   *)
RecordedRoomIsSeated ==
    \A u \in Users : userVoiceChannel[u] # None => Seated(userVoiceChannel[u], u)

(* What makes the three above inductive: a socket in a seat or in a pending *)
(* join has connected (it may have gone since).                             *)
SocketsOpened ==
    /\ \A j \in joins : sockState[j.socket] # "new"
    /\ \A u \in Users, c \in Channels :
          Seated(c, u) => sockState[seat[u][c].socket] # "new"
SeatInv == /\ SeatSocketInRoom /\ GhostOnlyFromLateJoin
           /\ RecordedRoomIsSeated /\ SocketsOpened

OpenedBy(u) == {s \in Sockets : OwnerOf[s] = u /\ sockState[s] # "new"}
(* A user who has only ever opened one tab sits in at most one room, and   *)
(* it is the recorded one, however joins, moves, kicks and a disconnect    *)
(* overlap.                                                                *)
OneTabOneRoom ==
    \A u \in Users :
        (\A s, t \in OpenedBy(u) : s = t)
            => \A c \in Channels : Seated(c, u) => userVoiceChannel[u] = c

SilencedOn(v, u) == \A c \in Channels :
    ServerOf[c] = v /\ Seated(c, u) => seat[u][c].muted
DeafenedOn(v, u) == \A c \in Channels :
    ServerOf[c] = v /\ Seated(c, u) => seat[u][c].deafened /\ seat[u][c].muted
(* While a user is server-muted or server-deafened, no step of anyone opens *)
(* the mic (or the ears) of any seat of theirs on that server once these    *)
(* are all closed: not a toggle, a rejoin, another tab's join, nor a move.  *)
ModerationSticks ==
    [][\A v \in Servers, u \in Users :
        /\ (<<v, u>> \in serverMuted \cap serverMuted' /\ SilencedOn(v, u))
             => SilencedOn(v, u)'
        /\ (<<v, u>> \in serverDeafened \cap serverDeafened' /\ DeafenedOn(v, u))
             => DeafenedOn(v, u)']_vars

EvictionOwed(c, u) ==
    \/ [scope |-> "channel", channel |-> c] \in notices
    \/ \E n \in notices : /\ n.scope \in {"member", "scan"}
                          /\ n.server = ServerOf[c] /\ n.user = u
    \/ \E r \in refreshes : r.user = u /\ c \in r.channels
    \/ <<c, u>> \in evictions
Overstays(c, u) == Seated(c, u) /\ ~CanView(c, u) /\ <<c, u>> \notin stale
(* A seat in a channel its user may no longer view is on its way out (the   *)
(* notice, the refresh or the eviction is pending), unless the join or move *)
(* that wrote it used an answer the database had already contradicted.      *)
RevokedSeatIsOwedEviction ==
    \A u \in Users, c \in Channels : Overstays(c, u) => EvictionOwed(c, u)

(* ... and it does go: every such seat is freed, or its access restored.    *)
RevocationSettles ==
    \A u \in Users, c \in Channels : Overstays(c, u) ~> ~Overstays(c, u)

-----------------------------------------------------------------------------
(* What the source says of itself, and these runs refute.                   *)

(* realtime/server.ts:80-81 on userSockets: "presence/voice are only torn   *)
(* down when a user's LAST tab disconnects (multi-tab no longer creates     *)
(* ghost seats)": every seat's tab is connected.                            *)
NoGhostSeat ==
    \A u \in Users, c \in Channels :
        Seated(c, u) => sockState[seat[u][c].socket] = "live"

(* NOTES.md:149, "Single voice room enforcement (server-side)": a user sits *)
(* in one voice room at a time.                                             *)
SingleVoiceRoom ==
    \A u \in Users, c, d \in Channels : Seated(c, u) /\ Seated(d, u) => c = d
=============================================================================
