---------------------------- MODULE Facilitation ----------------------------
(***************************************************************************)
(* What a Campfire voice room carries besides its seats: the lantern (a    *)
(* speaking turn with a queue), the Fireside Stage (speakers and raised    *)
(* hands) and the offshoots (side fires a few of the room sit at).         *)
(* squatch-chat/realtime/server.ts keeps all three in maps of their own,   *)
(* which have to follow the room as users join, leave, are moved or        *)
(* evicted, while handlers that wait for a permission or for the database  *)
(* hold the record they read.                                              *)
(*                                                                         *)
(* A host, holder or creator acts in one step; a moderator's handler is    *)
(* split where it waits for the permission and is a record of `tasks`      *)
(* until then.  Tabs are abstracted: a user who is seated may act.         *)
(***************************************************************************)
EXTENDS Integers, FiniteSets, Sequences, SequencesExt, Lists

CONSTANTS
  Users,
  Channels,
  OffshootIds,            \* the random identifiers in use (a bound)
  None,                   \* no record, no user, no assignment
  MaxStageSpeakers,       \* MAX_STAGE_SPEAKERS
  MaxOffshootsPerParent,  \* MAX_OFFSHOOTS_PER_PARENT
  MaxOffshootMembers,     \* MAX_OFFSHOOT_MEMBERS
  Scopes                  \* the scopes below that a behaviour may have (a bound)

Facilities == {"lantern", "stage", "offshoot"}

(* What a behaviour is limited to: the facilities the clients use in each channel,
   the users who join, how many handlers wait at once, how often a mode changes. *)
Scope == [uses: [Channels -> SUBSET Facilities], users: SUBSET Users, tasks: Nat, modeChanges: Nat]

(* The records of the four maps. *)
Lantern == [host: Users, holder: Users \cup {None}, queue: Seq(Users)]
Stage == [host: Users, speakers: Seq(Users), queue: Seq(Users)]
Offshoot == [channel: Channels, creator: Users, members: SUBSET Users]
Assignment == [channel: Channels, offshoot: OffshootIds]

ASSUME FacilitationAssumption ==
  /\ None \notin Users \cup OffshootIds \cup Channels
  /\ None \notin Lantern /\ None \notin Stage
  /\ None \notin Offshoot /\ None \notin Assignment
  /\ MaxStageSpeakers \in Nat \ {0}
  /\ MaxOffshootsPerParent \in Nat \ {0}
  /\ MaxOffshootMembers \in Nat \ {0}
  /\ \A s \in Scopes : s \in Scope

VARIABLES
  room,          \* voiceRooms: the users seated in a channel, in the map's insertion order
  lantern,       \* lanternRooms
  stage,         \* stageRooms; speakers in the set's insertion order
  offshoot,      \* offshootRooms, by identifier
  membership,    \* offshootMembership
  roomMode,      \* database: is the channel in fireside-stage mode
  tasks,         \* handlers waiting, with what they read
  unannounced,   \* channels whose last mode change no client has announced yet
  drifted,       \* history: rooms whose stage a stale answer or a move left out of step
  modeChanges,   \* counter of scope.modeChanges
  scope          \* the scope of the behaviour; never changes

rooms == <<room, lantern, stage, offshoot, membership>>
bounds == <<modeChanges, scope>>
vars == <<rooms, roomMode, tasks, unannounced, drifted, bounds>>

Task == [kind: {"join", "reconcile", "pass", "stop", "promote", "demote", "close"},
         channel: Channels, user: Users,
         target: Users \cup OffshootIds \cup {None},
         stageMode: BOOLEAN,     \* the mode read, of a join or a reconcile
         attached: BOOLEAN]      \* is the lantern or stage read still the live one

Present(c) == ToSet(room[c])
Uses(c, facility) == facility \in scope.uses[c]

TypeOK ==
  /\ room \in [Channels -> Seq(Users)]
  /\ lantern \in [Channels -> Lantern \cup {None}]
  /\ stage \in [Channels -> Stage \cup {None}]
  /\ \A c \in Channels : /\ IsInjective(room[c])
                         /\ stage[c] # None => IsInjective(stage[c].speakers)
  /\ offshoot \in [OffshootIds -> Offshoot \cup {None}]
  /\ membership \in [Users -> Assignment \cup {None}]
  /\ roomMode \in [Channels -> BOOLEAN]
  /\ tasks \subseteq Task
  /\ unannounced \subseteq Channels
  /\ drifted \subseteq Channels
  /\ modeChanges \in 0..scope.modeChanges
  /\ scope \in Scopes

Init ==
  /\ room = [c \in Channels |-> <<>>]
  /\ lantern = [c \in Channels |-> None]
  /\ stage = [c \in Channels |-> None]
  /\ offshoot = [o \in OffshootIds |-> None]
  /\ membership = [u \in Users |-> None]
  /\ scope \in Scopes
  /\ roomMode \in [Channels -> BOOLEAN]
  /\ \A c \in Channels : roomMode[c] => Uses(c, "stage")
  /\ tasks = {}
  /\ unannounced = {}
  /\ drifted = {}
  /\ modeChanges = 0

-----------------------------------------------------------------------------
(* The records when a user leaves a room; r is the room without the user. *)

(* advanceLantern: to the first in the queue who is still there. *)
LanternAdvanced(l, r) ==
  LET next == FirstPlace(l.queue, ToSet(r))
  IN IF next = 0 THEN [l EXCEPT !.holder = None, !.queue = <<>>]
     ELSE [l EXCEPT !.holder = l.queue[next],
                    !.queue = SubSeq(l.queue, next + 1, Len(l.queue))]

LanternKeptBy(l, r, u) ==                                           \* mutant
  IF l = None \/ r = <<>> THEN None
  ELSE [l EXCEPT !.queue = Dropping(@, {u}), !.host = IF @ = u THEN Head(r) ELSE @]
LanternHostKept(l, r, u) ==                                         \* mutant
  IF l = None \/ r = <<>> THEN None
  ELSE LET waiting == [l EXCEPT !.queue = Dropping(@, {u})]
       IN IF l.holder = u THEN LanternAdvanced(waiting, r) ELSE waiting
(* removeFromLantern: out of the queue, out of hand, out of the host's chair. *)
LanternWithout(l, r, u) ==
  IF l = None \/ r = <<>> THEN None
  ELSE LET waiting == [l EXCEPT !.queue = Dropping(@, {u})]
           passed == IF l.holder = u THEN LanternAdvanced(waiting, r) ELSE waiting
           heir == IF passed.holder \in ToSet(r) THEN passed.holder ELSE Head(r)
       IN [passed EXCEPT !.host = IF @ = u THEN heir ELSE @]

(* removeFromStage: the first speaker left, or else the first in the room, hosts. *)
StageWithout(s, r, u) ==
  IF s = None \/ r = <<>> THEN None
  ELSE LET left == [s EXCEPT !.speakers = Dropping(@, {u}), !.queue = Dropping(@, {u})]
           first == FirstPlace(left.speakers, ToSet(r))
           heir == IF first = 0 THEN Head(r) ELSE left.speakers[first]
       IN IF s.host # u THEN left
          ELSE [left EXCEPT !.host = heir,
                            !.speakers = IF heir \in ToSet(@) THEN @ ELSE Append(@, heir)]

(* The side fire of u closes when its creator or its last member leaves it. *)
ClosedBy(u) ==
  {o \in OffshootIds : /\ membership[u] # None /\ o = membership[u].offshoot
                       /\ offshoot[o] # None
                       /\ (offshoot[o].creator = u \/ offshoot[o].members = {u})}

OffshootsWithout(u) ==
  [o \in OffshootIds |->
     IF o \in ClosedBy(u) THEN None
     ELSE IF membership[u] # None /\ o = membership[u].offshoot /\ offshoot[o] # None
       THEN [offshoot[o] EXCEPT !.members = @ \ {u}]
       ELSE offshoot[o]]

OwnMembershipGone(u) == [membership EXCEPT ![u] = None]             \* mutant
MembershipWithout(u) ==
  [v \in Users |->
     IF v = u \/ \E o \in ClosedBy(u) : v \in offshoot[o].members /\ membership[v] = membership[u]
     THEN None ELSE membership[v]]

(* u gives up a place at a side fire, whichever room it belongs to. *)
LeaveOffshoot(u) ==
  /\ offshoot' = OffshootsWithout(u)
  /\ membership' = MembershipWithout(u)

(* Of the waiting handlers, those whose lantern or stage has just ended hold a
   record that is no longer in the map. *)
Detached(waiting) ==
  {[t EXCEPT !.attached = @ /\ CASE t.kind \in {"pass", "stop"} -> lantern'[t.channel] # None
                                 [] t.kind \in {"promote", "demote"} -> stage'[t.channel] # None
                                 [] OTHER -> TRUE] : t \in waiting}

StageInStep(c, members, s, mode) == members # <<>> => ((s # None) <=> mode)

(* Rooms that the step leaves out of step, if it is one of the steps that may. *)
Drift(suspects) ==
  drifted' = {c \in drifted \cup suspects :
                ~StageInStep(c, room'[c], stage'[c], roomMode'[c])}

-----------------------------------------------------------------------------
(* Rooms *)

RoomWithout(r, u) == Dropping(r, {u})
RoomWith(r, u) == IF u \in ToSet(r) THEN r ELSE Append(r, u)

WaitFor(t) == /\ Cardinality(tasks) < scope.tasks
              /\ tasks' = tasks \cup {t}
              /\ UNCHANGED <<rooms, roomMode, drifted, bounds>>

Asked(kind, c, u, target, mode) ==
  [kind |-> kind, channel |-> c, user |-> u, target |-> target, stageMode |-> mode, attached |-> TRUE]

(* voice:join reads the room's mode with the user's access. *)
JoinRead(u, c) ==
  /\ u \in scope.users
  /\ WaitFor(Asked("join", c, u, None, roomMode[c]))
  /\ UNCHANGED unannounced

(* ... and seats the user, who leaves the previous room if this tab held that
   seat; the first arrival of a stage room opens the stage. *)
JoinComplete(t, from) ==
  /\ t.kind = "join"
  /\ from # t.channel
  /\ from # None => t.user \in Present(from)
  /\ LET u == t.user
         c == t.channel
     IN /\ room' = [d \in Channels |-> CASE d = c -> RoomWith(room[c], u)
                                         [] d = from -> RoomWithout(room[d], u)
                                         [] OTHER -> room[d]]
        /\ lantern' = [d \in Channels |->
                         IF d = from THEN LanternWithout(lantern[d], room'[d], u) ELSE lantern[d]]
        /\ stage' = [d \in Channels |->
                       CASE d = from -> StageWithout(stage[d], room'[d], u)
                         [] d = c /\ t.stageMode /\ stage[c] = None ->
                              [host |-> u, speakers |-> <<u>>, queue |-> <<>>]
                         [] OTHER -> stage[d]]
        /\ IF from # None THEN LeaveOffshoot(u) ELSE UNCHANGED <<offshoot, membership>>
        /\ tasks' = Detached(tasks \ {t})
        /\ UNCHANGED <<roomMode, unannounced, bounds>>
        /\ Drift(IF t.stageMode # roomMode[c] THEN {c} ELSE {})

VacateRoom(u, c) ==
  /\ room' = [room EXCEPT ![c] = RoomWithout(@, u)]
  /\ lantern' = [lantern EXCEPT ![c] = LanternWithout(@, room'[c], u)]
  /\ stage' = [stage EXCEPT ![c] = StageWithout(@, room'[c], u)]
  /\ tasks' = Detached(tasks)
  /\ UNCHANGED <<roomMode, unannounced, bounds>>
  /\ Drift({})

(* leaveVoiceChannel, by the user or at a disconnect: any side fire is left. *)
Leave(u, c) ==
  /\ u \in Present(c)
  /\ VacateRoom(u, c)
  /\ LeaveOffshoot(u)

(* evictVoiceParticipant: only a side fire of the same room is left. *)
Evict(u, c) ==
  /\ u \in Present(c)
  /\ VacateRoom(u, c)
  /\ IF membership[u] # None /\ membership[u].channel = c
     THEN LeaveOffshoot(u) ELSE UNCHANGED <<offshoot, membership>>

(* mod:move-user: the new room's stage is not opened. *)
Move(u, from, to) ==
  /\ from # to
  /\ u \in Present(from)
  /\ room' = [room EXCEPT ![from] = RoomWithout(@, u), ![to] = RoomWith(@, u)]
  /\ lantern' = [lantern EXCEPT ![from] = LanternWithout(@, room'[from], u)]
  /\ stage' = [stage EXCEPT ![from] = StageWithout(@, room'[from], u)]
  /\ LeaveOffshoot(u)
  /\ tasks' = Detached(tasks)
  /\ UNCHANGED <<roomMode, unannounced, bounds>>
  /\ Drift({to})

-----------------------------------------------------------------------------
(* Handlers that waited resume one at a time. *)
Resume(t) == tasks' = tasks \ {t}

(* The database says that the user may not control the room. *)
Refused(t) ==
  /\ t.kind \in {"pass", "stop", "promote", "demote", "close"}
  /\ Resume(t)
  /\ UNCHANGED <<rooms, roomMode, unannounced, drifted, bounds>>

-----------------------------------------------------------------------------
(* The lantern *)

LanternStep == UNCHANGED <<room, stage, offshoot, membership, roomMode, unannounced, drifted, bounds>>

LanternStart(u, c) ==
  /\ Uses(c, "lantern")
  /\ u \in Present(c)
  /\ lantern[c] = None
  /\ lantern' = [lantern EXCEPT ![c] = [host |-> u, holder |-> u, queue |-> <<>>]]
  /\ UNCHANGED tasks
  /\ LanternStep

(* A lantern that nobody holds is taken at once. *)
LanternAsked(l, u) ==
  IF l.holder = None THEN [l EXCEPT !.holder = u]
  ELSE [l EXCEPT !.queue = Append(@, u)]

LanternRequest(u, c) ==
  /\ lantern[c] # None
  /\ u \in Present(c)
  /\ lantern[c].holder # u
  /\ u \notin ToSet(lantern[c].queue)
  /\ lantern' = [lantern EXCEPT ![c] = LanternAsked(@, u)]
  /\ UNCHANGED tasks
  /\ LanternStep

(* Neither the new holder nor the one who had it waits for it. *)
LanternPassed(l, r, v) ==
  LET done == {v} \cup ({l.holder} \cap ToSet(r))
  IN [l EXCEPT !.holder = v, !.queue = Dropping(@, done)]

(* lantern:pass of the holder or the host: no wait. *)
LanternPass(u, v, c) ==
  /\ lantern[c] # None
  /\ {u, v} \subseteq Present(c)
  /\ u \in {lantern[c].holder, lantern[c].host}
  /\ lantern' = [lantern EXCEPT ![c] = LanternPassed(@, room[c], v)]
  /\ UNCHANGED tasks
  /\ LanternStep

LanternPassRead(u, v, c) ==
  /\ lantern[c] # None
  /\ {u, v} \subseteq Present(c)
  /\ u \notin {lantern[c].holder, lantern[c].host}
  /\ WaitFor(Asked("pass", c, u, v, FALSE))
  /\ UNCHANGED unannounced

(* ... of a moderator: the record read before the wait is changed. *)
LanternPassDone(t) ==
  /\ t.kind = "pass"
  /\ lantern' = IF t.attached
                THEN [lantern EXCEPT ![t.channel] = LanternPassed(@, room[t.channel], t.target)]
                ELSE lantern
  /\ Resume(t)
  /\ LanternStep

LanternRelease(u, c) ==
  /\ lantern[c] # None
  /\ lantern[c].holder = u
  /\ lantern' = [lantern EXCEPT ![c] = LanternAdvanced(@, room[c])]
  /\ UNCHANGED tasks
  /\ LanternStep

LanternStop(u, c) ==
  /\ lantern[c] # None
  /\ u \in Present(c)
  /\ lantern[c].host = u
  /\ lantern' = [lantern EXCEPT ![c] = None]
  /\ tasks' = Detached(tasks)
  /\ LanternStep

LanternStopRead(u, c) ==
  /\ lantern[c] # None
  /\ u \in Present(c)
  /\ lantern[c].host # u
  /\ WaitFor(Asked("stop", c, u, None, FALSE))
  /\ UNCHANGED unannounced

(* ... of a moderator: whatever lantern the room has by now is ended. *)
LanternStopDone(t) ==
  /\ t.kind = "stop"
  /\ lantern' = [lantern EXCEPT ![t.channel] = None]
  /\ tasks' = Detached(tasks \ {t})
  /\ LanternStep

-----------------------------------------------------------------------------
(* The stage *)

StageStep == UNCHANGED <<room, lantern, offshoot, membership, roomMode, unannounced, drifted, bounds>>

StageRequest(u, c) ==
  /\ stage[c] # None
  /\ u \in Present(c)
  /\ u \notin ToSet(stage[c].speakers) \cup ToSet(stage[c].queue)
  /\ stage' = [stage EXCEPT ![c].queue = Append(@, u)]
  /\ UNCHANGED tasks
  /\ StageStep

StageWithdraw(u, c) ==
  /\ stage[c] # None
  /\ u \in Present(c)
  /\ u \in ToSet(stage[c].queue)
  /\ stage' = [stage EXCEPT ![c].queue = Dropping(@, {u})]
  /\ UNCHANGED tasks
  /\ StageStep

Promoted(s, v) == [s EXCEPT !.speakers = Append(@, v), !.queue = Dropping(@, {v})]
Demoted(s, v) == [s EXCEPT !.speakers = Dropping(@, {v}), !.queue = Dropping(@, {v})]

PromotedFromRoom(s, c, v) ==                                        \* mutant
  v \notin ToSet(s.speakers) /\ Cardinality(ToSet(s.speakers)) < MaxStageSpeakers
PromotedAgain(s, c, v) ==                                           \* mutant
  v \in Present(c) /\ Cardinality(ToSet(s.speakers) \cap Present(c)) < MaxStageSpeakers
(* The checks of stage:promote that follow the permission. *)
MayBePromoted(s, c, v) ==
  /\ v \in Present(c)
  /\ v \notin ToSet(s.speakers)
  /\ Cardinality(ToSet(s.speakers) \cap Present(c)) < MaxStageSpeakers

StagePromote(u, v, c) ==
  /\ stage[c] # None
  /\ u \in Present(c)
  /\ stage[c].host = u
  /\ MayBePromoted(stage[c], c, v)
  /\ stage' = [stage EXCEPT ![c] = Promoted(@, v)]
  /\ UNCHANGED tasks
  /\ StageStep

StagePromoteRead(u, v, c) ==
  /\ stage[c] # None
  /\ u \in Present(c)
  /\ stage[c].host # u
  /\ WaitFor(Asked("promote", c, u, v, FALSE))
  /\ UNCHANGED unannounced

StagePromoteDone(t) ==
  /\ t.kind = "promote"
  /\ LET c == t.channel
     IN stage' = IF t.attached /\ MayBePromoted(stage[c], c, t.target)
                 THEN [stage EXCEPT ![c] = Promoted(@, t.target)]
                 ELSE stage
  /\ Resume(t)
  /\ StageStep

(* stage:demote: a speaker steps down, or the host moves one to the audience. *)
StageDemote(u, v, c) ==
  /\ stage[c] # None
  /\ u \in Present(c)
  /\ v \in ToSet(stage[c].speakers)
  /\ u \in {v, stage[c].host}
  /\ stage' = [stage EXCEPT ![c] = Demoted(@, v)]
  /\ UNCHANGED tasks
  /\ StageStep

StageDemoteRead(u, v, c) ==
  /\ stage[c] # None
  /\ u \in Present(c)
  /\ v \in ToSet(stage[c].speakers)
  /\ u \notin {v, stage[c].host}
  /\ WaitFor(Asked("demote", c, u, v, FALSE))
  /\ UNCHANGED unannounced

StageDemoteDone(t) ==
  /\ t.kind = "demote"
  /\ stage' = IF t.attached
              THEN [stage EXCEPT ![t.channel] = Demoted(@, t.target)]
              ELSE stage
  /\ Resume(t)
  /\ StageStep

(* An administrator changes the room's mode over HTTP; the client is to announce
   it with channels:updated. *)
ChangeMode(c) ==
  /\ Uses(c, "stage")
  /\ modeChanges < scope.modeChanges
  /\ modeChanges' = modeChanges + 1
  /\ roomMode' = [roomMode EXCEPT ![c] = ~@]
  /\ unannounced' = unannounced \cup {c}
  /\ UNCHANGED <<rooms, tasks, drifted, scope>>

(* channels:updated, of any member at any time, reads the channel... *)
ReconcileRead(u, c) ==
  /\ Uses(c, "stage")
  /\ u \in scope.users
  /\ WaitFor(Asked("reconcile", c, u, None, roomMode[c]))
  /\ unannounced' = unannounced \ {c}

StageOnlyOpened(s, r, u, mode) ==                                   \* mutant
  IF mode /\ s = None /\ r # <<>>
  THEN [host |-> Head(r), speakers |-> <<Head(r)>>, queue |-> <<>>] ELSE s
StageReconciled(s, r, u, mode) ==
  IF mode /\ s = None /\ r # <<>>
  THEN LET host == IF u \in ToSet(r) THEN u ELSE Head(r)
       IN [host |-> host, speakers |-> <<host>>, queue |-> <<>>]
  ELSE IF mode THEN s ELSE None

(* ... and, having told the members who may see it, opens or ends the stage. *)
ReconcileDone(t) ==
  /\ t.kind = "reconcile"
  /\ LET c == t.channel
     IN /\ stage' = [stage EXCEPT ![c] = StageReconciled(@, room[c], t.user, t.stageMode)]
        /\ tasks' = Detached(tasks \ {t})
        /\ UNCHANGED <<room, lantern, offshoot, membership, roomMode, unannounced, bounds>>
        /\ Drift(IF t.stageMode # roomMode[c] THEN {c} ELSE {})

-----------------------------------------------------------------------------
(* Side fires *)

OffshootStep == UNCHANGED <<room, lantern, stage, roomMode, unannounced, drifted, bounds>>

OffshootsOf(c) == {o \in OffshootIds : offshoot[o] # None /\ offshoot[o].channel = c}
FreshIds == {o \in OffshootIds : offshoot[o] = None /\ \A t \in tasks : t.target # o}

OffshootCreate(u, c, o) ==
  /\ Uses(c, "offshoot")
  /\ u \in Present(c)
  /\ membership[u] = None
  /\ Cardinality(OffshootsOf(c)) < MaxOffshootsPerParent
  /\ o \in FreshIds
  /\ offshoot' = [offshoot EXCEPT ![o] = [channel |-> c, creator |-> u, members |-> {u}]]
  /\ membership' = [membership EXCEPT ![u] = [channel |-> c, offshoot |-> o]]
  /\ UNCHANGED tasks
  /\ OffshootStep

(* offshoot:join; the fire the user sat at before is left, and may close. *)
OffshootJoin(u, c, o) ==
  /\ o \in OffshootsOf(c)
  /\ u \in Present(c)
  /\ u \notin offshoot[o].members
  /\ Cardinality(offshoot[o].members) < MaxOffshootMembers
  /\ offshoot' = [OffshootsWithout(u) EXCEPT ![o].members = @ \cup {u}]
  /\ membership' = [MembershipWithout(u) EXCEPT ![u] = [channel |-> c, offshoot |-> o]]
  /\ UNCHANGED tasks
  /\ OffshootStep

OffshootLeave(u, c) ==
  /\ u \in Present(c)
  /\ membership[u] # None
  /\ membership[u].channel = c
  /\ LeaveOffshoot(u)
  /\ UNCHANGED tasks
  /\ OffshootStep

(* closeOffshoot: nothing happens if the fire is gone. *)
CloseOffshoot(c, o) ==
  IF o \in OffshootsOf(c)
  THEN /\ offshoot' = [offshoot EXCEPT ![o] = None]
       /\ membership' = [v \in Users |-> IF /\ v \in offshoot[o].members
                                            /\ membership[v] = [channel |-> c, offshoot |-> o]
                                         THEN None ELSE membership[v]]
  ELSE UNCHANGED <<offshoot, membership>>

OffshootClose(u, c, o) ==
  /\ o \in OffshootsOf(c)
  /\ u \in Present(c)
  /\ offshoot[o].creator = u
  /\ CloseOffshoot(c, o)
  /\ UNCHANGED tasks
  /\ OffshootStep

OffshootCloseRead(u, c, o) ==
  /\ o \in OffshootsOf(c)
  /\ u \in Present(c)
  /\ offshoot[o].creator # u
  /\ WaitFor(Asked("close", c, u, o, FALSE))
  /\ UNCHANGED unannounced

OffshootCloseDone(t) ==
  /\ t.kind = "close"
  /\ CloseOffshoot(t.channel, t.target)
  /\ Resume(t)
  /\ OffshootStep

-----------------------------------------------------------------------------
UserStep(u, c) ==
  \/ JoinRead(u, c)
  \/ Leave(u, c)
  \/ Evict(u, c)
  \/ \E to \in Channels : Move(u, c, to)
  \/ LanternStart(u, c)
  \/ LanternRequest(u, c)
  \/ \E v \in Users : LanternPass(u, v, c)
  \/ \E v \in Users : LanternPassRead(u, v, c)
  \/ LanternRelease(u, c)
  \/ LanternStop(u, c)
  \/ LanternStopRead(u, c)
  \/ StageRequest(u, c)
  \/ StageWithdraw(u, c)
  \/ \E v \in Users : StagePromote(u, v, c)
  \/ \E v \in Users : StagePromoteRead(u, v, c)
  \/ \E v \in Users : StageDemote(u, v, c)
  \/ \E v \in Users : StageDemoteRead(u, v, c)
  \/ ReconcileRead(u, c)
  \/ \E o \in OffshootIds : OffshootCreate(u, c, o)
  \/ \E o \in OffshootIds : OffshootJoin(u, c, o)
  \/ OffshootLeave(u, c)
  \/ \E o \in OffshootIds : OffshootClose(u, c, o)
  \/ \E o \in OffshootIds : OffshootCloseRead(u, c, o)

TaskStep(t) ==
  \/ \E from \in Channels \cup {None} : JoinComplete(t, from)
  \/ Refused(t)
  \/ LanternPassDone(t)
  \/ LanternStopDone(t)
  \/ StagePromoteDone(t)
  \/ StageDemoteDone(t)
  \/ ReconcileDone(t)
  \/ OffshootCloseDone(t)

Next ==
  \/ \E u \in Users, c \in Channels : UserStep(u, c)
  \/ \E t \in tasks : TaskStep(t)
  \/ \E c \in Channels : ChangeMode(c)

Spec == Init /\ [][Next]_vars

-----------------------------------------------------------------------------
(* A lantern burns only in a room with people in it, its host and everyone who
   waits for it are among them, nobody waits for it twice or while holding it, and
   nobody waits for a lantern that no one holds: every way out of a room (leave,
   eviction, move, the previous room of a join), a release and a late pass have to
   clean all of it up. *)
LanternFollowsRoom ==
  \A c \in Channels : lantern[c] # None =>
    /\ lantern[c].host \in Present(c)
    /\ ToSet(lantern[c].queue) \subseteq Present(c)
    /\ IsInjective(lantern[c].queue)
    /\ lantern[c].holder \notin ToSet(lantern[c].queue)
    /\ lantern[c].holder = None => lantern[c].queue = <<>>

HolderAway(c) == lantern[c] # None /\ lantern[c].holder # None /\ lantern[c].holder \notin Present(c)

(* The lantern comes into the hands of someone who is not in the room only when a
   moderator's lantern:pass, which checks the target before it waits for the
   permission, resumes after the target has left. *)
HolderStrandedByLatePass ==
  [][\A c \in Channels : HolderAway(c)' /\ ~HolderAway(c) =>
       \E t \in tasks : /\ t.kind = "pass" /\ t.channel = c /\ t.attached
                        /\ tasks' = tasks \ {t}
                        /\ lantern'[c].holder = t.target]_vars

(* A stage has its host, speakers and raised hands in the room and never more
   speakers than fit, though a promotion waits for a permission while speakers
   come and go and a new host is made a speaker without asking for room.  Only that
   new host may be a speaker who still has a hand up. *)
StageFollowsRoom ==
  \A c \in Channels : stage[c] # None =>
    /\ stage[c].host \in Present(c)
    /\ ToSet(stage[c].speakers) \subseteq Present(c)
    /\ ToSet(stage[c].queue) \subseteq Present(c)
    /\ IsInjective(stage[c].queue)
    /\ Len(stage[c].speakers) <= MaxStageSpeakers
    /\ ToSet(stage[c].speakers) \cap ToSet(stage[c].queue) \subseteq {stage[c].host}

(* An occupied room has a stage exactly when its mode says so, once the last
   change of mode has been announced and carried out; the rooms that escape are
   those in `drifted`: a join or an announcement that resumed with an older mode,
   or a first arrival moved there by a moderator. *)
StageFollowsMode ==
  \A c \in Channels :
    \/ StageInStep(c, room[c], stage[c], roomMode[c])
    \/ c \in unannounced \cup drifted
    \/ \E t \in tasks : t.kind = "reconcile" /\ t.channel = c

(* The two maps of the side fires agree and follow the seats: who is listed at a
   fire is assigned to it and seated in its parent room, its creator is among
   them, and the limits on fires and members hold. *)
SideFiresAgree ==
  /\ \A u \in Users : membership[u] # None =>
       /\ offshoot[membership[u].offshoot] # None
       /\ offshoot[membership[u].offshoot].channel = membership[u].channel
       /\ u \in offshoot[membership[u].offshoot].members
  /\ \A o \in OffshootIds : offshoot[o] # None =>
       /\ offshoot[o].creator \in offshoot[o].members
       /\ offshoot[o].members \subseteq Present(offshoot[o].channel)
       /\ \A u \in offshoot[o].members : /\ membership[u] # None
                                         /\ membership[u].offshoot = o
       /\ Cardinality(offshoot[o].members) <= MaxOffshootMembers
  /\ \A c \in Channels : Cardinality(OffshootsOf(c)) <= MaxOffshootsPerParent
=============================================================================
