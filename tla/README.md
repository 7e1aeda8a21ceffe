# Campfire and Dead Giveaway: a formal model

This repository holds two servers. **Campfire** (`squatch-chat/`) is a community
chat: a Next.js HTTP API over a database, and a Socket.IO server
(`realtime/server.ts`) that keeps presence, voice rooms and their moderation in
memory. **Dead Giveaway** (`dead-giveaway-server/`) is a party game: a table of
up to eight players driven by a Socket.IO server, its rules in `src/rules.js` and
its tables and clock in `src/rooms.js`. A desktop shell (`desktop/`,
`squatch-chat/desktop/`) starts the same Campfire server locally.

Both programs are single-process JavaScript. Nothing runs in parallel, but a
handler that awaits the database is suspended, and every other handler may run
before it resumes with what it read. That, and users who open several tabs, drop,
come back and leave at any moment, is where these programs are hard.

## Inventory

| Component | State | Operations | What makes it correct |
|---|---|---|---|
| Voice seats and moderation (`realtime/server.ts`) | `voiceRooms`, `userVoiceChannel`, `userSockets`, Socket.IO rooms, `serverMuted`, `serverDeafened` | connect, disconnect, `voice:join/leave/mute/deafen`, `mod:server-mute/server-deafen/kick-voice/move-user` | seats, rooms and the recorded room agree; moderation is not undone by the user |
| Authorization refresh (`lib/realtimeControl.ts`, `realtime/server.ts` 448–630) | pending notices, reads in flight | `refreshMemberForServer`, `refreshChannelAuthorization`, `evictVoiceParticipant` | a user who lost access does not stay seated or listed |
| Lantern, stage, side fires (`realtime/server.ts`) | `lanternRooms`, `stageRooms`, `offshootRooms`, `offshootMembership` | `lantern:*`, `stage:*`, `offshoot:*`, `channels:updated` | records follow the room through every way in and out of it; limits hold across awaits |
| Presence and status (`realtime/server.ts`, `lib/socket.ts`, `hooks/usePresence.ts`) | `onlineUsers`, `userStatus`, grace timers, `server:*` rooms, the page's own status | connect lookup, `server:join/leave`, `presence:status`, last disconnect | listed only with a tab; what watchers were told is true; a chosen status survives a reconnect |
| Sessions of sockets (`realtime/server.ts`, `app/chat/page.tsx`) | `tokenVersion`, the tokens sockets were opened with | handshake, notification, minute sweep, the page's retry or logout | a revoked session is disconnected, a valid one comes back |
| Messages and the pages that show them (HTTP, `realtime/server.ts`, `ChatPanel.tsx`) | the row; the optimistic list, the channel room and the page of history of each tab | send, edit, delete, relay, load, leave, reconnect | pages show what the database holds |
| Scheduled delivery (`lib/scheduledDelivery.ts`, `server.ts`) | scheduled rows | claim and insert in one transaction, announce | delivered once, announced |
| Attachments, threads, journal, retention (HTTP, `lib/messageRetention.ts`) | `PrivateUpload` rows, files, messages and their parents, journal entries | upload, claim, delete, purge, sweep | what is shown can be fetched, what is not shown is removed |
| Webhook idempotency and billing (`lib/webhook-idempotency.ts`, `lib/stripe.ts`) | `webhookEvent` rows, the user's billing columns | claim, take over, handle, complete, release | handled at least once before the 200, newest event wins |
| Invites, members, permissions (HTTP) | memberships, overrides | join, kick, ban, override | a change reaches the open sockets |
| Polls, reactions, pins, slow mode, guest cleanup, rate limits | database rows or counters | one statement or transaction each | — |
| Offline queue (client) | `localStorage` | flush; nothing calls its `enqueue` | — |
| Dead Giveaway rules (`rules.js`) | one room record | seating, host, deal, clues, discussion, vote, last word, payback, departures, timers | the round is playable while open, ledgers agree, the host exists, the round ends |
| Dead Giveaway tables (`rooms.js`) | tokens, sockets, grace | create, join, disconnect, leave, tick | a table lives while someone may return |
| Transport, cards, TURN, desktop, packaging, UI | — | — | not state machines of their own |

**Interaction.** HTTP routes change rows in the database; the ones that change
access then call `notifyRealtimeAuthorizationChange`, and the realtime server re-reads
and evicts. Facilitation state hangs off the voice seats. Changes of messages reach
other tabs only because the author's page, once answered, asks the realtime server to
relay them; scheduled messages are announced by the server's own worker. Deleting
messages leads to the removal of uploads, after the transaction. In Dead Giveaway the
transport calls the table registry, which calls the rules; a 250 ms tick drives
every timeout. `PROJECT.json` lists each component with its status, and the hazards
of the code line by line with the properties that watch them.

## Modules

| Module | Models | Instance |
|---|---|---|
| `VoiceRooms` | the seats, rooms, flags and refreshes of Campfire's voice server, and the route commits that trigger refreshes | `MCVoiceRooms` |
| `Facilitation` | the lantern, the stage and the side fires of voice rooms | `MCFacilitation` |
| `Presence` | sockets, sessions, status and the list of online members, for one user in one server | `MCPresence` |
| `Timeline` | one message of a text channel in the database and in the pages that show it | `MCTimeline` |
| `Attachments` | uploads, messages with threads, the journal and the cleanups of one channel | `MCAttachments` |
| `BillingLedger` | what the billing webhook promises (abstract) | — |
| `BillingWebhooks` | how it does it: claims, takeovers, failures and crashes; implements `BillingLedger` | `MCBillingWebhooks` |
| `DeadGiveaway` | one Dead Giveaway table: rules and clock | `MCDeadGiveaway` |
| `Lists` | what `sort`, `filter` and `findIndex` make of a list, in closed form | — |
| `VoiceRoomsProofs`, `FacilitationProofs`, `PresenceProofs`, `TimelineProofs`, `AttachmentsProofs`, `BillingWebhooksProofs`, `DeadGiveawayProofs`, `ListsProofs` | theorems about the modules they name | — |

All of them share one way of modelling a suspended handler: code that awaits the
database (or another server) is split there, and what it has read so far is a record,
in `tasks`, `lookups`, `requests`, `relays` or `job`, or in the `pc` of a worker. Every
other action may come in between. Operators marked `\* mutant` are
plausible errors of the code, kept to show that a property notices them;
no action uses them.

### VoiceRooms

The variables carry the source's names; `seat[u][c]` is `voiceRooms.get(c).get(u)`
and `inVoice[s]` is the socket's membership of the Socket.IO rooms `voice:*`. A
handler without an await is one action. A handler with one is split where it
resumes, and what it read is a record in a task set:

| Code | Actions |
|---|---|
| `voice:join` | `JoinRead`, then `JoinComplete` on what it read |
| `mod:*` | `ModRead` (the permission and membership reads), then `ServerMute`, `ServerDeafen`, `Kick`, `Move` |
| `refreshMemberForServer` | `RefreshMembership`, `ScanJoinedChannels`, `RefreshMemberApply` |
| `refreshChannelForUser` | its read ends `SweepChannel` or `RefreshMemberApply`; `EvictRevoked` evicts |
| route commit and notice | `RemoveMember`, `AddMember`, `SetAudience`, leaving a notice |
| disconnect, expired session | `Disconnect` |

`CanView` is the outcome of the channel-access function: membership and the
audience of the channel's overrides. Two variables are history only: `late` marks
seats written by a join whose tab had closed, `stale` seats written on an access
answer that the database had since contradicted. Nothing in the actions reads them.

Left out: broadcasts, cameras, avatars, names; text-channel and server rooms; the
lantern, stage and offshoots that `leaveVoiceChannel` and `evictVoiceParticipant` also
clean up (`Facilitation` models them; no voice state depends on them); who the moderator
is (any member may be moderated); channel deletion. Awaits of `socket.join` and
`socket.leave` are not scheduling points: they resolve in the microtask queue with the
in-memory adapter. A route is assumed to reach its notice after its commit; the
audit-log write that stands between the two in the permissions route is a listed hazard.

### Facilitation

`room`, `lantern`, `stage`, `offshoot` and `membership` are the source's maps, `room[c]`
in the insertion order of the `Map`, which decides who inherits a stage or the host's
part at a lantern. Every way out of a room goes through one set of operators:
`LanternWithout`, `StageWithout` and `OffshootsWithout` are what `leaveVoiceChannel` and
`evictVoiceParticipant` do to the records, and `Leave`, `Evict`, `Move` and the previous
room of `JoinComplete` are made of them.

| Code | Actions |
|---|---|
| `voice:join` | `JoinRead` (channel and mode), `JoinComplete` |
| `lantern:start/request/pass/release/stop` | `Lantern*`; a moderator's pass and stop are `LanternPassRead`/`LanternPassDone` and `LanternStopRead`/`LanternStopDone`, split at the permission |
| `stage:request/withdraw/promote/demote` | `Stage*`, promote and demote split in the same way |
| a change of the channel's mode, `channels:updated` | `ChangeMode`, `ReconcileRead`, `ReconcileDone` |
| `offshoot:create/join/leave/close` | `Offshoot*`, a moderator's close split |

A handler that resumes writes into the record it read before, which may have been
replaced since: `attached` says that it is still the live one (`Detached` clears it).
A refused permission is the action `Refused`. Tabs are abstracted (a seated user may
act), payloads, timers that clients draw and broadcasts are left out, and a database
that fails in one of these lookups is not modelled. `scope` limits a behaviour to one
facility, its users and its waiting handlers: the facilities share nothing but the room.
`drifted` is history: rooms whose stage a stale mode or a move left out of step.

### Presence

One user and one server: no handler here reads another user's entry or another
server's list. `tab[t]` is where the socket of a page stands, from `down` over a
handshake that was `admitted` (the token was read, the connection is not up yet) to `up`,
or refused (`unauthorized`, `unavailable`). `token[t]` is the version it was opened with,
`version` the user's `tokenVersion`, `cookie` the browser's session.

| Code | Actions |
|---|---|
| the handshake middleware, `connection` | `Admit`, `Refuse`, `Connect` |
| the page's reaction to a refusal | `TryAgain`, `LogOut` |
| revocation, its notification, the sweep | `Revoke`, `Purge`, `Sweep` |
| `disconnect`, closing a page | `Drop`, `Close` (both `Disconnected`), `Forget` when the grace ends |
| `presence:status`, the page's own status and its repetition at connect | `Choose`, `SetStatus`, `IgnoreStatus` (over the limit) |
| the membership lookup at connect, `server:join`, `server:leave` | `Read`, then `ListAfterConnect`, `ListAfterJoin`; `LeaveServer` |
| removal, return, `refreshMemberForServer` | `Remove`, `Rejoin`, `Read`, `Refresh` |

`shown` is what the last `presence:update` said of the user: broadcasting is part of the
model because the watchers' picture is built from it. `astray` and `missed` are history:
pages whose status the server need not have (another tab chose later, the limit was
hit, "online" was chosen while not connected), and a removal whose refresh could not
ask the database or was followed by an older answer.

### Timeline

One message and the pages of one channel; messages do not interact in a page's list,
so one is enough. `view[t]` is what a page shows of it: usually nothing or one entry, two
when a placeholder and the message stand side by side.

| Code | Actions |
|---|---|
| `handleSend`, `handleEdit`, `handleDelete` and their routes | `Send`, `Edit`, `Delete` (what the page shows at once), the routes (`InsertRow` of the POST, `UpdateRow` of the PATCH, `Find` and then `DeleteRow` of the DELETE; together `Proceed`), `Answer`, `Refuse`, `AnswerLost` |
| `message:send/edit/delete` of the realtime server | the emit is part of `Answer` (kept in `buffered` while the socket is down); `RelayRead`, `RelaySend`, `RelayDropped` |
| what a page does with a relayed change | `Deliver`, in the step that sends |
| due scheduled messages | `DeliverScheduled(announced)`: announced by the server's own worker, not by the external endpoint |
| retention | `Expire` |
| opening, loading and leaving a channel | `Open`, `PageRead`, `PageArrives`, `PageFails`, `Retry`, `Close` |
| `channel:join`, connection | `JoinDone`, `Disconnect`, `Reconnect` |

`told` and `astray` are history. A page is put astray when it misses a change it would
have to hear of (it is not in the channel's room, the answer to the author is lost, the
relay is dropped, retention or an outside scheduler tells nobody), or when news comes to
it in the wrong order: an answer or relay after a later one, a page of history older
than a notice or lacking a message deleted meanwhile, a page that already holds the
message whose placeholder is shown, an answer to a page that was left.
`ViewFollowsChannel` says that nothing else goes wrong. A DELETE reads the row, asks for permissions and
deletes without looking again, so two deletions may both be answered as done. Two edits of the author in
flight at once, reactions, pins, polls, thread panels and direct messages are left out;
delivery from the server to a connected socket is immediate.

### Attachments

A row and a file are never changed together: `WriteFile` then `CreateRow` (or
`CreateFails`, which may fail to unlink the file as well) is an upload, `RemoveRow` then `Unlink` the removal in
`removeUnreferencedPrivateUpload`. `Send` is the transaction of a message, its claim of
the upload included. Deletion of a message, of a purge's messages and by the retention
sweep collects the replies (`Collect`) and deletes them (`DeleteThread`). The code collects
them level by level until a level is empty; `WithReplies` says what it has then, the least
set that holds the messages and every reply to what it holds;
the channel goes with all of its messages (`CollectChannel`, `DeleteChannel`).
`ReadMessage` and `SaveMoment` save a message to the journal, `DeleteEntry` removes an
entry. The sweep of abandoned uploads lists (`ListAbandoned`) and then removes one by
one. One statement, and the writes of one transaction, are one step; what a transaction
read before is another, as under PostgreSQL's default isolation. A statement that fails
inside a transaction rolls it back (`RollBack`); `CreateFails`, `CleanupFails` and `Crash`
may leave something behind and record it in `lost`. `late` is history: replies sent while their
thread was being deleted. Direct messages, legacy public uploads and the deletion of an
owner's uploads (called by no route) are left out.

### BillingLedger and BillingWebhooks

`BillingLedger` is the promise: Stripe emits events in the order of their seconds; each
is handled at least once before it is acknowledged, is eventually acknowledged, and the
user's record carries the newest event handled. `BillingWebhooks` is the route:
every database call and every call of Stripe's API is a step of a worker.

| Code | Actions |
|---|---|
| delivery by Stripe (external) | `Emit`, `Receive` |
| `claimEvent` | `Create`, `Read`, `TakeOver`; `ClaimAges` is the five minutes passing |
| the handlers of `lib/stripe.ts` | `Retrieve` (an invoice fetches its subscription), `Apply` (the conditional update) |
| `completeEvent`, `releaseEvent`, the answer | `Complete`, `Release`, `Answer` |
| a call that throws, a worker that dies | `HandlerFails`, `LastCallFails`, `Crash` |

`Ledger` is an instance of `BillingLedger` in `BillingWebhooks`, and `ImplementsLedger` the
refinement: `Apply` is `Handle` or `HandleAgain`, `Answer` is
`Acknowledge` (or a stutter when the event was acknowledged before), everything else
stutters; each variable of the ledger is the module's variable of the same name. `handled`
and `overrun` are history. `overrun` holds the requests that share their event with another
since a claim was taken over from a worker still at it: the slow worker, the taker, and
whoever claims the event anew beside them; a request leaves it when it ends. Checkout, portal, `checkout.session.completed` (it links
identifiers), prices and expiry dates are left out.

### DeadGiveaway

`room` is the room record. The functions of `rules.js` that other functions call are
operators from a room to a room under the same name (`PlayerGone`, `AdvanceTurn`,
`ReassignHost`, ...), and each intent or registry call is one action made of them,
so everything a handler does, up to the settling of a vote or the reassignment of
the host, is part of its step. A player abandoned in a vote loses the ballot but stays
marked as voted, as `playerGone` leaves `hasVoted` alone. `room.order` is the players in `joinSeq` order,
`seat` their seats.

Time is abstracted: a phase's deadline is `off`, `running` or `due` (already in the
past: the code sets it to now when the Rat leaves an end phase), and a tick may find
a running one elapsed. `overdue` says that `HOST_HANDOVER_MS` have passed since the
host dropped. A tick ends at most one grace period (several ending between two
ticks 250 ms apart are taken one tick after another). Left out: words, cards, names,
characters, chat, media, and what only snapshots show (round number, winners,
tally); a field that no later handler reads before it is written again is emptied,
which merges states without changing behaviour. Where the code's handler checks a
guard and refuses, the model has no step.

## Runs

| Run | Instance | Shows |
|---|---|---|
| `VoiceTabs` | 1 user, 2 tabs, 2 rooms, 2 joins in flight, 3 moderations of any kind | `TypeOK`, `SeatSocketInRoom`, `GhostOnlyFromLateJoin`, `RecordedRoomIsSeated`, `OneTabOneRoom`, `ModerationSticks` |
| `VoiceAccess` | the same user, 1 join, 1 move, 2 database changes, fair tasks | `RevokedSeatIsOwedEviction`, `RevocationSettles` |
| `VoiceGhost`, `VoiceTwoRooms` | small instances | violations of `NoGhostSeat`, `SingleVoiceRoom` |
| `Facilitation` | 3 users, up to 2 rooms, 1 or 2 waiting handlers, limits 2/1/2, 1 mode change | `TypeOK`, `LanternFollowsRoom`, `HolderStrandedByLatePass`, `StageFollowsRoom`, `StageFollowsMode`, `SideFiresAgree` |
| `Presence` | 2 tabs, 2 lookups in flight, 1 status besides "online", 1 revocation, fair | `TypeOK`, `WatchersAreUpToDate`, `StatusHasTabOrTimer`, `OwnStatusIsKept`, `FormerMemberIsOwedRemoval`, `SocketsFollowSessions` |
| `Timeline` | the author's page and another, 1 edit, 1 fault, 2 openings, fair | `TypeOK`, `ViewFollowsChannel`, `ViewCatchesUp` |
| `Attachments` | 2 uploads, 3 messages, 1 journal entry, 2 workers, 1 mishap | `TypeOK`, `ReferencesAreServed`, `NothingIsLeftBehind`, `RepliesGoWithTheThread` |
| `BillingWebhooks` | 3 events (an invoice in the second of an update), 2 workers, 1 mishap, fair | `TypeOK`, `DoneWasHandled`, `ExclusiveUnlessOverrun`, `NewestHandledWins`, `DoneForgottenOnlyAfterOverrun`, `ImplementsLedger` |
| `Giveaway` | 4 players, quorum 3, 1 life, 1 drop or takeover | `TypeOK`, `HostIsSeated`, `OpenRoundIsPlayable`, `LedgersFollowTable`, `RoundTakesAnnouncedLife` |
| `GiveawayClock` | 3 players, 1 drop, 1 seat change, fair clock | `RoundPlaysOut`, `HostComesBack` |
| `GiveawayChair` | 3 players, 2 drops | violation of `HostKeepsChair` |

**Why these bounds.**

*Voice.* No voice handler reads the seat of another user, so one user
is enough; the conflicts are between tabs (two) and between the room a user leaves and
the one taken (two). Two joins in flight let one overtake the other; three
moderations let a move follow a mute and precede a kick. `MaxChanges = 2` is one loss
of access and one return, or two losses through different scopes. `SelfStates`
bounds the toggles a client asks for: with FALSE every join and toggle tries to open
the mic, the demanding case for `ModerationSticks`; with TRUE the access run keeps
one shape of seat, which access does not depend on.

*Facilitation.* Three users make a queue behind a holder, or a stage that is full with
a hand up; two handlers in flight let an announcement fall into the wait of a join, or a
pass into the wait of a stop. Lantern and stage belong to a room, so one room has them; an
assignment to a side fire is per user, so both rooms do. Limits of two speakers, one
fire and two members are reached and left again. `MCScopes` lists the combinations: three
users with one waiting handler, two users with two.

*Presence.* Two tabs tell "the last tab" from "a tab" and let one choose after
the other; two lookups are an answer from before a removal and the refresh that follows it.
One revocation, and one kind of outside change in a behaviour (`Changes`): sessions,
membership and statuses do not read each other.

*Timeline.* Two pages are the author and everybody else. Two openings are one of each
page, or a page that leaves the channel and comes back. One fault of any kind; with two
edits the invariants hold as well (2.5 million states, checked without the liveness
property).

*Attachments.* Three messages are a thread of three levels or two threads; two uploads
and two workers let deletions meet sweeps, saves and each other.

*BillingWebhooks.* Two workers contend for a claim or take it over; three events with two
distinct seconds give a late event, a tie and an invoice. `created` is the one that may be
delivered again after its 200; until then Stripe repeats all of them without bound.

*Dead Giveaway.* At the Dead Giveaway table four players and a quorum of three are the
least in which a departure leaves a round open; players may leave without bound and one
of them may drop, be abandoned and come back (a second drop multiplies the states past
what a run can visit; the violation run has two). With one life a lost life ends a
player's match, so a full match with several rounds fits.

Symmetry is used only in
runs without liveness properties. Deadlock checking is off where the system may
stop: every bounded counter used up, or the table closed.

**Fairness.** `VoiceRooms!Fairness` is weak fairness of each refresh task: promises
settle and continuations run. Users, moderators and routes owe nothing.
`DeadGiveaway!TimeFlows` is weak fairness of the tick that finds a deadline elapsed
(`setInterval`, every 250 ms) and of the ten-second handover window passing; a player
never owes a move. `Presence!Fairness`: the sweep visits every socket each minute, the
page retries or logs out, lookups are answered; the handshake has strong fairness, since
Socket.IO tries again and the database answers some time. `Timeline!FairSpec`: each kind
of request of a page is answered or refused (a condition per kind, because deletions may
be refused for ever while another request waits), relays run on, Socket.IO reconnects
for ever; nobody owes a message, an edit or a retry. `BillingWebhooks!Fairness`: a
worker that does not crash goes on, claims age, and delivery of an unacknowledged event
has strong fairness, since Stripe repeats it until a worker takes it.

### Disagreements between the code and its comments

* `NoGhostSeat`: `realtime/server.ts:80-81` says that presence and voice "are only
  torn down when a user's LAST tab disconnects (multi-tab no longer creates ghost
  seats)". A `voice:join` that awaits its access answer while its tab closes seats
  the user afterwards, through a socket nobody has.
  `GhostOnlyFromLateJoin`, proved, says that this is the only way.
* `SingleVoiceRoom`: `NOTES.md:149` lists "Single voice room enforcement
  (server-side)". It holds for a single tab (`OneTabOneRoom`), not for two.
* `HostKeepsChair`: `rules.js:59-61` and `PROTOCOL.md:43-47` give a dropped host ten
  seconds. Any other player's reconnect, drop or departure reassigns the chair at once.

### Observations

Behaviour met while modelling that the properties admit by name. None has a run of its own.

* *Voice.* A server mute covers the server, but at once only the seat in the channel it
  names (`realtime/server.ts:1692`, against the comment at `:1291` that it outranks the
  user's toggle): the seat of another tab stays open until it is next toggled, then
  stays closed (`ModerationSticks`).
* *Lantern.* A moderator's pass that waited may hand it to someone who has left
  (`HolderStrandedByLatePass`); a stop that waited ends whatever lantern burns then.
* *Stage.* An heir becomes a speaker with the hand still up (`StageFollowsRoom` allows
  the new host). A first arrival who is moved in by a moderator opens no stage, although
  `ROADMAP.md:165` has arrivals open it; a join or announcement with an older mode may
  open or close one wrongly (`drifted`).
* *Presence.* A status of "online" chosen while the socket is down is not sent again,
  though the server's comment has clients re-send their chosen status on every connect:
  others go on seeing the older one (`astray`).
* *Timeline.* `ChatPanel` joins its rooms again after a reconnect but does not load what
  it missed (`DMPanel` does). A page of history that overtakes a notice brings the old
  content back, or shows a message twice beside its placeholder. Other pages hear of a
  change only if its author's page hears the answer. A message that the external
  endpoint delivers on schedule is never announced.
* *Attachments.* A crash between the deletion of messages and the cleanup leaves a
  claimed upload that no sweep finds; a message sent while its channel is being deleted
  does the same. A file stays where the row of an upload cannot be created and the unlinking
  fails too. A reply sent while its thread is being deleted comes up in the main timeline
  (`late`).
* *Billing.* Within one second an invoice may put back the state it had read just before
  a change; the item at `docs/RELEASE_CHECKLIST.md:154` on ordering is open.
  (`NewestHandledWins` excepts just that.) An event is forgotten to be done not only when the
  slow worker fails, but also when its taker does after the slow one completed
  (`DoneForgottenOnlyAfterOverrun`); it is then handled again.

## Proofs

Every invariant and every action property of the runs is stated by a theorem, for all values of
the constants that satisfy the module's assumption: any number of users, tabs, rooms,
workers, players, messages, edits and faults. The assumptions say that bounds
are natural numbers, that sentinels (`None`, `Pending`) differ from the data they stand
beside, and what the code guarantees of its configuration (sockets have owners, a table
holds at least three). TLC checked each inductive invariant on an instance before it was
proved. All proofs are over the specification without fairness, or with it where the run
has one formula only (`Presence`).

### VoiceRoomsProofs

* `TypeCorrect`: `Spec => []TypeOK`, one lemma per action;
* `SeatsReachable`, `GhostsAreLateJoins`, `RecordedRooms`: `SeatSocketInRoom`,
  `GhostOnlyFromLateJoin`, `RecordedRoomIsSeated`;
* `OneTabStaysInOneRoom`, `RevokedSeatsAreOwedEviction`, `ModerationHolds`.

The first three invariants need one another: leaving the previous room in `voice:join` is
right only because the recorded room is a seat, and a seat's live socket stays in its room only
because `leaveVoiceChannel` and `Evict` take seat and room away together. The inductive
invariant is `SeatInv`, their conjunction with `SocketsOpened` (a socket in a seat or in
a pending join has connected: without it a seat could name a socket that never did,
and "not live" would not mean "gone"). `SeatFrame` covers the steps that touch none
of this, `FreeingSeats` the ones that free a seat; `Move` and `JoinComplete` have proofs of
their own.

`OneTabOneRoom` is inductive over `SeatInv`: by it, the seat that a join leaves behind is
the user's only other seat. `RevokedSeatIsOwedEviction` needs the types only: a commit
that takes access away leaves the notice, and each later stage of the refresh passes
on what it owes, up to the eviction. `ModerationSticks` is an action property over
`MovesStayOnServer`: a moved seat takes its flags along only because both rooms are on one
server.

### FacilitationProofs

`FacilitationTypeCorrect`, `LanternStaysWithRoom`, `StageStaysWithRoom`,
`SideFiresStayAgreed`, `HolderLostOnlyByLatePass` (an action property) and
`StageStaysWithMode`. The inductive invariant is

    IInv == RoomInv /\ TaskInv /\ FireInv /\ RestInv

`RoomInv` says room by room that seats, lantern and stage fit (`ChannelOK`). A step is of
one of few kinds (`StepKinds`): it writes one lantern or one stage that fits
(`LanternStepFits`, `StageStepFits`), vacates a room, joins or moves, or leaves rooms alone.
`TaskInv` is what makes late handlers safe: an attached record is a live one, so that a
handler writes where a lantern or stage still is. `FireInv` is `SideFiresAgree` with types;
that nobody is in two fires follows from the assignments, and that the limits hold from
counting (`FireCreated`, `FireJoined`). `StageFollowsMode` is inductive over `IInv`: each
kind of step that may put a room out of step adds it to `drifted`, leaves its mode
unannounced or leaves a reconciliation waiting.

### PresenceProofs

`TypeCorrect`, `WatchersKnow`, `StatusKept`, `OwnStatus` and `FormerMember` are the
invariants of the `Presence` run. The inductive invariant is

    PresenceInv == TypeOK /\ ListInv /\ ChoiceInv /\ FormerMemberIsOwedRemoval

`ListInv` is `WatchersAreUpToDate` with `StatusHasTabOrTimer`: that the watchers are
right about a status needs that one exists while a tab is up. `ChoiceInv` strengthens
`OwnStatusIsKept`: a choice on its way is the one its page shows, and a page that is
down and shows "online" is right to: the server remembers no other status (or the page
is astray). All steps that lose sockets (drop, close, notification, sweep) go through
one lemma about `Disconnected`.

### TimelineProofs

`TimelineTypeCorrect` and `ViewsAgreeWithRow` (`ViewFollowsChannel`). The property speaks of
quiet moments only, so the induction is over what is on its way:

    IInv == /\ TypeOK /\ RowOK /\ RequestsOK /\ RelaysOK
            /\ \A t \in Tabs : PageOK(t) /\ ListOK(t)
            /\ \A t \in Tabs \ astray : Follows(t)

`RowOK`, `RequestsOK` and `RelaysOK` tie row, requests and notices together: no notice is of a
write that has not happened, and one of the latest revision carries the latest content.
`Follows(t)` is the heart: a page told of an older revision has news on its
way to it (an answer, an emit or a relay that it is bound to hear); a page that lacks a message that
exists has an insertion on its way; a page told of the latest shows it, except
while its own edit is under way, and then that edit remembers what to go back to. When
nothing is under way, that is the property. Each action has a lemma for the data
and one for `Follows`; the delivery of a notice, which several actions share, is one
lemma for all pages.

### AttachmentsProofs

`AttachmentsTypeCorrect`, `ShownIsServed`, `RepliesGo`, `NothingStaysBehind`. The first two
are over

    Safe == TypeOK /\ AttachedIsClaimed /\ JobsRight /\ RowsStored /\ ReferencesAreServed

`AttachedIsClaimed`: the row of an upload that a message was ever sent with is no longer
pending, so that no second message claims it. `JobsRight`: an upload under way is one
worker's, files are unlinked only when their rows are gone, and the journal saves what a
message has shown. `RepliesGo` adds `ThreadsCollected`: what a deletion has collected is
closed under replies, but for late ones. `NothingStaysBehind` is inductive in the form of `AllAttended`:
a claimed and unreferenced row is being checked by a cleanup, and not by a sweep, which takes pending
rows only; a file without a row is being uploaded or unlinked; or the upload is lost.

### BillingWebhooksProofs

The inductive invariant is

    WebhookInv == TypeInv /\ Emission /\ Effects /\ Claims /\ Newest

`TypeInv` is `TypeOK` and that a request under way has what its step needs; `Emission`
is Stripe's order; `Effects` that effects come before the row says done and that before
the answer; `Claims` that a request about to take over a claim still as it read it finds
it abandoned, and that a request nobody overran finds its row unfinished (from which
exclusion follows); `Newest` states `NewestHandledWins` for the states that workers are
about to record as well (`AsNewAs`). Theorems: `TypeCorrect`, `DoneIsHandled`,
`Exclusive`, `NewestWins`, `DoneIsRemembered`, and `ImplementsLedgerSafely`,
`Spec => Ledger!SafeSpec`: the initial state maps to an initial state of `BillingLedger`
and every step to one of its steps or a stutter.

### DeadGiveawayProofs

`TableStaysWellFormed`, `OpenTableHasHost`, `OpenRoundStaysPlayable`, `LedgersStayWithTable`,
`LivesFollowTheRounds`: the invariants of the `Giveaway` run, for any table of three or more
and any number of lives and drops. The model is written as functions from rooms to
rooms, and so is the proof: `GoodRoom(r)` says that the table of a room record is well
formed (`TableOK`) and that its round is what its phase requires (`RoundOK`); one
lemma per function of `rules.js` says that it makes a good room of a good one, and how the
new room follows from the old (`Follows`: same round, same players; `Alike`: only seats and host
differ). A departure takes four repairs in one handler, and between them the room is not good;
`PlayerGone` is proved by the phases. The inductive invariant is

    IInv == LedgerInv /\ OpenInv

where `LedgerInv` adds to `GoodRoom(room)` that lives dealt account for lives left
(`RoundTakesAnnouncedLife`) and that nobody outside `known` is named, so that a newcomer
has lost nothing.

`OpenRoundIsPlayable` says three and not `MinPlayers`, because that is what is true:
`minPlayers` (at least three) is asked for when a match starts, but `afterResolve` deals to any three
survivors.

### ListsProofs and Lists

`InOrderLists`, `FirstPlaceFinds`, `OnlyKeeps`, `DroppingKeeps`. Queues, seating orders and
pages are lists that the code filters, sorts and searches. The library defines such
operators by recursion, about which nothing can be proved here; `Lists`
defines them in closed form by counting (the k-th element is the one with k elements up to
it), and the proofs use only that a filtered list has the elements that were to stay, is no
longer, and repeats none that was not repeated. That the closed forms are the library's operators is checked by TLC on all short
lists (`ListsAgree` in `MCFacilitation`).

### Only model-checked

Liveness: `RevocationSettles`, `RoundPlaysOut`, `HostComesBack`, `SocketsFollowSessions`,
`ViewCatchesUp`, and the fairness of the ledger in `ImplementsLedger`. Temporal reasoning
under fairness (`ENABLED`) is out of the prover's reach.


## Not modelled

* **Rate limits, slow mode**: counters per key and window; the models let every intent
  through, which allows more behaviours. Two sends in flight both pass slow mode (a
  listed hazard).
* **Reactions, polls, pins, guest cleanup**: one statement or upsert each; their relays
  are like those of `Timeline`.
* **Direct messages**: the same optimistic list with another room and a reload on
  reconnect.
* **Offline queue**: nothing calls its `enqueue`.
* **Server scope of the authorization refresh, roles and permission bits, invite
  counts**: `VoiceRooms` has their outcome (membership, audience) only. A failing audit
  log between the commit of a permission and its notice is a listed hazard.
* **Dead Giveaway transport**: tokens, several tables, the switch between them.
* **Web client, WebRTC, desktop shells, packaging, generated code**: presentation,
  browser and operating-system calls, or no state of their own.

## Plan

1. **Done**: `VoiceRooms`, `DeadGiveaway`, `Facilitation`, `Presence`, `BillingLedger` and
   `BillingWebhooks` with their refinement, `Attachments`, `Timeline`; a theorem for every
   safety property of their runs.
2. The server scope of the authorization refresh, and the failing audit log between a
   permission and its notice, in `VoiceRooms`; the theorem to extend is
   `RevokedSeatsAreOwedEviction`.
3. The transport of Dead Giveaway with two tables: tokens, and the switch from one table to
   another.
4. Proofs of what liveness rests on, step by step: that a pending refresh stays pending
   until it is taken, that a tick which finds a deadline elapsed moves the round on.
