------------------------------ MODULE Presence ------------------------------
(***************************************************************************)
(* Presence of one Campfire user in one server: the sockets of the user's  *)
(* browser tabs, the session they were opened with, the status the user    *)
(* chose, and the list of online members, in realtime/server.ts together   *)
(* with the client's side in lib/socket.ts, hooks/usePresence.ts and       *)
(* app/chat/page.tsx.                                                      *)
(*                                                                         *)
(* A database answer is read in one step and used in a later one.  State   *)
(* of other users and other servers is independent of this.  That a socket *)
(* is lost is noticed by both ends in the same step.                       *)
(***************************************************************************)
EXTENDS Integers

CONSTANTS
  Tabs,         \* pages of one browser: they share its session cookie
  Chosen,       \* statuses other than the default, "online"
  Changes,      \* "session", "membership", "status": in one behaviour only one
                \* of them changes from outside (a bound)
  MaxVersion,   \* revocations of the user's sessions (a bound)
  Slots,        \* database lookups in flight at once (a bound)
  None

Lookup == [kind: {"connect", "join", "refresh"}, tab: Tabs \cup {None}, answer: BOOLEAN \cup {None}]

ASSUME PresenceAssumption ==
  /\ Changes \subseteq {"session", "membership", "status"}
  /\ MaxVersion \in Nat
  /\ "online" \notin Chosen
  /\ None \notin Tabs /\ None \notin Chosen /\ None # "online"
  /\ None \notin Nat /\ None \notin BOOLEAN /\ None \notin Lookup

Statuses == Chosen \cup {"online"}

VARIABLES
  change,                \* what changes from outside in this behaviour
  version, cookie,       \* tokenVersion of the user, and the one in the browser's cookie
  purging,               \* a session notification is on its way to the realtime server
  member,                \* is the user an active member, in the database
  tab,                   \* where the socket of a page stands
  token,                 \* the version in the token it was opened with
  mine,                  \* the status the page shows its user
  sent,                  \* a presence:status on its way
  status, timer,         \* userStatus, statusResetTimers
  listed, room,          \* onlineUsers, the Socket.IO room server:<id>
  shown,                 \* what the last presence:update said of the user
  lookups,               \* handlers waiting for a membership answer
  astray,                \* history: pages whose status the server need not have
  missed                 \* history: a removal that no refresh will carry out any more

session == <<version, cookie, purging>>
page == <<tab, token>>
choice == <<mine, sent, astray>>
kept == <<status, timer>>
list == <<listed, room, shown>>
vars == <<change, session, member, page, choice, kept, list, lookups, missed>>

Up == {t \in Tabs : tab[t] = "up"}
Owed == [kind |-> "refresh", tab |-> None, answer |-> None]

TypeOK ==
  /\ change \in Changes
  /\ version \in 0..MaxVersion
  /\ cookie \in 0..version \cup {None}
  /\ purging \in BOOLEAN
  /\ member \in BOOLEAN
  /\ tab \in [Tabs -> {"closed", "down", "admitted", "unauthorized", "unavailable", "up"}]
  /\ token \in [Tabs -> 0..version]
  /\ mine \in [Tabs -> Statuses]
  /\ sent \in [Tabs -> Statuses \cup {None}]
  /\ \A t \in Tabs : sent[t] # None => t \in Up
  /\ status \in Statuses \cup {None}
  /\ timer \in BOOLEAN
  /\ listed \in BOOLEAN
  /\ room \subseteq Up
  /\ shown \in Statuses \cup {None}
  /\ lookups \in [Slots -> Lookup \cup {None}]
  /\ \A k \in Slots : lookups[k] # None /\ lookups[k].kind = "join" => lookups[k].tab \in Up
  /\ astray \subseteq Tabs
  /\ missed \in BOOLEAN

Init ==
  /\ change \in Changes
  /\ version = 0 /\ cookie = 0 /\ purging = FALSE
  /\ member = TRUE
  /\ tab = [t \in Tabs |-> "closed"] /\ token = [t \in Tabs |-> 0]
  /\ mine = [t \in Tabs |-> "online"] /\ sent = [t \in Tabs |-> None] /\ astray = {}
  /\ status = None /\ timer = FALSE
  /\ listed = FALSE /\ room = {} /\ shown = None
  /\ lookups = [k \in Slots |-> None]
  /\ missed = FALSE

Moves(t, s) == tab' = [tab EXCEPT ![t] = s]
Started(k, task) == lookups[k] = None /\ lookups' = [lookups EXCEPT ![k] = task]

-----------------------------------------------------------------------------
(* Sessions.  The cookie of a login replaces that of the whole browser. *)

Login ==
  /\ cookie # version
  /\ cookie' = version
  /\ UNCHANGED <<change, version, purging, member, page, choice, kept, list, lookups, missed>>

(* A password reset: the database first, then the notification. *)
Revoke ==
  /\ change = "session"
  /\ version < MaxVersion
  /\ version' = version + 1
  /\ purging' = TRUE
  /\ UNCHANGED <<change, cookie, member, page, choice, kept, list, lookups, missed>>

(* The page loads: fetchUser finds a valid session, and the socket is to connect. *)
Open(t) ==
  /\ tab[t] = "closed"
  /\ cookie = version
  /\ Moves(t, "down")
  /\ mine' = [mine EXCEPT ![t] = "online"]
  /\ astray' = astray \cup {t}
  /\ UNCHANGED <<change, session, member, token, sent, kept, list, lookups, missed>>

(* The handshake: the token is checked, or the database does not answer. *)
Admit(t) ==
  /\ tab[t] = "down"
  /\ cookie = version
  /\ Moves(t, "admitted")
  /\ token' = [token EXCEPT ![t] = cookie]
  /\ UNCHANGED <<change, session, member, choice, kept, list, lookups, missed>>

Refuse(t) ==
  /\ tab[t] = "down"
  /\ \/ cookie # version /\ Moves(t, "unauthorized")
     \/ cookie # None /\ Moves(t, "unavailable")
  /\ UNCHANGED <<change, session, member, token, choice, kept, list, lookups, missed>>

TryAgainIfRefused(t) ==  \* mutant
  /\ tab[t] = "unauthorized"
  /\ cookie = version
  /\ Moves(t, "down")
  /\ UNCHANGED <<change, session, member, token, choice, kept, list, lookups, missed>>

(* connect_error: the page asks /api/auth/me, which also says 401 when the database
   fails; it logs out if it was refused as well, and else tries again later. *)
TryAgain(t) ==
  /\ \/ tab[t] = "unavailable"
     \/ tab[t] = "unauthorized" /\ cookie = version
  /\ Moves(t, "down")
  /\ UNCHANGED <<change, session, member, token, choice, kept, list, lookups, missed>>

LogOut(t) ==
  /\ tab[t] = "unauthorized"
  /\ Moves(t, "closed")
  /\ cookie' = None
  /\ UNCHANGED <<change, version, purging, member, token, choice, kept, list, lookups, missed>>

-----------------------------------------------------------------------------
(* Connection and disconnection *)

ConnectKeepingTimer(t) ==  \* mutant
  /\ tab[t] = "admitted"
  /\ Moves(t, "up")
  /\ status' = IF status = None THEN "online" ELSE status
  /\ astray' = IF status = None THEN astray \ {t} ELSE astray
  /\ sent' = [sent EXCEPT ![t] = IF mine[t] = "online" THEN None ELSE mine[t]]
  /\ \E k \in Slots : Started(k, [kind |-> "connect", tab |-> None, answer |-> None])
  /\ UNCHANGED <<change, session, member, token, mine, timer, list, missed>>

ConnectSilently(t) ==  \* mutant
  /\ tab[t] = "admitted"
  /\ Moves(t, "up")
  /\ timer' = FALSE
  /\ status' = IF status = None THEN "online" ELSE status
  /\ astray' = IF status = None THEN astray \ {t} ELSE astray
  /\ \E k \in Slots : Started(k, [kind |-> "connect", tab |-> None, answer |-> None])
  /\ UNCHANGED <<change, session, member, token, mine, sent, list, missed>>

Connect(t) ==
  /\ tab[t] = "admitted"
  /\ Moves(t, "up")
  /\ timer' = FALSE
  /\ status' = IF status = None THEN "online" ELSE status
  /\ astray' = IF status = None THEN astray \ {t} ELSE astray
  /\ sent' = [sent EXCEPT ![t] = IF mine[t] = "online" THEN None ELSE mine[t]]
  /\ \E k \in Slots : Started(k, [kind |-> "connect", tab |-> None, answer |-> None])
  /\ UNCHANGED <<change, session, member, token, mine, list, missed>>

(* The disconnect handler of each socket of S; the last one of the user takes the
   user off the lists and starts the grace period. *)
Last(S) == Up \subseteq S

DisconnectedAnswered(S) ==  \* mutant
  /\ sent' = [t \in Tabs |-> IF t \in S THEN None ELSE sent[t]]
  /\ astray' = astray \cup {t \in S : sent[t] # None /\ mine[t] = "online"}
  /\ room' = room \ S
  /\ timer' = (timer \/ Last(S))
  /\ listed' = (listed /\ ~Last(S))
  /\ shown' = IF Last(S) THEN None ELSE shown
  /\ missed' = (missed /\ ~Last(S))
  /\ UNCHANGED <<status, lookups>>

Disconnected(S) ==
  /\ sent' = [t \in Tabs |-> IF t \in S THEN None ELSE sent[t]]
  /\ astray' = astray \cup {t \in S : sent[t] # None /\ mine[t] = "online"}
  /\ room' = room \ S
  /\ lookups' = [k \in Slots |-> IF lookups[k] # None /\ lookups[k].kind = "join" /\ lookups[k].tab \in S
                                 THEN None ELSE lookups[k]]
  /\ timer' = (timer \/ Last(S))
  /\ listed' = (listed /\ ~Last(S))
  /\ shown' = IF Last(S) THEN None ELSE shown
  /\ missed' = (missed /\ ~Last(S))
  /\ UNCHANGED status

(* The connection is lost, or the server closes it: the page connects again. *)
Lose(S) ==
  /\ S # {}
  /\ tab' = [t \in Tabs |-> IF t \in S THEN "down" ELSE tab[t]]
  /\ Disconnected(S)
  /\ UNCHANGED <<change, member, token, mine>>

Drop(t) == t \in Up /\ Lose({t}) /\ UNCHANGED session

Close(t) ==
  /\ tab[t] # "closed"
  /\ Moves(t, "closed")
  /\ IF t \in Up THEN Disconnected({t})
     ELSE UNCHANGED <<sent, astray, kept, list, lookups, missed>>
  /\ UNCHANGED <<change, session, member, token, mine>>

(* refreshRealtimeAuthorization of scope "session" *)
Purge ==
  /\ purging
  /\ purging' = FALSE
  /\ IF Up # {} THEN Lose(Up)
     ELSE UNCHANGED <<change, member, page, choice, kept, list, lookups, missed>>
  /\ UNCHANGED <<version, cookie>>

(* The sweep finds the token of a socket invalid: it never becomes valid again. *)
Sweep(t) ==
  /\ t \in Up
  /\ token[t] # version
  /\ Lose({t})
  /\ UNCHANGED session

-----------------------------------------------------------------------------
(* The chosen status *)

(* changeStatus and the idle timer: sent only while the socket is connected. *)
Choose(t, s) ==
  /\ change = "status"
  /\ tab[t] # "closed"
  /\ s # mine[t]
  /\ sent[t] = None       \* one message on its way (a bound)
  /\ mine' = [mine EXCEPT ![t] = s]
  /\ sent' = [sent EXCEPT ![t] = IF t \in Up THEN s ELSE None]
  /\ astray' = IF t \notin Up /\ s = "online" THEN astray \cup {t} ELSE astray
  /\ UNCHANGED <<change, session, member, page, kept, list, lookups, missed>>

SetStatus(t) ==
  /\ sent[t] # None
  /\ sent' = [sent EXCEPT ![t] = None]
  /\ status' = sent[t]
  /\ shown' = IF listed THEN sent[t] ELSE shown
  /\ astray' = Tabs \ {t}
  /\ UNCHANGED <<change, session, member, page, mine, timer, listed, room, lookups, missed>>

(* The limit of the event has been reached. *)
IgnoreStatus(t) ==
  /\ sent[t] # None
  /\ sent' = [sent EXCEPT ![t] = None]
  /\ astray' = astray \cup {t}
  /\ UNCHANGED <<change, session, member, page, mine, kept, list, lookups, missed>>

(* The grace period is over. *)
Forget ==
  /\ timer
  /\ timer' = FALSE
  /\ status' = IF Up = {} THEN None ELSE status
  /\ UNCHANGED <<change, session, member, page, choice, list, lookups, missed>>

-----------------------------------------------------------------------------
(* The list of online members *)

(* server:join *)
ViewServer(t) ==
  /\ t \in Up
  /\ \E k \in Slots : Started(k, [kind |-> "join", tab |-> t, answer |-> None])
  /\ UNCHANGED <<change, session, member, page, choice, kept, list, missed>>

(* server:leave *)
LeaveServer(t) ==
  /\ t \in room
  /\ room' = room \ {t}
  /\ UNCHANGED <<change, session, member, page, choice, kept, listed, shown, lookups, missed>>

(* A kick or a ban, and the notification that follows. *)
Remove ==
  /\ change = "membership"
  /\ member
  /\ member' = FALSE
  /\ \E k \in Slots : Started(k, Owed)
  /\ UNCHANGED <<change, session, page, choice, kept, list, missed>>

(* The user joins again, or a ban is lifted; only the latter is notified. *)
Rejoin ==
  /\ ~member
  /\ member' = TRUE
  /\ missed' = FALSE
  /\ UNCHANGED lookups \/ \E k \in Slots : Started(k, Owed)
  /\ UNCHANGED <<change, session, page, choice, kept, list>>

Read(k) ==
  /\ lookups[k] # None /\ lookups[k].answer = None
  /\ lookups' = [lookups EXCEPT ![k].answer = member]
  /\ UNCHANGED <<change, session, member, page, choice, kept, list, missed>>

(* The database fails: the handler, or the refresh, ends without effect. *)
ReadFails(k) ==
  /\ lookups[k] # None /\ lookups[k].answer = None
  /\ lookups' = [lookups EXCEPT ![k] = None]
  /\ missed' = (missed \/ (lookups[k].kind = "refresh" /\ ~member))
  /\ UNCHANGED <<change, session, member, page, choice, kept, list>>

Finishes(k, kind) ==
  /\ lookups[k] # None /\ lookups[k].answer # None /\ lookups[k].kind = kind
  /\ lookups' = [lookups EXCEPT ![k] = None]
  /\ UNCHANGED <<change, session, member, page, choice, kept>>

MarkPresent ==
  /\ listed' = TRUE
  /\ shown' = IF listed THEN shown ELSE status
  /\ missed' = (missed \/ ~member)

AssumedConnected == TRUE  \* mutant

(* The user's last socket may be gone by now. *)
StillConnected == Up # {}

ListAfterConnect(k) ==
  /\ Finishes(k, "connect")
  /\ IF lookups[k].answer /\ StillConnected
     THEN MarkPresent ELSE UNCHANGED <<listed, shown, missed>>
  /\ UNCHANGED room

ListAfterJoin(k) ==
  /\ Finishes(k, "join")
  /\ IF lookups[k].answer
     THEN MarkPresent /\ room' = room \cup {lookups[k].tab}
     ELSE UNCHANGED <<list, missed>>

RefreshListOnly(k) ==  \* mutant
  /\ Finishes(k, "refresh")
  /\ IF lookups[k].answer THEN UNCHANGED <<list, missed>>
     ELSE listed' = FALSE /\ shown' = None /\ missed' = FALSE /\ UNCHANGED room

(* refreshMemberForServer *)
Refresh(k) ==
  /\ Finishes(k, "refresh")
  /\ IF lookups[k].answer THEN UNCHANGED <<list, missed>>
     ELSE listed' = FALSE /\ room' = {} /\ shown' = None /\ missed' = FALSE

LookupStep(k) == Read(k) \/ ListAfterConnect(k) \/ ListAfterJoin(k) \/ Refresh(k)

-----------------------------------------------------------------------------
Next ==
  \/ Login
  \/ Revoke
  \/ Purge
  \/ \E t \in Tabs : \/ Open(t)
                     \/ Admit(t)
                     \/ Refuse(t)
                     \/ TryAgain(t)
                     \/ LogOut(t)
                     \/ Connect(t)
                     \/ Drop(t)
                     \/ Close(t)
                     \/ Sweep(t)
                     \/ \E s \in Statuses : Choose(t, s)
                     \/ SetStatus(t)
                     \/ IgnoreStatus(t)
                     \/ ViewServer(t)
                     \/ LeaveServer(t)
  \/ Forget
  \/ Remove
  \/ Rejoin
  \/ \E k \in Slots : LookupStep(k) \/ ReadFails(k)

(* The sweep comes round every minute, handlers go on once the database has
   answered, a page that was refused tries again after three seconds, and the
   database does not fail at every handshake. *)
Fairness ==
  /\ \A t \in Tabs : /\ WF_vars(Sweep(t))
                     /\ WF_vars(TryAgain(t) \/ LogOut(t))
                     /\ SF_vars(Admit(t))
                     /\ SF_vars(Connect(t))
  /\ \A k \in Slots : WF_vars(LookupStep(k))

Spec == Init /\ [][Next]_vars
FairSpec == Spec /\ Fairness

-----------------------------------------------------------------------------
(* What the members of the server were last told of the user is what the server
   would tell them now: every handler that changes the list or the status also
   broadcasts.  Nobody is listed without a tab, and a page that views the server has
   its user listed there, whatever lookups and refreshes were in flight. *)
WatchersAreUpToDate ==
  /\ shown = IF listed THEN status ELSE None
  /\ listed => Up # {}
  /\ room # {} => listed

(* A status is kept while the user has a tab, and after that exactly as long as the
   grace period of the last one to close is running. *)
StatusHasTabOrTimer ==
  /\ Up # {} => status # None /\ ~timer
  /\ Up = {} => (timer <=> status # None)

(* A page shows its user the status that others see, after every drop and reconnect
   and however the choice was made, unless another tab has chosen later, the limit
   was hit, or the page came to show "online" while it was not connected: that choice
   is not sent again. *)
OwnStatusIsKept ==
  \A t \in Up \ astray : sent[t] = None => mine[t] = status

(* A user who is no member any more is taken off the list and out of the server's
   room, unless an answer from before the removal came after it, or the refresh
   could not ask the database. *)
FormerMemberIsOwedRemoval ==
  ~member /\ (listed \/ room # {}) =>
    \/ missed
    \/ \E k \in Slots : /\ lookups[k] # None /\ lookups[k].kind = "refresh"
                        /\ lookups[k].answer # TRUE

(* No socket outlives the session it was opened with, also when the notification came
   while it was still being opened; and a page with a valid session gets its socket
   back, whatever refusals it meets. *)
SocketsFollowSessions ==
  \A t \in Tabs :
    /\ t \in Up /\ token[t] # version ~> ~(t \in Up /\ token[t] # version)
    /\ tab[t] = "down" ~> tab[t] \in {"up", "closed"} \/ cookie # version
=============================================================================
