------------------------------ MODULE Timeline ------------------------------
(***************************************************************************)
(* What the open pages of a Campfire text channel show of one message, and *)
(* how they learn of it: the requests and the optimistic list of           *)
(* components/ChatPanel.tsx, the relays of realtime/server.ts, the         *)
(* subscriptions of hooks/useChannels.ts and the scheduled delivery of     *)
(* server.ts.  Messages do not interact, so one of them is enough; its     *)
(* author writes and edits it in one page, and every page may delete it.   *)
(*                                                                         *)
(* A request commits in the database in one step and is answered in a      *)
(* later one; a deletion reads the row in a step before, and does not look *)
(* again whether it is still there.  The author's page then asks the realtime server to relay    *)
(* the change, which reads the row in one step and sends to the pages in   *)
(* the channel's Socket.IO room in another.  A page of history is read in  *)
(* one step and arrives in another.                                        *)
(***************************************************************************)
EXTENDS Naturals, Sequences, SequencesExt, Lists

CONSTANTS
  Tabs,         \* pages of the members' browsers, all of which may view the channel
  Author,       \* the page of the message's author
  MaxEdits,     \* edits the author makes (a bound)
  MaxFaults,    \* requests, relays, pages and connections that fail (a bound)
  MaxOpens,     \* times the channel is opened (a bound)
  Pending,      \* the author's placeholder for a message not yet answered
  None

ASSUME TimelineAssumption ==
  /\ Author \in Tabs
  /\ MaxEdits \in Nat /\ MaxFaults \in Nat /\ MaxOpens \in Nat
  /\ Pending \notin Nat /\ None \notin Nat /\ Pending # None
  /\ None \notin Tabs /\ None \notin [content: Nat \cup {None}, rev: Nat]

Contents == 0..MaxEdits
Revisions == 0..(MaxEdits + 2)    \* the insertion, the edits, the deletion
Kinds == {"send", "edit", "delete"}

VARIABLES
  row, rev,              \* the row's content, and how often it was written
  scheduled,             \* the message is to be delivered by the scheduler
  edits,                 \* edits made so far
  requests,              \* fetches of the pages on their way
  buffered,              \* emits kept by a page's socket while it is down
  relays,                \* handlers of the realtime server on their way
  up, room, joining,     \* connected; in room channel:<id>; channel:join waiting for access
  load, page,            \* the fetch of the newest page of history, and what it read
  view,                  \* the message's entries in the list a page shows
  told,                  \* history: the newest revision a page has been told of
  astray,                \* history: pages that missed a notice, or got them in the wrong order
  faults, opens

database == <<row, rev, scheduled>>
sockets == <<up, room, joining>>
history == <<load, page>>
shows == <<view, told, astray>>
bounds == <<faults, opens>>
vars == <<database, edits, requests, buffered, relays, sockets, history, shows, bounds>>

Request == [kind: Kinds, tab: Tabs, at: {"asked", "found", "done"}, content: Contents \cup {None},
            prev: Contents \cup {None}, rev: Revisions, mounted: BOOLEAN]
Relay == [kind: Kinds, from: Tabs \cup {None}, at: {"asked", "read"},
          content: Contents \cup {None}, rev: Revisions]
Page == [content: Contents \cup {None}, rev: Revisions]
Entries == Contents \cup {Pending}

TypeOK ==
  /\ row \in Contents \cup {None} /\ rev \in Revisions /\ edits \in Contents
  /\ scheduled \in BOOLEAN
  /\ requests \subseteq Request /\ relays \subseteq Relay
  /\ buffered \in [Tabs -> SUBSET [kind: Kinds, rev: Revisions]]
  /\ \A t \in up : buffered[t] = {}
  /\ room \cup joining \subseteq up /\ up \subseteq Tabs
  /\ load \in [Tabs -> {"closed", "asked", "read", "failed", "done"}]
  /\ page \in [Tabs -> Page \cup {None}]
  /\ \A t \in Tabs : page[t] # None <=> load[t] = "read"
  /\ view \in [Tabs -> Seq(Entries)]
  /\ \A t \in Tabs : /\ Len(view[t]) <= 2
                     /\ load[t] = "closed" => view[t] = <<>>
  /\ told \in [Tabs -> 0..rev] /\ astray \subseteq Tabs
  /\ faults \in 0..MaxFaults /\ opens \in 0..MaxOpens

Init ==
  /\ row = None /\ rev = 0 /\ scheduled \in BOOLEAN /\ edits = 0
  /\ requests = {} /\ relays = {} /\ buffered = [t \in Tabs |-> {}]
  /\ up = Tabs /\ room = Tabs /\ joining = {}
  /\ load = [t \in Tabs |-> "closed"] /\ page = [t \in Tabs |-> None]
  /\ view = [t \in Tabs |-> <<>>] /\ told = [t \in Tabs |-> 0] /\ astray = {}
  /\ faults = 0 /\ opens = 0

-----------------------------------------------------------------------------
(* The list of a page.  Entries of other messages are left out of it. *)

Has(list) == \E i \in DOMAIN list : list[i] # Pending
Without(list) == Only(list, {Pending})
WithoutPending(list) == Dropping(list, {Pending})
Patched(list, content) == [i \in DOMAIN list |-> IF list[i] = Pending THEN Pending ELSE content]
Replaced(list, content) == [i \in DOMAIN list |-> IF list[i] = Pending THEN content ELSE list[i]]
Shown(t) == view[t][CHOOSE i \in DOMAIN view[t] : view[t][i] # Pending]

(* handleChannelMessage, handleMessageEdited, handleMessageDeleted. *)
AfterNotice(list, n) ==
  CASE n.kind = "send" -> Append(list, n.content)
    [] n.kind = "edit" -> Patched(list, n.content)
    [] n.kind = "delete" -> Without(list)

MergedReplacing(list, p) == IF p.content = None THEN <<>> ELSE <<p.content>>  \* mutant

(* The page of history goes first, then whatever it does not have. *)
Merged(list, p) == IF p.content = None THEN list ELSE <<p.content>> \o Without(list)

Larger(m, n) == IF m < n THEN n ELSE m

(* Pages whose list, as loaded, is older than a revision ... *)
Behind(v) ==
  {t \in Tabs : \/ load[t] = "done" /\ told[t] < v
                \/ load[t] = "read" /\ Larger(told[t], page[t].rev) < v}

(* ... or lacks the message that a notice is to bring. *)
InNeedOf(n) ==
  Behind(n.rev) \cup
    {t \in Tabs : /\ n.kind = "send" /\ ~Has(view[t])
                  /\ load[t] \in {"read", "done"}
                  /\ load[t] = "read" => page[t].content = None}

Fault == faults < MaxFaults /\ faults' = faults + 1

-----------------------------------------------------------------------------
(* The author writes, edits and deletes. *)

Send ==
  /\ load[Author] # "closed"
  /\ rev = 0 /\ ~scheduled /\ requests = {}
  /\ requests' = {[kind |-> "send", tab |-> Author, at |-> "asked", content |-> 0, prev |-> None,
                   rev |-> told[Author], mounted |-> TRUE]}
  /\ view' = [view EXCEPT ![Author] = Append(@, Pending)]
  /\ UNCHANGED <<database, edits, buffered, relays, sockets, history, told, astray, bounds>>

(* While a page of history is loading the list is not on the screen. *)
Offered(t) == load[t] \in {"failed", "done"} /\ Has(view[t])

(* The list shows the new content at once.  Two edits in flight at once are left out. *)
Edit ==
  /\ Offered(Author)
  /\ ~\E r \in requests : r.kind = "edit"
  /\ edits < MaxEdits
  /\ edits' = edits + 1
  /\ requests' = requests \cup
       {[kind |-> "edit", tab |-> Author, at |-> "asked", content |-> edits',
         prev |-> Shown(Author), rev |-> told[Author], mounted |-> TRUE]}
  /\ view' = [view EXCEPT ![Author] = Patched(@, edits')]
  /\ UNCHANGED <<database, buffered, relays, sockets, history, told, astray, bounds>>

Delete(t) ==
  /\ Offered(t)
  /\ ~\E r \in requests : r.kind = "delete" /\ r.tab = t
  /\ requests' = requests \cup
       {[kind |-> "delete", tab |-> t, at |-> "asked", content |-> None, prev |-> None,
         rev |-> told[t], mounted |-> TRUE]}
  /\ UNCHANGED <<database, edits, buffered, relays, sockets, history, shows, bounds>>

Moves(r, at, v) == requests' = (requests \ {r}) \cup {[r EXCEPT !.at = at, !.rev = v]}

(* DELETE reads the row, and asks for the permission to delete it. *)
Find(r) ==
  /\ r.kind = "delete" /\ r.at = "asked"
  /\ row # None
  /\ Moves(r, "found", r.rev)
  /\ UNCHANGED <<database, edits, buffered, relays, sockets, history, shows, bounds>>

WriteRow(r) ==
  /\ row' = r.content
  /\ rev' = rev + 1
  /\ Moves(r, "done", rev + 1)
  /\ UNCHANGED <<scheduled, edits, buffered, relays, sockets, history, shows, bounds>>

InsertRow(r) ==
  /\ r.kind = "send" /\ r.at = "asked"
  /\ WriteRow(r)

(* The update fails if the row has gone since PATCH read it. *)
UpdateRow(r) ==
  /\ r.kind = "edit" /\ r.at = "asked"
  /\ row # None
  /\ WriteRow(r)

(* deleteMany succeeds with a row that has gone as well: two deletions may both be
   answered as done. *)
DeleteRow(r) ==
  /\ r.at = "found"
  /\ \/ row # None /\ WriteRow(r)
     \/ /\ row = None
        /\ Moves(r, "done", rev)
        /\ UNCHANGED <<database, edits, buffered, relays, sockets, history, shows, bounds>>

Proceed(r) == Find(r) \/ InsertRow(r) \/ UpdateRow(r) \/ DeleteRow(r)

AfterRefusal(list, r) ==
  CASE r.kind = "send" -> WithoutPending(list)
    [] r.kind = "edit" -> Patched(list, r.prev)
    [] r.kind = "delete" -> list

(* The page takes back what it showed.  With an edit it may take back more: a notice
   may have come in between. *)
Reverted(r) ==
  /\ requests' = requests \ {r}
  /\ view' = IF r.mounted THEN [view EXCEPT ![r.tab] = AfterRefusal(@, r)] ELSE view
  /\ UNCHANGED <<edits, buffered, relays, sockets, history, told>>

RevertsTooMuch(r) == r.mounted /\ r.kind = "edit" /\ told[r.tab] # r.rev

(* The row is gone, or the request does not get through. *)
Refuse(r) ==
  /\ \/ r.at = "asked" /\ r.kind # "send" /\ row = None /\ UNCHANGED bounds
     \/ r.at # "done" /\ Fault /\ UNCHANGED opens
  /\ Reverted(r)
  /\ astray' = astray \cup (IF RevertsTooMuch(r) THEN {r.tab} ELSE {})
  /\ UNCHANGED database

(* The row was written, but the page does not hear so, or was closed: nobody is told,
   and an edit is taken back that was made. *)
AnswerLost(r) ==
  /\ r.at = "done"
  /\ Fault /\ UNCHANGED opens
  /\ Reverted(r)
  /\ astray' = astray \cup InNeedOf(r)
                      \cup (IF r.mounted /\ r.kind = "edit" THEN {r.tab} ELSE {})
  /\ UNCHANGED database

AfterAnswer(list, r) ==
  CASE r.kind = "send" -> Replaced(list, r.content)
    [] r.kind = "edit" -> Patched(list, r.content)
    [] r.kind = "delete" -> Without(list)

(* An answer comes after news of a later change, or to a page that has been left and
   perhaps opened again. *)
AnswersAstray(r) ==
  IF r.mounted THEN told[r.tab] > r.rev ELSE r.tab \in InNeedOf(r)

(* The page shows the change and asks for it to be relayed.  While the socket is down
   the library keeps the emit. *)
Answer(r) ==
  /\ r.at = "done"
  /\ requests' = requests \ {r}
  /\ IF r.mounted
       THEN /\ view' = [view EXCEPT ![r.tab] = AfterAnswer(@, r)]
            /\ told' = [told EXCEPT ![r.tab] = Larger(@, r.rev)]
       ELSE UNCHANGED <<view, told>>
  /\ astray' = astray \cup (IF AnswersAstray(r) THEN {r.tab} ELSE {})
  /\ IF r.tab \in up
       THEN /\ relays' = relays \cup {[kind |-> r.kind, from |-> r.tab, at |-> "asked",
                                       content |-> None, rev |-> r.rev]}
            /\ UNCHANGED buffered
       ELSE /\ buffered' = [buffered EXCEPT ![r.tab] = @ \cup {[kind |-> r.kind, rev |-> r.rev]}]
            /\ UNCHANGED relays
  /\ UNCHANGED <<database, edits, sockets, history, bounds>>

-----------------------------------------------------------------------------
(* The realtime server relays what the database says, not what the page claims. *)

ConfirmedIfThere(q) == row # None  \* mutant

Confirmed(q) == IF q.kind = "delete" THEN row = None ELSE row # None

RelayRead(q) ==
  /\ q.at = "asked"
  /\ relays' = (relays \ {q}) \cup
       (IF Confirmed(q) THEN {[q EXCEPT !.at = "read", !.content = row, !.rev = rev]} ELSE {})
  /\ UNCHANGED <<database, edits, requests, buffered, sockets, history, shows, bounds>>

(* socket.to(room): everybody there but the socket that asked. *)
Receivers(q) == {t \in room \ {q.from} : load[t] # "closed"}

(* A message that is shown already is not shown again, with whatever content. *)
Heeds(t, q) == t \in Receivers(q) /\ ~(q.kind = "send" /\ Has(view[t]))

Deliver(q) ==
  /\ view' = [t \in Tabs |-> IF Heeds(t, q) THEN AfterNotice(view[t], q) ELSE view[t]]
  /\ told' = [t \in Tabs |-> IF Heeds(t, q) THEN Larger(told[t], q.rev) ELSE told[t]]
  /\ astray' = astray \cup {t \in Tabs : Heeds(t, q) /\ told[t] > q.rev}
                      \cup (InNeedOf(q) \ Receivers(q))

RelaySend(q) ==
  /\ q.at = "read"
  /\ Deliver(q)
  /\ relays' = relays \ {q}
  /\ UNCHANGED <<database, edits, requests, buffered, sockets, history, bounds>>

(* Over the limit, no longer permitted, a failing database, a restart. *)
RelayDropped(q) ==
  /\ Fault /\ UNCHANGED opens
  /\ relays' = relays \ {q}
  /\ astray' = astray \cup InNeedOf(q)
  /\ UNCHANGED <<database, edits, requests, buffered, sockets, history, view, told>>

-----------------------------------------------------------------------------
(* Changes that no page asks for. *)

(* The scheduler inserts the message, and tells the room after its pass; if an outside
   scheduler called the route, nobody is told. *)
DeliverScheduled(announced) ==
  /\ scheduled
  /\ scheduled' = FALSE
  /\ row' = 0 /\ rev' = rev + 1
  /\ IF announced
       THEN /\ relays' = relays \cup {[kind |-> "send", from |-> None, at |-> "read",
                                       content |-> 0, rev |-> rev + 1]}
            /\ UNCHANGED astray
       ELSE astray' = astray \cup Behind(rev + 1) /\ UNCHANGED relays
  /\ UNCHANGED <<edits, requests, buffered, sockets, history, view, told, bounds>>

(* The retention sweep tells nobody. *)
Expire ==
  /\ row # None
  /\ Fault /\ UNCHANGED opens
  /\ row' = None /\ rev' = rev + 1
  /\ astray' = astray \cup Behind(rev + 1)
  /\ UNCHANGED <<scheduled, edits, requests, buffered, relays, sockets, history, view, told>>

-----------------------------------------------------------------------------
(* A page opens the channel, loads its history and leaves it. *)

(* A join that finds its socket in the room changes nothing. *)
Joins(t) == joining' = IF t \in up \ room' THEN joining \cup {t} ELSE joining

Open(t) ==
  /\ load[t] = "closed"
  /\ opens < MaxOpens
  /\ opens' = opens + 1
  /\ load' = [load EXCEPT ![t] = "asked"]
  /\ UNCHANGED room
  /\ Joins(t)
  /\ UNCHANGED <<database, edits, requests, buffered, relays, up, page, shows, faults>>

(* The panel leaves the room; useChannels joins it again for the unread count. *)
Close(t) ==
  /\ load[t] # "closed"
  /\ load' = [load EXCEPT ![t] = "closed"]
  /\ page' = [page EXCEPT ![t] = None]
  /\ view' = [view EXCEPT ![t] = <<>>]
  /\ told' = [told EXCEPT ![t] = 0]
  /\ astray' = astray \ {t}
  /\ requests' = {IF r.tab = t THEN [r EXCEPT !.mounted = FALSE] ELSE r : r \in requests}
  /\ room' = room \ {t}
  /\ Joins(t)
  /\ UNCHANGED <<database, edits, buffered, relays, up, bounds>>

PageRead(t) ==
  /\ load[t] = "asked"
  /\ load' = [load EXCEPT ![t] = "read"]
  /\ page' = [page EXCEPT ![t] = [content |-> row, rev |-> rev]]
  /\ UNCHANGED <<database, edits, requests, buffered, relays, sockets, shows, bounds>>

PageFails(t) ==
  /\ load[t] \in {"asked", "read"}
  /\ Fault /\ UNCHANGED opens
  /\ load' = [load EXCEPT ![t] = "failed"]
  /\ page' = [page EXCEPT ![t] = None]
  /\ UNCHANGED <<database, edits, requests, buffered, relays, sockets, shows>>

(* A page of history is put in front of what came in while it was loading.  That is
   wrong if it is older than a notice of a change, if the message has gone since it
   came in, or if the message is the one whose placeholder is still shown. *)
MergesAstray(t) ==
  LET p == page[t] IN
    \/ p.content # None /\ (p.rev < told[t] \/ Pending \in ToSet(view[t]))
    \/ p.content = None /\ Has(view[t]) /\ told[t] < p.rev

PageArrives(t) ==
  /\ load[t] = "read"
  /\ load' = [load EXCEPT ![t] = "done"]
  /\ page' = [page EXCEPT ![t] = None]
  /\ view' = [view EXCEPT ![t] = Merged(@, page[t])]
  /\ told' = [told EXCEPT ![t] = Larger(@, page[t].rev)]
  /\ astray' = astray \cup (IF MergesAstray(t) THEN {t} ELSE {})
  /\ UNCHANGED <<database, edits, requests, buffered, relays, sockets, bounds>>

(* "Try again" is offered while nothing is shown. *)
Retry(t) ==
  /\ load[t] = "failed"
  /\ view[t] = <<>>
  /\ load' = [load EXCEPT ![t] = "asked"]
  /\ UNCHANGED <<database, edits, requests, buffered, relays, sockets, page, shows, bounds>>

-----------------------------------------------------------------------------
(* Connections. *)

JoinDone(t) ==
  /\ t \in joining
  /\ joining' = joining \ {t}
  /\ room' = room \cup {t}
  /\ UNCHANGED <<database, edits, requests, buffered, relays, up, history, shows, bounds>>

(* Handlers go on without their socket, which is then nobody to leave out. *)
Disconnect(t) ==
  /\ t \in up
  /\ Fault /\ UNCHANGED opens
  /\ up' = up \ {t} /\ room' = room \ {t} /\ joining' = joining \ {t}
  /\ relays' = {IF q.from = t THEN [q EXCEPT !.from = None] ELSE q : q \in relays}
  /\ UNCHANGED <<database, edits, requests, buffered, history, shows>>

ReconnectResending(t) ==  \* mutant
  /\ t \notin up
  /\ up' = up \cup {t}
  /\ joining' = joining \cup {t}
  /\ relays' = relays \cup {[kind |-> b.kind, from |-> t, at |-> "asked", content |-> None,
                             rev |-> b.rev] : b \in buffered[t]}
  /\ UNCHANGED <<database, edits, requests, buffered, room, history, shows, bounds>>

(* The library sends what it kept, and useChannels joins the room again.  The panel
   does not ask for the history it missed. *)
Reconnect(t) ==
  /\ t \notin up
  /\ up' = up \cup {t}
  /\ joining' = joining \cup {t}
  /\ relays' = relays \cup {[kind |-> b.kind, from |-> t, at |-> "asked", content |-> None,
                             rev |-> b.rev] : b \in buffered[t]}
  /\ buffered' = [buffered EXCEPT ![t] = {}]
  /\ UNCHANGED <<database, edits, requests, room, history, shows, bounds>>

-----------------------------------------------------------------------------
Next ==
  \/ Send
  \/ Edit
  \/ \E t \in Tabs : Delete(t)
  \/ \E r \in requests : Proceed(r) \/ Refuse(r) \/ AnswerLost(r) \/ Answer(r)
  \/ \E q \in relays : RelayRead(q) \/ RelaySend(q) \/ RelayDropped(q)
  \/ \E announced \in BOOLEAN : DeliverScheduled(announced)
  \/ Expire
  \/ \E t \in Tabs : Open(t) \/ Close(t) \/ PageRead(t) \/ PageFails(t) \/ PageArrives(t) \/ Retry(t)
  \/ \E t \in Tabs : JoinDone(t) \/ Disconnect(t) \/ Reconnect(t)

Spec == Init /\ [][Next]_vars

(* Every request is answered or refused, handlers of the realtime server run to their
   end, and Socket.IO tries to reconnect for ever.  Nobody has to write anything, and
   nothing has to fail.  A page may be refused a deletion for ever, so each kind of
   request of a page has a fairness condition of its own. *)
FairSpec ==
  /\ Spec
  /\ \A t \in Tabs, k \in Kinds :
       WF_vars(\E r \in requests : r.tab = t /\ r.kind = k /\ (Proceed(r) \/ Refuse(r) \/ Answer(r)))
  /\ WF_vars(\E q \in relays : RelayRead(q) \/ RelaySend(q))
  /\ \A t \in Tabs : WF_vars(Reconnect(t))

-----------------------------------------------------------------------------
Actual == IF row = None THEN <<>> ELSE <<row>>
InFlight == requests # {} \/ relays # {} \/ \E t \in Tabs : buffered[t] # {}

(* When nothing is on its way, a page that has loaded the channel shows the message as
   it is in the database: once, with its last content, or not at all.  Excepted are
   pages that were out of the room or not told, and pages to which news came in the
   wrong order; the steps that put a page among them say how. *)
ViewFollowsChannel ==
  \A t \in Tabs \ astray : load[t] = "done" /\ ~InFlight => view[t] = Actual

(* A page that shows something else than the database does catches up, or has missed
   the news. *)
ViewCatchesUp ==
  \A t \in Tabs :
    load[t] = "done" /\ view[t] # Actual ~> load[t] # "done" \/ view[t] = Actual \/ t \in astray
=============================================================================
