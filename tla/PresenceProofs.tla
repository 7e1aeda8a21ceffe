--------------------------- MODULE PresenceProofs ---------------------------
(***************************************************************************)
(* Theorems about Presence, for any number of tabs, lookups, statuses and  *)
(* revocations.  Liveness is left to model checking.                       *)
(***************************************************************************)
EXTENDS Presence, TLAPS

USE PresenceAssumption

(* A choice is sent as it was made, and a page that is not connected and shows
   "online" connects to a server that has that status or none. *)
ChoiceInv ==
  /\ \A t \in Tabs : sent[t] # None => sent[t] = mine[t]
  /\ \A t \in Tabs \ (Up \cup astray) : mine[t] = "online" => status \in {None, "online"}
  /\ OwnStatusIsKept

ListInv == WatchersAreUpToDate /\ StatusHasTabOrTimer

PresenceInv == TypeOK /\ ListInv /\ ChoiceInv /\ FormerMemberIsOwedRemoval

-----------------------------------------------------------------------------
(* Initially the invariant holds. *)
LEMMA InitInv == Init => PresenceInv
<1> SUFFICES ASSUME Init PROVE PresenceInv
  OBVIOUS
<1>1. Up = {} /\ [t \in Tabs |-> None] \in [Tabs -> Statuses \cup {None}]
      /\ [k \in Slots |-> None] \in [Slots -> Lookup \cup {None}]
  BY DEF Init, Up
<1>2. version \in 0..MaxVersion /\ cookie \in 0..version \cup {None} /\ token \in [Tabs -> 0..version]
  BY DEF Init
<1>3. mine \in [Tabs -> Statuses] /\ sent \in [Tabs -> Statuses \cup {None}]
      /\ tab \in [Tabs -> {"closed", "down", "admitted", "unauthorized", "unavailable", "up"}]
  BY <1>1 DEF Init, Statuses
<1>4. TypeOK
  BY <1>1, <1>2, <1>3 DEF Init, TypeOK
<1> QED BY <1>1, <1>4 DEF Init, PresenceInv, Up, ListInv, WatchersAreUpToDate,
   StatusHasTabOrTimer,
   ChoiceInv, OwnStatusIsKept, FormerMemberIsOwedRemoval

(* What the loss of sockets S leaves well formed. *)
DisconnectedTypes ==
  /\ sent \in [Tabs -> Statuses \cup {None}]
  /\ \A t \in Tabs : sent[t] # None => t \in Up
  /\ status \in Statuses \cup {None}
  /\ timer \in BOOLEAN
  /\ listed \in BOOLEAN
  /\ room \subseteq Up
  /\ shown \in Statuses \cup {None}
  /\ lookups \in [Slots -> Lookup \cup {None}]
  /\ \A k \in Slots : lookups[k] # None /\ lookups[k].kind = "join" => lookups[k].tab \in Up
  /\ astray \subseteq Tabs
  /\ missed \in BOOLEAN

(* The disconnect handlers of S leave what they change well formed. *)
LEMMA DisconnectedType ==
    ASSUME TypeOK, NEW S \in SUBSET Tabs, Disconnected(S), Up' = Up \ S
    PROVE  DisconnectedTypes'
<1>1. sent' \in [Tabs -> Statuses \cup {None}] /\ astray' \subseteq Tabs
  BY DEF Disconnected, TypeOK
<1>2. \A t \in Tabs : sent'[t] # None => t \in Up'
  BY DEF Disconnected, TypeOK
<1>3. lookups' \in [Slots -> Lookup \cup {None}]
  BY DEF Disconnected, TypeOK
<1>4. \A k \in Slots : lookups'[k] # None /\ lookups'[k].kind = "join" => lookups'[k].tab \in Up'
  BY DEF Disconnected, TypeOK
<1> QED BY <1>1, <1>2, <1>3, <1>4 DEF Disconnected, TypeOK, DisconnectedTypes

(* So does the loss of the sockets in S ... *)
LEMMA LoseType ==
    ASSUME TypeOK, NEW S \in SUBSET Up, Lose(S), UNCHANGED <<version, cookie>>, purging' \in BOOLEAN
    PROVE  TypeOK'
<1>1. Up' = Up \ S /\ S \subseteq Tabs
  BY DEF Lose, Up
<1>2. DisconnectedTypes'
  BY <1>1, DisconnectedType DEF Lose
<1>3. tab' \in [Tabs -> {"closed", "down", "admitted", "unauthorized", "unavailable", "up"}]
  BY DEF Lose, TypeOK
<1> QED BY <1>2, <1>3 DEF Lose, TypeOK, DisconnectedTypes

(* ... which also keeps the list and the status true ... *)
LEMMA LoseList ==
    ASSUME TypeOK, ListInv, NEW S \in SUBSET Up, Lose(S)
    PROVE  ListInv'
<1>1. Up' = Up \ S /\ Up # {}
  BY DEF Lose, Up
<1> QED BY <1>1 DEF Lose, Disconnected, Last, ListInv, WatchersAreUpToDate,
   StatusHasTabOrTimer, TypeOK

(* ... and what a former member is owed. *)
LEMMA LoseFormer ==
    ASSUME TypeOK, FormerMemberIsOwedRemoval, NEW S \in SUBSET Up, Lose(S)
    PROVE  FormerMemberIsOwedRemoval'
<1>1. CASE Up \subseteq S
  <2>1. listed' = FALSE /\ room' = {}
    BY <1>1 DEF Lose, Disconnected, Last, TypeOK
  <2> QED BY <2>1 DEF FormerMemberIsOwedRemoval
<1>2. CASE ~(Up \subseteq S)
  <2> SUFFICES ASSUME ~member, listed \/ room # {}, ~missed
               PROVE  \E j \in Slots : lookups'[j] # None /\ lookups'[j].kind = "refresh" /\ lookups'[j].answer # TRUE
    BY <1>2 DEF Lose, Disconnected, Last, TypeOK, FormerMemberIsOwedRemoval
  <2>1. PICK j \in Slots : lookups[j] # None /\ lookups[j].kind = "refresh" /\ lookups[j].answer # TRUE
    BY DEF FormerMemberIsOwedRemoval
  <2>2. lookups'[j] = lookups[j]
    BY <2>1 DEF Lose, Disconnected
  <2> QED BY <2>1, <2>2
<1> QED BY <1>1, <1>2

(* Every step keeps the types. *)
LEMMA TypeStep ==
    ASSUME TypeOK, [Next]_vars
    PROVE  TypeOK'
<1>1. CASE UNCHANGED vars
  BY <1>1 DEF vars, session, page, choice, kept, list, TypeOK, Statuses, Up, Lookup,
     Disconnected
<1>2. ASSUME Login \/ Revoke
     PROVE  TypeOK'
  <2>1. cookie' \in 0..version' \cup {None} /\ version' \in 0..MaxVersion
    BY <1>2 DEF Login, Revoke, TypeOK
  <2>2. token' \in [Tabs -> 0..version']
    BY <1>2 DEF Login, Revoke, page, TypeOK
  <2> QED BY <1>2, <2>1, <2>2 DEF Login, Revoke, page, choice, kept, list, TypeOK, Up
<1>3. ASSUME NEW t \in Tabs, Open(t)
     PROVE  TypeOK'
  BY <1>3 DEF Open, Moves, session, kept, list, TypeOK, Statuses, Up, Lookup
<1>4. ASSUME NEW t \in Tabs, Admit(t)
     PROVE  TypeOK'
  BY <1>4 DEF Admit, Moves, session, choice, kept, list, TypeOK, Up, Lookup
<1>5. ASSUME NEW t \in Tabs, Refuse(t)
     PROVE  TypeOK'
  BY <1>5 DEF Refuse, Moves, session, choice, kept, list, TypeOK, Up, Lookup
<1>6. ASSUME NEW t \in Tabs, TryAgain(t)
     PROVE  TypeOK'
  BY <1>6 DEF TryAgain, Moves, session, choice, kept, list, TypeOK, Up, Lookup
<1>7. ASSUME NEW t \in Tabs, LogOut(t)
     PROVE  TypeOK'
  BY <1>7 DEF LogOut, Moves, choice, kept, list, TypeOK, Up, Lookup
<1>8. ASSUME NEW t \in Tabs, Connect(t)
     PROVE  TypeOK'
  <2>1. tab' \in [Tabs -> {"closed", "down", "admitted", "unauthorized", "unavailable", "up"}]
        /\ Up' = Up \cup {t}
    BY <1>8 DEF Connect, Moves, TypeOK, Up
  <2>2. sent' \in [Tabs -> Statuses \cup {None}] /\ status' \in Statuses \cup {None}
    BY <1>8 DEF Connect, TypeOK, Statuses
  <2>3. \A u \in Tabs : sent'[u] # None => u \in Up'
    BY <1>8, <2>1 DEF Connect, TypeOK
  <2>4. lookups' \in [Slots -> Lookup \cup {None}]
    BY <1>8 DEF Connect, Started, TypeOK, Lookup
  <2>5. \A k \in Slots : lookups'[k] # None /\ lookups'[k].kind = "join" => lookups'[k].tab \in Up'
    BY <1>8, <2>1 DEF Connect, Started, TypeOK
  <2> QED BY <1>8, <2>1, <2>2, <2>3, <2>4, <2>5 DEF Connect, session, list, TypeOK
<1>9. ASSUME NEW t \in Tabs, SetStatus(t)
     PROVE  TypeOK'
  BY <1>9 DEF SetStatus, session, page, TypeOK, Statuses, Up, Lookup
<1>10. ASSUME NEW t \in Tabs, IgnoreStatus(t)
     PROVE  TypeOK'
  BY <1>10 DEF IgnoreStatus, session, page, kept, list, TypeOK, Statuses, Up, Lookup
<1>11. ASSUME NEW t \in Tabs, ViewServer(t)
     PROVE  TypeOK'
  BY <1>11 DEF ViewServer, Started, session, page, choice, kept, list, TypeOK, Up, Lookup
<1>12. ASSUME NEW t \in Tabs, LeaveServer(t)
     PROVE  TypeOK'
  BY <1>12 DEF LeaveServer, session, page, choice, kept, TypeOK, Up, Lookup
<1>13. ASSUME NEW t \in Tabs, NEW s \in Statuses, Choose(t, s)
     PROVE  TypeOK'
  BY <1>13 DEF Choose, session, page, kept, list, TypeOK, Statuses, Up, Lookup
<1>14. ASSUME NEW t \in Tabs, Drop(t) \/ Sweep(t)
     PROVE  TypeOK'
  BY <1>14, LoseType DEF Drop, Sweep, session, TypeOK
<1>15. ASSUME Purge
     PROVE  TypeOK'
  <2>1. CASE Up # {}
    BY <1>15, <2>1, LoseType DEF Purge, TypeOK, Up
  <2>2. CASE Up = {}
    BY <1>15, <2>2 DEF Purge, page, choice, kept, list, TypeOK, Up
  <2> QED BY <2>1, <2>2
<1>16. ASSUME NEW t \in Tabs, Close(t)
     PROVE  TypeOK'
  <2>1. tab' \in [Tabs -> {"closed", "down", "admitted", "unauthorized", "unavailable", "up"}]
        /\ Up' = Up \ {t}
    BY <1>16 DEF Close, Moves, TypeOK, Up
  <2>2. CASE t \in Up
    <3>1. DisconnectedTypes'
      BY <1>16, <2>1, <2>2, DisconnectedType DEF Close
    <3> QED BY <1>16, <2>1, <3>1 DEF Close, session, TypeOK, DisconnectedTypes
  <2>3. CASE ~(t \in Up)
    BY <1>16, <2>1, <2>3 DEF Close, session, kept, list, TypeOK
  <2> QED BY <2>2, <2>3
<1>17. ASSUME Forget \/ Remove \/ Rejoin
     PROVE  TypeOK'
  <2>1. lookups' \in [Slots -> Lookup \cup {None}]
    BY <1>17 DEF Forget, Remove, Rejoin, Started, Owed, TypeOK, Lookup
  <2>2. \A k \in Slots : lookups'[k] # None /\ lookups'[k].kind = "join" => lookups'[k].tab \in Up
    BY <1>17 DEF Forget, Remove, Rejoin, Started, Owed, TypeOK
  <2> QED BY <1>17, <2>1, <2>2 DEF Forget, Remove, Rejoin, session, page, choice, kept,
     list, TypeOK, Up
<1>18. ASSUME NEW k \in Slots, Read(k)
     PROVE  TypeOK'
  BY <1>18 DEF Read, session, page, choice, kept, list, TypeOK, Up, Lookup
<1>19. ASSUME NEW k \in Slots, ReadFails(k)
     PROVE  TypeOK'
  BY <1>19 DEF ReadFails, session, page, choice, kept, list, TypeOK, Up, Lookup
<1>20. ASSUME NEW k \in Slots, ListAfterConnect(k)
     PROVE  TypeOK'
  BY <1>20 DEF ListAfterConnect, Finishes, MarkPresent, StillConnected, session, page,
     choice, kept, TypeOK, Statuses, Up, Lookup
<1>21. ASSUME NEW k \in Slots, ListAfterJoin(k)
     PROVE  TypeOK'
  <2>1. lookups[k] # None /\ lookups[k].kind = "join" /\ lookups[k].tab \in Up
    BY <1>21 DEF ListAfterJoin, Finishes, TypeOK
  <2>2. lookups' \in [Slots -> Lookup \cup {None}]
        /\ \A j \in Slots : lookups'[j] # None /\ lookups'[j].kind = "join" => lookups'[j].tab \in Up
    BY <1>21 DEF ListAfterJoin, Finishes, TypeOK
  <2>3. room' \subseteq Up /\ listed' \in BOOLEAN /\ shown' \in Statuses \cup {None} /\ missed' \in BOOLEAN
    BY <1>21, <2>1 DEF ListAfterJoin, MarkPresent, list, TypeOK
  <2> QED BY <1>21, <2>2, <2>3 DEF ListAfterJoin, Finishes, session, page, choice, kept,
     TypeOK, Up
<1>22. ASSUME NEW k \in Slots, Refresh(k)
     PROVE  TypeOK'
  BY <1>22 DEF Refresh, Finishes, session, page, choice, kept, list, TypeOK, Statuses,
     Up, Lookup
<1> QED BY <1>1, <1>2, <1>3, <1>4, <1>5, <1>6, <1>7, <1>8, <1>9, <1>10, <1>11, <1>12,
   <1>13, <1>14, <1>15, <1>16, <1>17, <1>18, <1>19, <1>20, <1>21, <1>22
       DEF Next, LookupStep

(* Every step keeps the list of members and the status of a user true. *)
LEMMA ListStep ==
    ASSUME TypeOK, ListInv, [Next]_vars
    PROVE  ListInv'
<1>1. CASE UNCHANGED vars
  BY <1>1 DEF vars, session, page, choice, kept, list, ListInv, WatchersAreUpToDate,
     StatusHasTabOrTimer, TypeOK, Statuses, Up, Disconnected, Last
<1>2. ASSUME Login \/ Revoke
     PROVE  ListInv'
  BY <1>2 DEF Login, Revoke, page, choice, kept, list, ListInv, WatchersAreUpToDate,
     StatusHasTabOrTimer, TypeOK, Up
<1>3. ASSUME NEW t \in Tabs, Open(t)
     PROVE  ListInv'
  BY <1>3 DEF Open, Moves, kept, list, ListInv, WatchersAreUpToDate,
     StatusHasTabOrTimer, TypeOK, Statuses, Up
<1>4. ASSUME NEW t \in Tabs, Admit(t)
     PROVE  ListInv'
  BY <1>4 DEF Admit, Moves, choice, kept, list, ListInv, WatchersAreUpToDate,
     StatusHasTabOrTimer, TypeOK, Up
<1>5. ASSUME NEW t \in Tabs, Refuse(t)
     PROVE  ListInv'
  BY <1>5 DEF Refuse, Moves, choice, kept, list, ListInv, WatchersAreUpToDate,
     StatusHasTabOrTimer, TypeOK, Up
<1>6. ASSUME NEW t \in Tabs, TryAgain(t)
     PROVE  ListInv'
  BY <1>6 DEF TryAgain, Moves, choice, kept, list, ListInv, WatchersAreUpToDate,
     StatusHasTabOrTimer, TypeOK, Up
<1>7. ASSUME NEW t \in Tabs, LogOut(t)
     PROVE  ListInv'
  BY <1>7 DEF LogOut, Moves, choice, kept, list, ListInv, WatchersAreUpToDate,
     StatusHasTabOrTimer, TypeOK, Up
<1>8. ASSUME NEW t \in Tabs, Connect(t)
     PROVE  ListInv'
  BY <1>8 DEF Connect, Moves, Started, list, ListInv, WatchersAreUpToDate,
     StatusHasTabOrTimer, TypeOK, Statuses, Up
<1>9. ASSUME NEW t \in Tabs, SetStatus(t)
     PROVE  ListInv'
  BY <1>9 DEF SetStatus, page, ListInv, WatchersAreUpToDate, StatusHasTabOrTimer,
     TypeOK, Statuses, Up
<1>10. ASSUME NEW t \in Tabs, IgnoreStatus(t)
     PROVE  ListInv'
  BY <1>10 DEF IgnoreStatus, page, kept, list, ListInv, WatchersAreUpToDate,
     StatusHasTabOrTimer, TypeOK, Statuses, Up
<1>11. ASSUME NEW t \in Tabs, ViewServer(t)
     PROVE  ListInv'
  BY <1>11 DEF ViewServer, Started, page, choice, kept, list, ListInv,
     WatchersAreUpToDate, StatusHasTabOrTimer, TypeOK, Up
<1>12. ASSUME NEW t \in Tabs, LeaveServer(t)
     PROVE  ListInv'
  BY <1>12 DEF LeaveServer, page, choice, kept, ListInv, WatchersAreUpToDate,
     StatusHasTabOrTimer, TypeOK, Up
<1>13. ASSUME NEW t \in Tabs, NEW s \in Statuses, Choose(t, s)
     PROVE  ListInv'
  BY <1>13 DEF Choose, page, kept, list, ListInv, WatchersAreUpToDate,
     StatusHasTabOrTimer, TypeOK, Statuses, Up
<1>14. ASSUME NEW t \in Tabs, Drop(t) \/ Sweep(t)
     PROVE  ListInv'
  BY <1>14, LoseList DEF Drop, Sweep, Up
<1>15. ASSUME Purge
     PROVE  ListInv'
  <2>1. CASE Up # {}
    BY <1>15, <2>1, LoseList DEF Purge, Up
  <2>2. CASE Up = {}
    BY <1>15, <2>2 DEF Purge, page, kept, list, ListInv, WatchersAreUpToDate,
       StatusHasTabOrTimer, Up
  <2> QED BY <2>1, <2>2
<1>16. ASSUME NEW t \in Tabs, Close(t)
     PROVE  ListInv'
  BY <1>16 DEF Close, Moves, kept, list, ListInv, WatchersAreUpToDate,
     StatusHasTabOrTimer, TypeOK, Statuses, Up, Disconnected, Last
<1>17. ASSUME Forget \/ Remove \/ Rejoin
     PROVE  ListInv'
  BY <1>17 DEF Forget, Remove, Rejoin, Started, Owed, page, choice, kept, list, ListInv,
     WatchersAreUpToDate, StatusHasTabOrTimer, TypeOK, Statuses, Up
<1>18. ASSUME NEW k \in Slots, Read(k)
     PROVE  ListInv'
  BY <1>18 DEF Read, page, choice, kept, list, ListInv, WatchersAreUpToDate,
     StatusHasTabOrTimer, TypeOK, Up
<1>19. ASSUME NEW k \in Slots, ReadFails(k)
     PROVE  ListInv'
  BY <1>19 DEF ReadFails, page, choice, kept, list, ListInv, WatchersAreUpToDate,
     StatusHasTabOrTimer, TypeOK, Up
<1>20. ASSUME NEW k \in Slots, ListAfterConnect(k)
     PROVE  ListInv'
  BY <1>20 DEF ListAfterConnect, Finishes, MarkPresent, StillConnected, page, choice,
     kept, ListInv, WatchersAreUpToDate, StatusHasTabOrTimer, TypeOK, Statuses, Up
<1>21. ASSUME NEW k \in Slots, ListAfterJoin(k)
     PROVE  ListInv'
  BY <1>21 DEF ListAfterJoin, Finishes, MarkPresent, page, choice, kept, list, ListInv,
     WatchersAreUpToDate, StatusHasTabOrTimer, TypeOK, Statuses, Up
<1>22. ASSUME NEW k \in Slots, Refresh(k)
     PROVE  ListInv'
  BY <1>22 DEF Refresh, Finishes, page, choice, kept, list, ListInv,
     WatchersAreUpToDate, StatusHasTabOrTimer, TypeOK, Statuses, Up
<1> QED BY <1>1, <1>2, <1>3, <1>4, <1>5, <1>6, <1>7, <1>8, <1>9, <1>10, <1>11, <1>12,
   <1>13, <1>14, <1>15, <1>16, <1>17, <1>18, <1>19, <1>20, <1>21, <1>22
       DEF Next, LookupStep

(* Every step keeps the choices of the pages and the status of the user together. *)
LEMMA ChoiceStep ==
    ASSUME TypeOK, ListInv, ChoiceInv, [Next]_vars
    PROVE  ChoiceInv'
<1>1. CASE UNCHANGED vars
  BY <1>1 DEF vars, session, page, choice, kept, list, ChoiceInv, OwnStatusIsKept,
     ListInv, StatusHasTabOrTimer, TypeOK, Statuses, Up, Disconnected
<1>2. ASSUME Login \/ Revoke
     PROVE  ChoiceInv'
  BY <1>2 DEF Login, Revoke, page, choice, kept, ChoiceInv, OwnStatusIsKept, ListInv,
     StatusHasTabOrTimer, TypeOK, Up
<1>3. ASSUME NEW t \in Tabs, Open(t)
     PROVE  ChoiceInv'
  BY <1>3 DEF Open, Moves, kept, ChoiceInv, OwnStatusIsKept, ListInv,
     StatusHasTabOrTimer, TypeOK, Statuses, Up
<1>4. ASSUME NEW t \in Tabs, Admit(t)
     PROVE  ChoiceInv'
  BY <1>4 DEF Admit, Moves, choice, kept, ChoiceInv, OwnStatusIsKept, ListInv,
     StatusHasTabOrTimer, TypeOK, Up
<1>5. ASSUME NEW t \in Tabs, Refuse(t)
     PROVE  ChoiceInv'
  BY <1>5 DEF Refuse, Moves, choice, kept, ChoiceInv, OwnStatusIsKept, ListInv,
     StatusHasTabOrTimer, TypeOK, Up
<1>6. ASSUME NEW t \in Tabs, TryAgain(t)
     PROVE  ChoiceInv'
  BY <1>6 DEF TryAgain, Moves, choice, kept, ChoiceInv, OwnStatusIsKept, ListInv,
     StatusHasTabOrTimer, TypeOK, Up
<1>7. ASSUME NEW t \in Tabs, LogOut(t)
     PROVE  ChoiceInv'
  BY <1>7 DEF LogOut, Moves, choice, kept, ChoiceInv, OwnStatusIsKept, ListInv,
     StatusHasTabOrTimer, TypeOK, Up
<1>8. ASSUME NEW t \in Tabs, Connect(t)
     PROVE  ChoiceInv'
  BY <1>8 DEF Connect, Moves, Started, ChoiceInv, OwnStatusIsKept, ListInv,
     StatusHasTabOrTimer, TypeOK, Statuses, Up
<1>9. ASSUME NEW t \in Tabs, SetStatus(t)
     PROVE  ChoiceInv'
  BY <1>9 DEF SetStatus, page, ChoiceInv, OwnStatusIsKept, ListInv, StatusHasTabOrTimer,
     TypeOK, Statuses, Up
<1>10. ASSUME NEW t \in Tabs, IgnoreStatus(t)
     PROVE  ChoiceInv'
  BY <1>10 DEF IgnoreStatus, page, kept, ChoiceInv, OwnStatusIsKept, ListInv,
     StatusHasTabOrTimer, TypeOK, Statuses, Up
<1>11. ASSUME NEW t \in Tabs, ViewServer(t)
     PROVE  ChoiceInv'
  BY <1>11 DEF ViewServer, Started, page, choice, kept, ChoiceInv, OwnStatusIsKept,
     ListInv, StatusHasTabOrTimer, TypeOK, Up
<1>12. ASSUME NEW t \in Tabs, LeaveServer(t)
     PROVE  ChoiceInv'
  BY <1>12 DEF LeaveServer, page, choice, kept, ChoiceInv, OwnStatusIsKept, ListInv,
     StatusHasTabOrTimer, TypeOK, Up
<1>13. ASSUME NEW t \in Tabs, NEW s \in Statuses, Choose(t, s)
     PROVE  ChoiceInv'
  BY <1>13 DEF Choose, page, kept, ChoiceInv, OwnStatusIsKept, ListInv,
     StatusHasTabOrTimer, TypeOK, Statuses, Up
<1>14. ASSUME NEW t \in Tabs, Drop(t) \/ Sweep(t)
     PROVE  ChoiceInv'
  BY <1>14 DEF Drop, Sweep, Lose, Up, ChoiceInv, OwnStatusIsKept, ListInv,
     StatusHasTabOrTimer, TypeOK, Statuses, Disconnected
<1>15. ASSUME Purge
     PROVE  ChoiceInv'
  BY <1>15 DEF Purge, Lose, page, choice, kept, ChoiceInv, OwnStatusIsKept, ListInv,
     StatusHasTabOrTimer, TypeOK, Statuses, Up, Disconnected
<1>16. ASSUME NEW t \in Tabs, Close(t)
     PROVE  ChoiceInv'
  BY <1>16 DEF Close, Moves, kept, ChoiceInv, OwnStatusIsKept, ListInv,
     StatusHasTabOrTimer, TypeOK, Statuses, Up, Disconnected
<1>17. ASSUME Forget \/ Remove \/ Rejoin
     PROVE  ChoiceInv'
  BY <1>17 DEF Forget, Remove, Rejoin, Started, Owed, page, choice, kept, ChoiceInv,
     OwnStatusIsKept, ListInv, StatusHasTabOrTimer, TypeOK, Statuses, Up
<1>18. ASSUME NEW k \in Slots, Read(k)
     PROVE  ChoiceInv'
  BY <1>18 DEF Read, page, choice, kept, ChoiceInv, OwnStatusIsKept, ListInv,
     StatusHasTabOrTimer, TypeOK, Up
<1>19. ASSUME NEW k \in Slots, ReadFails(k)
     PROVE  ChoiceInv'
  BY <1>19 DEF ReadFails, page, choice, kept, ChoiceInv, OwnStatusIsKept, ListInv,
     StatusHasTabOrTimer, TypeOK, Up
<1>20. ASSUME NEW k \in Slots, ListAfterConnect(k)
     PROVE  ChoiceInv'
  BY <1>20 DEF ListAfterConnect, Finishes, MarkPresent, StillConnected, page, choice,
     kept, ChoiceInv, OwnStatusIsKept, ListInv, StatusHasTabOrTimer, TypeOK, Statuses,
     Up
<1>21. ASSUME NEW k \in Slots, ListAfterJoin(k)
     PROVE  ChoiceInv'
  BY <1>21 DEF ListAfterJoin, Finishes, MarkPresent, page, choice, kept, ChoiceInv,
     OwnStatusIsKept, ListInv, StatusHasTabOrTimer, TypeOK, Statuses, Up
<1>22. ASSUME NEW k \in Slots, Refresh(k)
     PROVE  ChoiceInv'
  BY <1>22 DEF Refresh, Finishes, page, choice, kept, ChoiceInv, OwnStatusIsKept,
     ListInv, StatusHasTabOrTimer, TypeOK, Statuses, Up
<1> QED BY <1>1, <1>2, <1>3, <1>4, <1>5, <1>6, <1>7, <1>8, <1>9, <1>10, <1>11, <1>12,
   <1>13, <1>14, <1>15, <1>16, <1>17, <1>18, <1>19, <1>20, <1>21, <1>22
       DEF Next, LookupStep

(* Every step keeps the debt to a former member. *)
LEMMA FormerMemberStep ==
    ASSUME TypeOK, FormerMemberIsOwedRemoval, [Next]_vars
    PROVE  FormerMemberIsOwedRemoval'
<1>1. CASE UNCHANGED vars
  BY <1>1 DEF vars, session, page, choice, kept, list, FormerMemberIsOwedRemoval,
     TypeOK, Up, Disconnected, Last
<1>2. ASSUME Login \/ Revoke
     PROVE  FormerMemberIsOwedRemoval'
  BY <1>2 DEF Login, Revoke, page, list, FormerMemberIsOwedRemoval, TypeOK, Up
<1>3. ASSUME NEW t \in Tabs, Open(t)
     PROVE  FormerMemberIsOwedRemoval'
  BY <1>3 DEF Open, Moves, list, FormerMemberIsOwedRemoval, TypeOK, Up
<1>4. ASSUME NEW t \in Tabs, Admit(t)
     PROVE  FormerMemberIsOwedRemoval'
  BY <1>4 DEF Admit, Moves, list, FormerMemberIsOwedRemoval, TypeOK, Up
<1>5. ASSUME NEW t \in Tabs, Refuse(t)
     PROVE  FormerMemberIsOwedRemoval'
  BY <1>5 DEF Refuse, Moves, list, FormerMemberIsOwedRemoval, TypeOK, Up
<1>6. ASSUME NEW t \in Tabs, TryAgain(t)
     PROVE  FormerMemberIsOwedRemoval'
  BY <1>6 DEF TryAgain, Moves, list, FormerMemberIsOwedRemoval, TypeOK, Up
<1>7. ASSUME NEW t \in Tabs, LogOut(t)
     PROVE  FormerMemberIsOwedRemoval'
  BY <1>7 DEF LogOut, Moves, list, FormerMemberIsOwedRemoval, TypeOK, Up
<1>8. ASSUME NEW t \in Tabs, Connect(t)
     PROVE  FormerMemberIsOwedRemoval'
  BY <1>8 DEF Connect, Moves, Started, list, FormerMemberIsOwedRemoval, TypeOK, Up
<1>9. ASSUME NEW t \in Tabs, SetStatus(t)
     PROVE  FormerMemberIsOwedRemoval'
  BY <1>9 DEF SetStatus, page, FormerMemberIsOwedRemoval, TypeOK, Up
<1>10. ASSUME NEW t \in Tabs, IgnoreStatus(t)
     PROVE  FormerMemberIsOwedRemoval'
  BY <1>10 DEF IgnoreStatus, page, list, FormerMemberIsOwedRemoval, TypeOK, Up
<1>11. ASSUME NEW t \in Tabs, ViewServer(t)
     PROVE  FormerMemberIsOwedRemoval'
  BY <1>11 DEF ViewServer, Started, page, list, FormerMemberIsOwedRemoval, TypeOK, Up
<1>12. ASSUME NEW t \in Tabs, LeaveServer(t)
     PROVE  FormerMemberIsOwedRemoval'
  BY <1>12 DEF LeaveServer, page, FormerMemberIsOwedRemoval, TypeOK, Up
<1>13. ASSUME NEW t \in Tabs, NEW s \in Statuses, Choose(t, s)
     PROVE  FormerMemberIsOwedRemoval'
  BY <1>13 DEF Choose, page, list, FormerMemberIsOwedRemoval, TypeOK, Up
<1>14. ASSUME NEW t \in Tabs, Drop(t) \/ Sweep(t)
     PROVE  FormerMemberIsOwedRemoval'
  BY <1>14, LoseFormer DEF Drop, Sweep
<1>15. ASSUME Purge
     PROVE  FormerMemberIsOwedRemoval'
  BY <1>15 DEF Purge, Lose, page, list, FormerMemberIsOwedRemoval, TypeOK, Up,
     Disconnected, Last
<1>16. ASSUME NEW t \in Tabs, Close(t)
     PROVE  FormerMemberIsOwedRemoval'
  BY <1>16 DEF Close, Moves, list, FormerMemberIsOwedRemoval, TypeOK, Up, Disconnected,
     Last
<1>17. ASSUME Forget \/ Remove \/ Rejoin
     PROVE  FormerMemberIsOwedRemoval'
  <2>1. CASE Remove
    <3>1. PICK k \in Slots : Started(k, Owed)
      BY <2>1 DEF Remove
    <3>2. lookups'[k] = Owed
      BY <3>1 DEF Started, TypeOK
    <3>3. Owed \in Lookup /\ Owed.kind = "refresh" /\ Owed.answer # TRUE
      BY DEF Owed, Lookup
    <3> QED BY <3>2, <3>3 DEF FormerMemberIsOwedRemoval
  <2>2. CASE Forget \/ Rejoin
    BY <2>2 DEF Forget, Rejoin, list, FormerMemberIsOwedRemoval
  <2> QED BY <1>17, <2>1, <2>2
<1>18. ASSUME NEW k \in Slots, Read(k)
     PROVE  FormerMemberIsOwedRemoval'
  <2> SUFFICES ASSUME ~member, listed \/ room # {}, ~missed
               PROVE  \E j \in Slots : lookups'[j] # None /\ lookups'[j].kind = "refresh" /\ lookups'[j].answer # TRUE
    BY <1>18 DEF Read, list, FormerMemberIsOwedRemoval
  <2>1. PICK j \in Slots : lookups[j] # None /\ lookups[j].kind = "refresh" /\ lookups[j].answer # TRUE
    BY DEF FormerMemberIsOwedRemoval
  <2>2. lookups[j] \in Lookup
    BY <2>1 DEF TypeOK
  <2>3. CASE j = k
    <3>1. lookups'[j] = [lookups[j] EXCEPT !.answer = FALSE]
      BY <1>18, <2>3 DEF Read, TypeOK
    <3>2. lookups'[j] \in Lookup /\ lookups'[j].kind = "refresh" /\ lookups'[j].answer = FALSE
      BY <2>1, <2>2, <3>1 DEF Lookup
    <3> QED BY <3>2
  <2>4. CASE j # k
    BY <1>18, <2>1, <2>4 DEF Read, TypeOK
  <2> QED BY <2>3, <2>4
<1>19. ASSUME NEW k \in Slots, ReadFails(k)
     PROVE  FormerMemberIsOwedRemoval'
  BY <1>19 DEF ReadFails, page, list, FormerMemberIsOwedRemoval, TypeOK, Up
<1>20. ASSUME NEW k \in Slots, ListAfterConnect(k)
     PROVE  FormerMemberIsOwedRemoval'
  BY <1>20 DEF ListAfterConnect, Finishes, MarkPresent, StillConnected, page,
     FormerMemberIsOwedRemoval, TypeOK, Up
<1>21. ASSUME NEW k \in Slots, ListAfterJoin(k)
     PROVE  FormerMemberIsOwedRemoval'
  BY <1>21 DEF ListAfterJoin, Finishes, MarkPresent, page, list,
     FormerMemberIsOwedRemoval, TypeOK, Up
<1>22. ASSUME NEW k \in Slots, Refresh(k)
     PROVE  FormerMemberIsOwedRemoval'
  BY <1>22 DEF Refresh, Finishes, page, list, FormerMemberIsOwedRemoval, TypeOK, Up
<1> QED BY <1>1, <1>2, <1>3, <1>4, <1>5, <1>6, <1>7, <1>8, <1>9, <1>10, <1>11, <1>12,
   <1>13, <1>14, <1>15, <1>16, <1>17, <1>18, <1>19, <1>20, <1>21, <1>22
       DEF Next, LookupStep

(* Every step preserves the inductive invariant. *)
LEMMA Preserved == PresenceInv /\ [Next]_vars => PresenceInv'
BY TypeStep, ListStep, ChoiceStep, FormerMemberStep DEF PresenceInv

(* So it is an invariant. *)
LEMMA Invariant == FairSpec => []PresenceInv
BY InitInv, Preserved, PTL DEF FairSpec, Spec

-----------------------------------------------------------------------------
(* Type correctness.  In particular a page has a status message on its way, or waits
   for an answer to join a server, only while it is connected. *)
THEOREM TypeCorrect == FairSpec => []TypeOK
BY Invariant, PTL DEF PresenceInv

(* The members of the server know what the server knows of the user, and nobody is
   listed without a tab: no lookup that comes back late can undo that. *)
THEOREM WatchersKnow == FairSpec => []WatchersAreUpToDate
<1>1. PresenceInv => WatchersAreUpToDate
  BY DEF PresenceInv, ListInv
<1> QED BY <1>1, Invariant, PTL

(* The grace period of a status runs exactly while no tab holds the status. *)
THEOREM StatusKept == FairSpec => []StatusHasTabOrTimer
<1>1. PresenceInv => StatusHasTabOrTimer
  BY DEF PresenceInv, ListInv
<1> QED BY <1>1, Invariant, PTL

(* Except after the steps that the property names, a connected page shows its user
   the status that the server keeps. *)
THEOREM OwnStatus == FairSpec => []OwnStatusIsKept
<1>1. PresenceInv => OwnStatusIsKept
  BY DEF PresenceInv, ChoiceInv
<1> QED BY <1>1, Invariant, PTL

(* A former member who is still listed, or still in the server's room, is about to be
   taken off it by a refresh, or a refresh has been missed. *)
THEOREM FormerMember == FairSpec => []FormerMemberIsOwedRemoval
<1>1. PresenceInv => FormerMemberIsOwedRemoval
  BY DEF PresenceInv
<1> QED BY <1>1, Invariant, PTL

=============================================================================
