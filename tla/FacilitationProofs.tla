-------------------------- MODULE FacilitationProofs --------------------------
(***************************************************************************)
(* What every number of users, channels, side fires and waiting handlers   *)
(* leaves true of Facilitation.                                            *)
(***************************************************************************)
EXTENDS Facilitation, ListsProofs

(* A lantern, a stage that suit a room. *)
LanternFits(l, r) ==
  l # None => /\ l.host \in ToSet(r)
              /\ ToSet(l.queue) \subseteq ToSet(r)
              /\ IsInjective(l.queue)
              /\ l.holder \notin ToSet(l.queue)
              /\ l.holder = None => l.queue = <<>>

StageFits(s, r) ==
  s # None => /\ s.host \in ToSet(r)
              /\ ToSet(s.speakers) \subseteq ToSet(r)
              /\ ToSet(s.queue) \subseteq ToSet(r)
              /\ IsInjective(s.queue)
              /\ Len(s.speakers) <= MaxStageSpeakers
              /\ ToSet(s.speakers) \cap ToSet(s.queue) \subseteq {s.host}

-----------------------------------------------------------------------------
(* The lantern *)

(* Passed on to the first in the queue, it still suits the room, and nobody but one
   who is there gets it. *)
LEMMA AdvancedFits ==
  ASSUME NEW l \in Lantern, NEW r \in Seq(Users),
         ToSet(l.queue) \subseteq ToSet(r), IsInjective(l.queue)
  PROVE  /\ LanternAdvanced(l, r) \in Lantern
         /\ LanternAdvanced(l, r).host = l.host
         /\ ToSet(LanternAdvanced(l, r).queue) \subseteq ToSet(r)
         /\ IsInjective(LanternAdvanced(l, r).queue)
         /\ LanternAdvanced(l, r).holder \notin ToSet(LanternAdvanced(l, r).queue)
         /\ LanternAdvanced(l, r).holder = None => LanternAdvanced(l, r).queue = <<>>
         /\ LanternAdvanced(l, r).holder # None => LanternAdvanced(l, r).holder \in ToSet(r)
<1> DEFINE next == FirstPlace(l.queue, ToSet(r))
           q == l.queue
           rest == SubSeq(q, next + 1, Len(q))
<1>1. q \in Seq(Users) /\ Len(q) \in Nat /\ DOMAIN q = 1..Len(q)
  BY DEF Lantern
<1>2. CASE next = 0
  <2>1. LanternAdvanced(l, r) = [l EXCEPT !.holder = None, !.queue = <<>>]
    BY <1>2 DEF LanternAdvanced
  <2>2. <<>> \in Seq(Users)
    OBVIOUS
  <2>3. LanternAdvanced(l, r) = [host |-> l.host, holder |-> None, queue |-> <<>>]
    BY <2>1 DEF Lantern
  <2> QED
    BY <2>2, <2>3 DEF Lantern, IsInjective, ToSet
<1>3. CASE next # 0
  <2>1. next \in 1..Len(q) /\ q[next] \in ToSet(r)
    BY <1>1, <1>3, FirstPlaceFinds
  <2>2. LanternAdvanced(l, r) = [l EXCEPT !.holder = q[next], !.queue = rest]
    BY <1>3 DEF LanternAdvanced
  <2> HIDE DEF next
  <2>3. /\ rest \in Seq(Users)
        /\ DOMAIN rest = 1..(Len(q) - next)
        /\ \A i \in 1..(Len(q) - next) : rest[i] = q[i + next] /\ i + next \in 1..Len(q)
    BY <1>1, <2>1
  <2> HIDE DEF rest, q
  <2>4. ToSet(rest) \subseteq ToSet(q)
    BY <1>1, <2>1, <2>3 DEF ToSet
  <2>9. \A i, j \in 1..Len(q) : q[i] = q[j] => i = j
    BY <1>1 DEF IsInjective, q
  <2>5. q[next] \notin ToSet(rest)
    BY <1>1, <2>1, <2>3, <2>9 DEF ToSet
  <2>6. IsInjective(rest)
    BY <1>1, <2>1, <2>3, <2>9 DEF IsInjective
  <2>7. q[next] \in Users
    BY <1>1, <2>1
  <2>8. q[next] # None
    BY <2>7, FacilitationAssumption
  <2> QED
    BY <2>1, <2>2, <2>3, <2>4, <2>5, <2>6, <2>7, <2>8 DEF Lantern, q
<1> QED
  BY <1>2, <1>3

(* A lantern that suits the room suits what is left of it without a user, and does
   not fall out of hands that stay. *)
LEMMA LanternWithoutFits ==
  ASSUME NEW l \in Lantern \cup {None}, NEW r \in Seq(Users), NEW u \in Users,
         LanternFits(l, r)
  PROVE  LET left == LanternWithout(l, RoomWithout(r, u), u)
         IN /\ left \in Lantern \cup {None}
            /\ LanternFits(left, RoomWithout(r, u))
            /\ left # None /\ left.holder # None /\ left.holder \notin ToSet(RoomWithout(r, u))
                 => l # None /\ l.holder # None /\ l.holder \notin ToSet(r)
<1> DEFINE r2 == RoomWithout(r, u)
           q2 == Dropping(l.queue, {u})
           waiting == [l EXCEPT !.queue = q2]
           passed == IF l.holder = u THEN LanternAdvanced(waiting, r2) ELSE waiting
           heir == IF passed.holder \in ToSet(r2) THEN passed.holder ELSE Head(r2)
           left == LanternWithout(l, r2, u)
<1>1. r2 \in Seq(Users) /\ ToSet(r2) = ToSet(r) \ {u}
  BY DroppingKeeps DEF RoomWithout
<1>2. CASE l = None \/ r2 = <<>>
  <2>1. left = None
    BY <1>2 DEF LanternWithout
  <2> QED
    BY <2>1 DEF LanternFits
<1>3. CASE l # None /\ r2 # <<>>
  <2>1. l \in Lantern /\ l.queue \in Seq(Users)
    BY <1>3 DEF Lantern
  <2>2. /\ l.host \in ToSet(r)
        /\ ToSet(l.queue) \subseteq ToSet(r)
        /\ IsInjective(l.queue)
        /\ l.holder \notin ToSet(l.queue)
        /\ l.holder = None => l.queue = <<>>
    BY <1>3 DEF LanternFits
  <2>3. /\ q2 \in Seq(Users) /\ ToSet(q2) = ToSet(l.queue) \ {u} /\ IsInjective(q2)
        /\ Len(q2) <= Len(l.queue)
    BY <2>1, <2>2, DroppingKeeps
  <2>4. l.queue = <<>> => q2 = <<>>
    BY <2>1, <2>3
  <2> HIDE DEF r2, q2
  <2>5. waiting \in Lantern /\ waiting.queue = q2 /\ waiting.host = l.host /\ waiting.holder = l.holder
    BY <2>1, <2>3 DEF Lantern
  <2>6. left = [passed EXCEPT !.host = IF @ = u THEN heir ELSE @]
    BY <1>3 DEF LanternWithout, q2
  <2> HIDE DEF waiting
  <2>7. /\ passed \in Lantern
        /\ passed.host = l.host
        /\ ToSet(passed.queue) \subseteq ToSet(r2)
        /\ IsInjective(passed.queue)
        /\ passed.holder \notin ToSet(passed.queue)
        /\ passed.holder = None => passed.queue = <<>>
        /\ \/ passed.holder \in ToSet(r2) \cup {None}
           \/ passed.holder = l.holder /\ l.holder # u
    <3>1. CASE l.holder = u
      <4>1. passed = LanternAdvanced(waiting, r2)
        BY <3>1
      <4> HIDE DEF passed
      <4>2. ToSet(waiting.queue) \subseteq ToSet(r2) /\ IsInjective(waiting.queue)
        BY <1>1, <2>2, <2>3, <2>5
      <4> QED
        BY <1>1, <2>5, <4>1, <4>2, AdvancedFits
    <3>2. CASE l.holder # u
      <4>1. passed = waiting
        BY <3>2
      <4> HIDE DEF passed
      <4> QED
        BY <1>1, <2>2, <2>3, <2>4, <2>5, <3>2, <4>1
    <3> QED
      BY <3>1, <3>2
  <2> HIDE DEF passed
  <2>8. heir \in ToSet(r2) /\ heir \in Users
    BY <1>1, <1>3, Heads
  <2> HIDE DEF heir
  <2>9. /\ left \in Lantern
        /\ left.host = IF l.host = u THEN heir ELSE l.host
        /\ left.holder = passed.holder /\ left.queue = passed.queue
    BY <2>6, <2>7, <2>8 DEF Lantern
  <2>10. left.host \in ToSet(r2)
    BY <1>1, <2>2, <2>8, <2>9
  <2>11. LanternFits(left, r2)
    BY <2>7, <2>9, <2>10 DEF LanternFits
  <2>12. left.holder # None /\ left.holder \notin ToSet(r2) => l.holder # None /\ l.holder \notin ToSet(r)
    BY <1>1, <2>7, <2>9
  <2> HIDE DEF left
  <2>13. /\ left \in Lantern \cup {None}
         /\ LanternFits(left, r2)
         /\ left # None /\ left.holder # None /\ left.holder \notin ToSet(r2)
              => l # None /\ l.holder # None /\ l.holder \notin ToSet(r)
    BY <1>3, <2>9, <2>11, <2>12
  <2> QED
    BY <2>13 DEF r2, left
<1> QED
  BY <1>2, <1>3

(* Whoever it is passed to holds it without waiting for it. *)
LEMMA PassedFits ==
  ASSUME NEW l \in Lantern, NEW r \in Seq(Users), NEW v \in Users, LanternFits(l, r)
  PROVE  /\ LanternPassed(l, r, v) \in Lantern
         /\ LanternPassed(l, r, v).holder = v
         /\ LanternFits(LanternPassed(l, r, v), r)
<1> DEFINE done == {v} \cup ({l.holder} \cap ToSet(r))
           q2 == Dropping(l.queue, done)
<1>1. LanternPassed(l, r, v) = [l EXCEPT !.holder = v, !.queue = q2]
  BY DEF LanternPassed
<1>2. l # None
  BY FacilitationAssumption
<1>3. l.queue \in Seq(Users) /\ IsInjective(l.queue) /\ l.host \in ToSet(r) /\ ToSet(l.queue) \subseteq ToSet(r)
  BY <1>2 DEF Lantern, LanternFits
<1>4. q2 \in Seq(Users) /\ ToSet(q2) = ToSet(l.queue) \ done /\ IsInjective(q2)
  BY <1>3, DroppingKeeps
<1>5. v \in done /\ v # None
  BY FacilitationAssumption
<1> HIDE DEF q2, done
<1>6. /\ LanternPassed(l, r, v) \in Lantern
      /\ LanternPassed(l, r, v).holder = v
      /\ LanternPassed(l, r, v).host = l.host
      /\ LanternPassed(l, r, v).queue = q2
  BY <1>1, <1>4 DEF Lantern
<1> QED
  BY <1>3, <1>4, <1>5, <1>6 DEF LanternFits

-----------------------------------------------------------------------------
(* The stage *)

(* A stage that suits its room. *)
StageSuits(s, r) == /\ s \in Stage \cup {None}
                    /\ s # None => IsInjective(s.speakers)
                    /\ StageFits(s, r)

(* The parts of a stage's record. *)
LEMMA StageParts ==
  ASSUME NEW s \in Stage
  PROVE  /\ s # None
         /\ s.speakers \in Seq(Users) /\ s.queue \in Seq(Users) /\ s.host \in Users
         /\ Len(s.speakers) \in Nat
  BY FacilitationAssumption, Heads DEF Stage

(* A stage without a user suits the room without that user, and is there as long as
   somebody is. *)
LEMMA StageWithoutFits ==
  ASSUME NEW s, NEW r \in Seq(Users), NEW u \in Users, StageSuits(s, r)
  PROVE  /\ StageSuits(StageWithout(s, RoomWithout(r, u), u), RoomWithout(r, u))
         /\ RoomWithout(r, u) # <<>> =>
              (StageWithout(s, RoomWithout(r, u), u) # None <=> s # None)
<1> DEFINE r2 == RoomWithout(r, u)
           gone == StageWithout(s, r2, u)
           sp == Dropping(s.speakers, {u})
           q == Dropping(s.queue, {u})
           left == [s EXCEPT !.speakers = sp, !.queue = q]
           first == FirstPlace(left.speakers, ToSet(r2))
           heir == IF first = 0 THEN Head(r2) ELSE left.speakers[first]
<1>1. r2 \in Seq(Users) /\ ToSet(r2) = ToSet(r) \ {u}
  BY DroppingKeeps DEF RoomWithout
<1>2. CASE s = None \/ r2 = <<>>
  <2>1. gone = None
    BY <1>2 DEF StageWithout
  <2>2. StageSuits(None, r2)
    BY DEF StageSuits, StageFits
  <2> QED
    BY <1>2, <2>1, <2>2
<1>3. CASE s # None /\ r2 # <<>>
  <2>1. /\ s \in Stage /\ s.speakers \in Seq(Users) /\ s.queue \in Seq(Users)
        /\ IsInjective(s.speakers)
    BY <1>3, StageParts DEF StageSuits
  <2>2. /\ s.host \in ToSet(r) /\ s.host \in Users
        /\ ToSet(s.speakers) \subseteq ToSet(r)
        /\ ToSet(s.queue) \subseteq ToSet(r)
        /\ IsInjective(s.queue)
        /\ Len(s.speakers) <= MaxStageSpeakers
        /\ ToSet(s.speakers) \cap ToSet(s.queue) \subseteq {s.host}
    BY <1>3, <2>1, StageParts DEF StageSuits, StageFits
  <2>3. /\ sp \in Seq(Users) /\ ToSet(sp) = ToSet(s.speakers) \ {u}
        /\ Len(sp) <= Len(s.speakers) /\ IsInjective(sp)
    BY <2>1, DroppingKeeps
  <2>4. q \in Seq(Users) /\ ToSet(q) = ToSet(s.queue) \ {u} /\ IsInjective(q)
    BY <2>1, <2>2, DroppingKeeps
  <2>5. Len(sp) \in Nat /\ Len(sp) <= MaxStageSpeakers
    BY <2>1, <2>2, <2>3, FacilitationAssumption, Heads
  <2>6. gone = IF s.host # u THEN left
               ELSE [left EXCEPT !.host = heir,
                       !.speakers = IF heir \in ToSet(@) THEN @ ELSE Append(@, heir)]
    BY <1>3 DEF StageWithout
  <2> HIDE DEF sp, q, r2
  <2>7. left \in Stage /\ left.host = s.host /\ left.speakers = sp /\ left.queue = q
    <3>1. s \in Stage /\ sp \in Seq(Users) /\ q \in Seq(Users)
      BY <2>1, <2>3, <2>4
    <3>2. left \in Stage
      BY <3>1 DEF Stage
    <3>3. left.host = s.host
      BY <3>1 DEF Stage
    <3>4. left.speakers = sp
      BY <3>1 DEF Stage
    <3>5. left.queue = q
      BY <3>1 DEF Stage
    <3> QED
      BY <3>2, <3>3, <3>4, <3>5
  <2> HIDE DEF left
  <2>8. first = FirstPlace(sp, ToSet(r2)) /\ heir = IF first = 0 THEN Head(r2) ELSE sp[first]
    BY <2>7
  <2> HIDE DEF first, heir
  <2>9. CASE s.host # u
    <3>1. gone = left
      BY <2>6, <2>9
    <3> HIDE DEF gone
    <3>2. StageFits(gone, r2)
      BY <1>1, <2>2, <2>3, <2>4, <2>5, <2>7, <2>9, <3>1 DEF StageFits
    <3>3. StageSuits(gone, r2) /\ gone # None
      BY <2>3, <2>7, <3>1, <3>2, StageParts DEF StageSuits
    <3> QED
      BY <1>3, <3>3 DEF gone, r2
  <2>10. CASE s.host = u
    <3>1. \/ first = 0 /\ ToSet(sp) \cap ToSet(r2) = {}
          \/ first \in 1..Len(sp) /\ sp[first] \in ToSet(r2) \cap ToSet(sp)
      BY <2>3, <2>8, FirstPlaceFinds
    <3>2. ToSet(sp) \subseteq ToSet(r2)
      BY <1>1, <2>2, <2>3
    <3>3. heir \in ToSet(r2) /\ heir \in Users
      BY <1>1, <1>3, <2>8, <3>1, Heads
    <3> DEFINE sp2 == IF heir \in ToSet(sp) THEN sp ELSE Append(sp, heir)
    <3>4. /\ sp2 \in Seq(Users) /\ ToSet(sp2) = ToSet(sp) \cup {heir}
          /\ IsInjective(sp2) /\ Len(sp2) <= MaxStageSpeakers
      <4>1. CASE heir \in ToSet(sp)
        BY <2>3, <2>5, <4>1
      <4>2. CASE heir \notin ToSet(sp)
        <5>1. ToSet(sp) = {}
          BY <2>8, <3>1, <3>2, <4>2
        <5>2. Len(sp) = 0
          BY <2>3, <5>1, Heads
        <5>3. /\ Append(sp, heir) \in Seq(Users)
              /\ ToSet(Append(sp, heir)) = ToSet(sp) \cup {heir}
              /\ Len(Append(sp, heir)) = Len(sp) + 1
              /\ IsInjective(Append(sp, heir))
          BY <2>3, <3>3, <4>2, AppendKeeps
        <5> QED
          BY <4>2, <5>2, <5>3, FacilitationAssumption
      <4> QED
        BY <4>1, <4>2
    <3>5. gone = [left EXCEPT !.host = heir, !.speakers = sp2]
      BY <2>6, <2>7, <2>10
    <3> HIDE DEF gone, sp2
    <3>6. /\ [left EXCEPT !.host = heir, !.speakers = sp2] \in Stage
          /\ [left EXCEPT !.host = heir, !.speakers = sp2].host = heir
          /\ [left EXCEPT !.host = heir, !.speakers = sp2].speakers = sp2
          /\ [left EXCEPT !.host = heir, !.speakers = sp2].queue = left.queue
      BY <2>7, <3>3, <3>4 DEF Stage
    <3>7. gone \in Stage /\ gone.host = heir /\ gone.speakers = sp2 /\ gone.queue = q
      BY <2>7, <3>5, <3>6
    <3>8. ToSet(sp2) \cap ToSet(q) \subseteq {heir}
      BY <2>2, <2>3, <2>4, <2>10, <3>4
    <3>9. ToSet(q) \subseteq ToSet(r2)
      BY <1>1, <2>2, <2>4
    <3>10. StageFits(gone, r2)
      BY <2>4, <3>2, <3>3, <3>4, <3>7, <3>8, <3>9 DEF StageFits
    <3>11. StageSuits(gone, r2) /\ gone # None
      BY <3>4, <3>7, <3>10, StageParts DEF StageSuits
    <3> QED
      BY <1>3, <3>11 DEF gone, r2
  <2> QED
    BY <2>9, <2>10
<1> QED
  BY <1>2, <1>3

(* A room that nobody leaves. *)
LEMMA StageStaysFit ==
  ASSUME NEW s, NEW r, NEW r2, StageSuits(s, r), ToSet(r) \subseteq ToSet(r2)
  PROVE  StageSuits(s, r2)
  BY DEF StageSuits, StageFits

(* A stage with its host as the only speaker. *)
LEMMA StageOpens ==
  ASSUME NEW r, NEW u \in Users, u \in ToSet(r)
  PROVE  /\ StageSuits([host |-> u, speakers |-> <<u>>, queue |-> <<>>], r)
         /\ [host |-> u, speakers |-> <<u>>, queue |-> <<>>] # None
<1> DEFINE s == [host |-> u, speakers |-> <<u>>, queue |-> <<>>]
<1>1. /\ <<u>> \in Seq(Users) /\ ToSet(<<u>>) = {u} /\ IsInjective(<<u>>) /\ Len(<<u>>) = 1
      /\ <<>> \in Seq(Users) /\ ToSet(<<>>) = {} /\ IsInjective(<<>>)
  BY Singles
<1>2. s \in Stage /\ s.host = u /\ s.speakers = <<u>> /\ s.queue = <<>>
  BY <1>1 DEF Stage
<1> HIDE DEF s
<1>3. StageFits(s, r)
  BY <1>1, <1>2, FacilitationAssumption DEF StageFits
<1>4. StageSuits(s, r) /\ s # None
  BY <1>1, <1>2, <1>3, StageParts DEF StageSuits
<1> QED
  BY <1>4 DEF s

(* A promotion keeps the stage in its room and the speakers within their limit. *)
LEMMA PromotedFits ==
  ASSUME NEW s \in Stage, NEW c \in Channels, NEW v \in Users, room[c] \in Seq(Users),
         StageSuits(s, room[c]), MayBePromoted(s, c, v)
  PROVE  StageSuits(Promoted(s, v), room[c]) /\ Promoted(s, v) # None
<1> DEFINE r == room[c]
           sp == Append(s.speakers, v)
           q == Dropping(s.queue, {v})
           t == [s EXCEPT !.speakers = sp, !.queue = q]
<1>1. Promoted(s, v) = t
  BY DEF Promoted
<1>2. /\ s.speakers \in Seq(Users) /\ s.queue \in Seq(Users) /\ Len(s.speakers) \in Nat
      /\ IsInjective(s.speakers) /\ IsInjective(s.queue)
      /\ s.host \in ToSet(r)
      /\ ToSet(s.speakers) \subseteq ToSet(r)
      /\ ToSet(s.queue) \subseteq ToSet(r)
      /\ ToSet(s.speakers) \cap ToSet(s.queue) \subseteq {s.host}
  BY StageParts DEF StageSuits, StageFits
<1>3. /\ v \in ToSet(r) /\ v \notin ToSet(s.speakers)
      /\ Cardinality(ToSet(s.speakers) \cap ToSet(r)) < MaxStageSpeakers
  BY DEF MayBePromoted, Present
<1>4. Cardinality(ToSet(s.speakers)) = Len(s.speakers)
  BY <1>2, InjectiveLength
<1>5. ToSet(s.speakers) \cap ToSet(r) = ToSet(s.speakers)
  BY <1>2
<1>6. Len(s.speakers) < MaxStageSpeakers
  BY <1>3, <1>4, <1>5
<1>7. /\ sp \in Seq(Users) /\ ToSet(sp) = ToSet(s.speakers) \cup {v}
      /\ Len(sp) = Len(s.speakers) + 1 /\ IsInjective(sp)
  BY <1>2, <1>3, AppendKeeps
<1>8. q \in Seq(Users) /\ ToSet(q) = ToSet(s.queue) \ {v} /\ IsInjective(q)
  BY <1>2, DroppingKeeps
<1>9. Len(sp) <= MaxStageSpeakers
  BY <1>2, <1>6, <1>7, FacilitationAssumption
<1> HIDE DEF sp, q
<1>10. t \in Stage
  BY <1>7, <1>8 DEF Stage
<1>11. t.host = s.host
  BY <1>7, <1>8 DEF Stage
<1>12. t.speakers = sp
  BY <1>7, <1>8 DEF Stage
<1>13. t.queue = q
  BY <1>7, <1>8 DEF Stage
<1> HIDE DEF t, r
<1>14. ToSet(sp) \subseteq ToSet(r) /\ ToSet(q) \subseteq ToSet(r)
  BY <1>2, <1>3, <1>7, <1>8
<1>15. ToSet(sp) \cap ToSet(q) \subseteq {s.host}
  BY <1>2, <1>7, <1>8
<1>16. StageFits(t, r)
  BY <1>2, <1>8, <1>9, <1>11, <1>12, <1>13, <1>14, <1>15 DEF StageFits
<1>17. StageSuits(t, r) /\ t # None
  BY <1>7, <1>10, <1>12, <1>16, StageParts DEF StageSuits
<1> QED
  BY <1>1, <1>17 DEF r

(* A demotion keeps the stage in its room. *)
LEMMA DemotedFits ==
  ASSUME NEW s \in Stage, NEW r, NEW v, StageSuits(s, r)
  PROVE  StageSuits(Demoted(s, v), r) /\ Demoted(s, v) # None
<1> DEFINE sp == Dropping(s.speakers, {v})
           q == Dropping(s.queue, {v})
           t == [s EXCEPT !.speakers = sp, !.queue = q]
<1>1. Demoted(s, v) = t
  BY DEF Demoted
<1>2. /\ s.speakers \in Seq(Users) /\ s.queue \in Seq(Users) /\ Len(s.speakers) \in Nat
      /\ IsInjective(s.speakers) /\ IsInjective(s.queue)
      /\ s.host \in ToSet(r)
      /\ ToSet(s.speakers) \subseteq ToSet(r)
      /\ ToSet(s.queue) \subseteq ToSet(r)
      /\ Len(s.speakers) <= MaxStageSpeakers
      /\ ToSet(s.speakers) \cap ToSet(s.queue) \subseteq {s.host}
  BY StageParts DEF StageSuits, StageFits
<1>3. /\ sp \in Seq(Users) /\ ToSet(sp) = ToSet(s.speakers) \ {v}
      /\ Len(sp) <= Len(s.speakers) /\ IsInjective(sp)
  BY <1>2, DroppingKeeps
<1>4. q \in Seq(Users) /\ ToSet(q) = ToSet(s.queue) \ {v} /\ IsInjective(q)
  BY <1>2, DroppingKeeps
<1>5. Len(sp) <= MaxStageSpeakers
  BY <1>2, <1>3, FacilitationAssumption, Heads
<1> HIDE DEF sp, q
<1>6. t \in Stage
  BY <1>3, <1>4 DEF Stage
<1>7. t.host = s.host
  BY <1>3, <1>4 DEF Stage
<1>8. t.speakers = sp
  BY <1>3, <1>4 DEF Stage
<1>9. t.queue = q
  BY <1>3, <1>4 DEF Stage
<1> HIDE DEF t
<1>10. StageFits(t, r)
  BY <1>2, <1>3, <1>4, <1>5, <1>7, <1>8, <1>9 DEF StageFits
<1>11. StageSuits(t, r) /\ t # None
  BY <1>3, <1>6, <1>8, <1>10, StageParts DEF StageSuits
<1> QED
  BY <1>1, <1>11

(* A stage with another queue. *)
LEMMA RequeuedFits ==
  ASSUME NEW s \in Stage, NEW r, StageSuits(s, r), NEW q \in Seq(Users),
         ToSet(q) \subseteq ToSet(r), IsInjective(q),
         ToSet(s.speakers) \cap ToSet(q) \subseteq {s.host}
  PROVE  /\ StageSuits([s EXCEPT !.queue = q], r)
         /\ [s EXCEPT !.queue = q] # None
<1> DEFINE t == [s EXCEPT !.queue = q]
<1>1. t \in Stage /\ t.host = s.host /\ t.speakers = s.speakers /\ t.queue = q
  BY DEF Stage
<1> HIDE DEF t
<1>2. s # None /\ t # None
  BY <1>1, StageParts
<1>3. StageFits(t, r) /\ IsInjective(t.speakers)
  BY <1>1, <1>2 DEF StageFits, StageSuits
<1>4. StageSuits(t, r) /\ t # None
  BY <1>1, <1>2, <1>3 DEF StageSuits
<1> QED
  BY <1>4 DEF t

(* What a reconciliation leaves: a stage that suits the room, and is there exactly
   if the mode read says so, unless the room is empty. *)
LEMMA ReconciledFits ==
  ASSUME NEW s, NEW r \in Seq(Users), NEW u \in Users, NEW mode \in BOOLEAN, StageSuits(s, r)
  PROVE  /\ StageSuits(StageReconciled(s, r, u, mode), r)
         /\ r # <<>> => (StageReconciled(s, r, u, mode) # None <=> mode)
<1>1. StageSuits(None, r)
  BY DEF StageSuits, StageFits
<1>2. CASE ~mode
  BY <1>1, <1>2 DEF StageReconciled
<1>3. CASE mode /\ s = None /\ r # <<>>
  <2> DEFINE host == IF u \in ToSet(r) THEN u ELSE Head(r)
  <2>1. host \in Users /\ host \in ToSet(r)
    BY <1>3, Heads
  <2>2. StageReconciled(s, r, u, mode) = [host |-> host, speakers |-> <<host>>, queue |-> <<>>]
    BY <1>3 DEF StageReconciled
  <2> HIDE DEF host
  <2> QED
    BY <1>3, <2>1, <2>2, StageOpens
<1>4. CASE mode /\ ~(s = None /\ r # <<>>)
  BY <1>4 DEF StageReconciled
<1> QED
  BY <1>2, <1>3, <1>4

-----------------------------------------------------------------------------
(* The rooms: every channel's seats, lantern and stage suit each other. *)

ChannelOK(r, l, s) ==
  /\ r \in Seq(Users) /\ IsInjective(r)
  /\ l \in Lantern \cup {None} /\ LanternFits(l, r)
  /\ StageSuits(s, r)

RoomInv ==
  /\ room \in [Channels -> Seq(Users)]
  /\ lantern \in [Channels -> Lantern \cup {None}]
  /\ stage \in [Channels -> Stage \cup {None}]
  /\ \A c \in Channels : ChannelOK(room[c], lantern[c], stage[c])

(* The waiting handlers: what they wait to do can be done, and those that hold the
   record of a lantern or stage which is still attached hold one that exists. *)
TargetsFit ==
  \A t \in tasks : /\ t.kind \in {"pass", "promote", "demote"} => t.target \in Users
                   /\ t.kind = "close" => t.target \in OffshootIds

AttachedIsLive ==
  \A t \in tasks : t.attached =>
    /\ t.kind \in {"pass", "stop"} => lantern[t.channel] # None
    /\ t.kind \in {"promote", "demote"} => stage[t.channel] # None

TaskInv == tasks \subseteq Task /\ TargetsFit /\ AttachedIsLive

(* A user who leaves a room takes their part in its lantern and stage along. *)
LEMMA VacatedOK ==
  ASSUME NEW r, NEW l, NEW s, NEW u \in Users, ChannelOK(r, l, s)
  PROVE  ChannelOK(RoomWithout(r, u), LanternWithout(l, RoomWithout(r, u), u),
                   StageWithout(s, RoomWithout(r, u), u))
<1>1. r \in Seq(Users) /\ IsInjective(r) /\ l \in Lantern \cup {None} /\ LanternFits(l, r)
      /\ StageSuits(s, r)
  BY DEF ChannelOK
<1>2. RoomWithout(r, u) \in Seq(Users) /\ IsInjective(RoomWithout(r, u))
  BY <1>1, DroppingKeeps DEF RoomWithout
<1>3. /\ LanternWithout(l, RoomWithout(r, u), u) \in Lantern \cup {None}
      /\ LanternFits(LanternWithout(l, RoomWithout(r, u), u), RoomWithout(r, u))
  BY <1>1, LanternWithoutFits
<1>4. StageSuits(StageWithout(s, RoomWithout(r, u), u), RoomWithout(r, u))
  BY <1>1, StageWithoutFits
<1> QED
  BY <1>2, <1>3, <1>4 DEF ChannelOK

(* An arrival changes neither lantern nor stage, and adds the user to the room. *)
LEMMA ArrivedOK ==
  ASSUME NEW r, NEW l, NEW s, NEW u \in Users, ChannelOK(r, l, s)
  PROVE  /\ ChannelOK(RoomWith(r, u), l, s)
         /\ ToSet(RoomWith(r, u)) = ToSet(r) \cup {u}
<1>1. r \in Seq(Users) /\ IsInjective(r) /\ l \in Lantern \cup {None} /\ LanternFits(l, r)
      /\ StageSuits(s, r)
  BY DEF ChannelOK
<1>2. /\ RoomWith(r, u) \in Seq(Users) /\ IsInjective(RoomWith(r, u))
      /\ ToSet(RoomWith(r, u)) = ToSet(r) \cup {u}
  BY <1>1, AppendKeeps DEF RoomWith
<1>3. LanternFits(l, RoomWith(r, u))
  BY <1>1, <1>2 DEF LanternFits
<1>4. StageSuits(s, RoomWith(r, u))
  BY <1>1, <1>2, StageStaysFit
<1> QED
  BY <1>1, <1>2, <1>3, <1>4 DEF ChannelOK

(* The next state is right if every channel is. *)
LEMMA EveryChannel ==
  ASSUME room' = [c \in Channels |-> room'[c]],
         lantern' = [c \in Channels |-> lantern'[c]],
         stage' = [c \in Channels |-> stage'[c]],
         \A c \in Channels : ChannelOK(room'[c], lantern'[c], stage'[c])
  PROVE  RoomInv'
<1>1. \A c \in Channels : /\ room'[c] \in Seq(Users)
                          /\ lantern'[c] \in Lantern \cup {None}
                          /\ stage'[c] \in Stage \cup {None}
  BY DEF ChannelOK, StageSuits
<1> QED
  BY <1>1 DEF RoomInv

(* A step that touches one channel. *)
LEMMA OneChannel ==
  ASSUME RoomInv, NEW c \in Channels, NEW r, NEW l, NEW s, ChannelOK(r, l, s),
         room' = [room EXCEPT ![c] = r],
         lantern' = [lantern EXCEPT ![c] = l],
         stage' = [stage EXCEPT ![c] = s]
  PROVE  RoomInv'
<1>1. \A d \in Channels : /\ room'[d] = IF d = c THEN r ELSE room[d]
                          /\ lantern'[d] = IF d = c THEN l ELSE lantern[d]
                          /\ stage'[d] = IF d = c THEN s ELSE stage[d]
  BY DEF RoomInv
<1>2. \A d \in Channels : ChannelOK(room'[d], lantern'[d], stage'[d])
  BY <1>1 DEF RoomInv
<1>3. /\ room' = [d \in Channels |-> room'[d]]
      /\ lantern' = [d \in Channels |-> lantern'[d]]
      /\ stage' = [d \in Channels |-> stage'[d]]
  BY DEF RoomInv
<1> QED
  BY <1>2, <1>3, EveryChannel

(* A step that writes a fitting lantern into one room keeps all rooms fitting. *)
LEMMA OneLantern ==
  ASSUME RoomInv, NEW c \in Channels, NEW l \in Lantern \cup {None}, LanternFits(l, room[c]),
         UNCHANGED <<room, stage>>, lantern' = [lantern EXCEPT ![c] = l]
  PROVE  RoomInv'
<1>1. room = [room EXCEPT ![c] = room[c]] /\ stage = [stage EXCEPT ![c] = stage[c]]
  BY DEF RoomInv
<1>2. ChannelOK(room[c], l, stage[c])
  BY DEF RoomInv, ChannelOK
<1> QED
  BY <1>1, <1>2, OneChannel

(* A step that writes a fitting stage into one room keeps all rooms fitting. *)
LEMMA OneStage ==
  ASSUME RoomInv, NEW c \in Channels, NEW s, StageSuits(s, room[c]),
         UNCHANGED <<room, lantern>>, stage' = [stage EXCEPT ![c] = s]
  PROVE  RoomInv'
<1>1. room = [room EXCEPT ![c] = room[c]] /\ lantern = [lantern EXCEPT ![c] = lantern[c]]
  BY DEF RoomInv
<1>2. ChannelOK(room[c], lantern[c], s)
  BY DEF RoomInv, ChannelOK
<1> QED
  BY <1>1, <1>2, OneChannel

-----------------------------------------------------------------------------
(* The steps, by what they do to the rooms. *)

LanternMoves ==
  \/ \E u \in Users, c \in Channels :
       \/ LanternStart(u, c)
       \/ LanternRequest(u, c)
       \/ \E v \in Users : LanternPass(u, v, c)
       \/ LanternRelease(u, c)
       \/ LanternStop(u, c)
  \/ \E t \in tasks : LanternPassDone(t) \/ LanternStopDone(t)

StageMoves ==
  \/ \E u \in Users, c \in Channels :
       \/ StageRequest(u, c)
       \/ StageWithdraw(u, c)
       \/ \E v \in Users : StagePromote(u, v, c)
       \/ \E v \in Users : StageDemote(u, v, c)
  \/ \E t \in tasks : StagePromoteDone(t) \/ StageDemoteDone(t) \/ ReconcileDone(t)

Vacates == \E u \in Users, c \in Channels : Leave(u, c) \/ Evict(u, c)
Moves == \E u \in Users, from, to \in Channels : Move(u, from, to)
Joins == \E t \in tasks, from \in Channels \cup {None} : JoinComplete(t, from)

(* A handler begins to wait. *)
Waits ==
  \E u \in Users, c \in Channels :
    \/ JoinRead(u, c)
    \/ \E v \in Users : LanternPassRead(u, v, c)
    \/ LanternStopRead(u, c)
    \/ \E v \in Users : StagePromoteRead(u, v, c)
    \/ \E v \in Users : StageDemoteRead(u, v, c)
    \/ ReconcileRead(u, c)
    \/ \E o \in OffshootIds : OffshootCloseRead(u, c, o)

FireMoves ==
  \/ \E u \in Users, c \in Channels :
       \/ \E o \in OffshootIds : OffshootCreate(u, c, o)
       \/ \E o \in OffshootIds : OffshootJoin(u, c, o)
       \/ OffshootLeave(u, c)
       \/ \E o \in OffshootIds : OffshootClose(u, c, o)
  \/ \E t \in tasks : OffshootCloseDone(t)

Others == (\E t \in tasks : Refused(t)) \/ (\E c \in Channels : ChangeMode(c))

(* Every step is of one of the kinds the proof goes by. *)
LEMMA StepKinds ==
  ASSUME [Next]_vars
  PROVE  \/ LanternMoves \/ StageMoves \/ Vacates \/ Moves \/ Joins
         \/ Waits \/ FireMoves \/ Others
         \/ UNCHANGED vars
<1>1. ASSUME NEW u \in Users, NEW c \in Channels, UserStep(u, c)
      PROVE  LanternMoves \/ StageMoves \/ Vacates \/ Moves \/ Waits \/ FireMoves
  <2>1. CASE Leave(u, c) \/ Evict(u, c)
    BY <2>1 DEF Vacates
  <2>2. CASE \E to \in Channels : Move(u, c, to)
    BY <2>2 DEF Moves
  <2>3. CASE \/ LanternStart(u, c) \/ LanternRequest(u, c)
             \/ (\E v \in Users : LanternPass(u, v, c))
             \/ LanternRelease(u, c) \/ LanternStop(u, c)
    BY <2>3 DEF LanternMoves
  <2>4. CASE \/ StageRequest(u, c) \/ StageWithdraw(u, c)
             \/ (\E v \in Users : StagePromote(u, v, c))
             \/ (\E v \in Users : StageDemote(u, v, c))
    BY <2>4 DEF StageMoves
  <2>5. CASE \/ JoinRead(u, c) \/ (\E v \in Users : LanternPassRead(u, v, c))
             \/ LanternStopRead(u, c) \/ (\E v \in Users : StagePromoteRead(u, v, c))
             \/ (\E v \in Users : StageDemoteRead(u, v, c)) \/ ReconcileRead(u, c)
             \/ (\E o \in OffshootIds : OffshootCloseRead(u, c, o))
    BY <2>5 DEF Waits
  <2>6. CASE \/ (\E o \in OffshootIds : OffshootCreate(u, c, o))
             \/ (\E o \in OffshootIds : OffshootJoin(u, c, o))
             \/ OffshootLeave(u, c) \/ (\E o \in OffshootIds : OffshootClose(u, c, o))
    BY <2>6 DEF FireMoves
  <2> QED
    BY <1>1, <2>1, <2>2, <2>3, <2>4, <2>5, <2>6 DEF UserStep
<1>2. ASSUME NEW t \in tasks, TaskStep(t)
      PROVE  LanternMoves \/ StageMoves \/ Joins \/ FireMoves \/ Others
  <2>1. CASE \E from \in Channels \cup {None} : JoinComplete(t, from)
    BY <2>1 DEF Joins
  <2>2. CASE Refused(t)
    BY <2>2 DEF Others
  <2>3. CASE LanternPassDone(t) \/ LanternStopDone(t)
    BY <2>3 DEF LanternMoves
  <2>4. CASE StagePromoteDone(t) \/ StageDemoteDone(t) \/ ReconcileDone(t)
    BY <2>4 DEF StageMoves
  <2>5. CASE OffshootCloseDone(t)
    BY <2>5 DEF FireMoves
  <2> QED
    BY <1>2, <2>1, <2>2, <2>3, <2>4, <2>5 DEF TaskStep
<1> QED
  BY <1>1, <1>2 DEF Next, Others

(* A handler that starts to wait has changed no room. *)
LEMMA WaitsKeepsRooms ==
  ASSUME Waits
  PROVE  UNCHANGED <<rooms, roomMode, drifted, bounds>>
<1> USE DEF WaitFor
<1>1. PICK u \in Users, c \in Channels :
        \/ JoinRead(u, c)
        \/ \E v \in Users : LanternPassRead(u, v, c)
        \/ LanternStopRead(u, c)
        \/ \E v \in Users : StagePromoteRead(u, v, c)
        \/ \E v \in Users : StageDemoteRead(u, v, c)
        \/ ReconcileRead(u, c)
        \/ \E o \in OffshootIds : OffshootCloseRead(u, c, o)
  BY DEF Waits
<1> QED
  BY <1>1 DEF JoinRead, LanternPassRead, LanternStopRead, StagePromoteRead, StageDemoteRead,
              ReconcileRead, OffshootCloseRead

(* The handlers of side fires change no room, lantern or stage. *)
LEMMA FireMovesKeepsRooms ==
  ASSUME FireMoves
  PROVE  UNCHANGED <<room, lantern, stage, roomMode, unannounced, drifted, bounds>>
<1>1. ASSUME NEW u \in Users, NEW c \in Channels,
             \/ \E o \in OffshootIds : OffshootCreate(u, c, o)
             \/ \E o \in OffshootIds : OffshootJoin(u, c, o)
             \/ OffshootLeave(u, c)
             \/ \E o \in OffshootIds : OffshootClose(u, c, o)
      PROVE  OffshootStep
  BY <1>1 DEF OffshootCreate, OffshootJoin, OffshootLeave, OffshootClose
<1>2. ASSUME NEW t \in tasks, OffshootCloseDone(t)
      PROVE  OffshootStep
  BY <1>2 DEF OffshootCloseDone
<1>3. OffshootStep
  BY <1>1, <1>2 DEF FireMoves
<1> QED
  BY <1>3 DEF OffshootStep

(* The steps that leave rooms, lanterns and stages as they are. *)
LEMMA QuietSteps ==
  ASSUME Waits \/ FireMoves \/ Others \/ UNCHANGED vars
  PROVE  UNCHANGED <<room, lantern, stage>>
<1>1. CASE Waits
  BY <1>1, WaitsKeepsRooms DEF rooms
<1>2. CASE FireMoves
  BY <1>2, FireMovesKeepsRooms
<1>3. CASE Others
  BY <1>3 DEF Others, Refused, ChangeMode, rooms
<1>4. CASE UNCHANGED vars
  BY <1>4 DEF vars, rooms
<1> QED
  BY <1>1, <1>2, <1>3, <1>4

-----------------------------------------------------------------------------
(* A late pass: the target has left while the moderator's permission was read. *)
LatePass(c) ==
  \E t \in tasks : /\ t.kind = "pass" /\ t.channel = c /\ t.attached
                   /\ tasks' = tasks \ {t}
                   /\ lantern'[c].holder = t.target

(* A step on a lantern leaves one that suits the room; its holder is in the room,
   or was the holder before, or comes from a late pass. *)
LanternChanges(c, l) ==
  /\ UNCHANGED <<room, stage>>
  /\ lantern' = [lantern EXCEPT ![c] = l]
  /\ l \in Lantern \cup {None} /\ LanternFits(l, room[c])
  /\ l # None => \/ l.holder \in Present(c) \cup {None}
                 \/ lantern[c] # None /\ l.holder = lantern[c].holder
                 \/ LatePass(c)
  /\ lantern[c] # None => l # None \/ \E t : tasks' = Detached(tasks \ t)

(* The parts of a lantern's record. *)
LEMMA LanternParts ==
  ASSUME RoomInv, NEW c \in Channels, lantern[c] # None
  PROVE  /\ lantern[c] \in Lantern
         /\ LanternFits(lantern[c], room[c])
         /\ lantern[c].queue \in Seq(Users) /\ lantern[c].host \in Users
         /\ lantern[c].holder \in Users \cup {None}
         /\ room[c] \in Seq(Users)
  BY DEF RoomInv, ChannelOK, Lantern

(* A handler of the lantern writes one record, which fits its room. *)
LEMMA LanternStepFits ==
  ASSUME RoomInv, TaskInv, LanternMoves
  PROVE  \E c \in Channels : \E l \in Lantern \cup {None} : LanternChanges(c, l)
<1> USE DEF LanternStep
<1>1. ASSUME NEW u \in Users, NEW c \in Channels, LanternStart(u, c)
      PROVE  \E l \in Lantern \cup {None} : LanternChanges(c, l)
  <2> DEFINE l == [host |-> u, holder |-> u, queue |-> <<>>]
  <2>1. /\ <<>> \in Seq(Users) /\ ToSet(<<>>) = {} /\ IsInjective(<<>>)
        /\ u \in ToSet(room[c]) /\ u # None
    BY <1>1, Singles, FacilitationAssumption DEF LanternStart, Present
  <2>2. l \in Lantern /\ l.host = u /\ l.holder = u /\ l.queue = <<>>
    BY <2>1 DEF Lantern
  <2> HIDE DEF l
  <2>3. LanternFits(l, room[c])
    BY <2>1, <2>2 DEF LanternFits
  <2>4. UNCHANGED <<room, stage>> /\ lantern' = [lantern EXCEPT ![c] = l] /\ lantern[c] = None
    BY <1>1 DEF LanternStart, l
  <2> QED
    BY <2>1, <2>2, <2>3, <2>4 DEF LanternChanges, Present
<1>2. ASSUME NEW u \in Users, NEW c \in Channels, LanternRequest(u, c)
      PROVE  \E l \in Lantern \cup {None} : LanternChanges(c, l)
  <2> DEFINE m == lantern[c]
             l == LanternAsked(m, u)
  <2>1. /\ m # None /\ m \in Lantern /\ LanternFits(m, room[c]) /\ m.queue \in Seq(Users)
        /\ u \in ToSet(room[c]) /\ u # None /\ m.holder # u /\ u \notin ToSet(m.queue)
        /\ UNCHANGED <<room, stage>>
    BY <1>2, LanternParts, FacilitationAssumption DEF LanternRequest, Present
  <2>4. lantern' = [lantern EXCEPT ![c] = l]
    BY <1>2 DEF LanternRequest
  <2>2. CASE m.holder = None
    <3>1. [m EXCEPT !.holder = u] \in Lantern
      BY <2>1 DEF Lantern
    <3>2. /\ [m EXCEPT !.holder = u].host = m.host
          /\ [m EXCEPT !.holder = u].holder = u
          /\ [m EXCEPT !.holder = u].queue = m.queue
      BY <2>1 DEF Lantern
    <3>3. l = [m EXCEPT !.holder = u]
      BY <2>2 DEF LanternAsked
    <3>4. l \in Lantern /\ l.host = m.host /\ l.holder = u /\ l.queue = m.queue
      BY <3>1, <3>2, <3>3
    <3> HIDE DEF l, m
    <3>5. l # None /\ LanternFits(l, room[c])
      BY <2>1, <3>4, FacilitationAssumption DEF LanternFits
    <3> QED
      BY <2>1, <2>4, <3>4, <3>5 DEF LanternChanges, Present
  <2>3. CASE m.holder # None
    <3> DEFINE q == Append(m.queue, u)
    <3>1. q \in Seq(Users) /\ ToSet(q) = ToSet(m.queue) \cup {u} /\ IsInjective(q)
      BY <2>1, AppendKeeps DEF LanternFits
    <3> HIDE DEF q
    <3>2. [m EXCEPT !.queue = q] \in Lantern
      BY <2>1, <3>1 DEF Lantern
    <3>3. /\ [m EXCEPT !.queue = q].host = m.host
          /\ [m EXCEPT !.queue = q].holder = m.holder
          /\ [m EXCEPT !.queue = q].queue = q
      BY <2>1 DEF Lantern
    <3>4. l = [m EXCEPT !.queue = q]
      BY <2>3 DEF q, LanternAsked
    <3>5. l \in Lantern /\ l.host = m.host /\ l.holder = m.holder /\ l.queue = q
      BY <3>2, <3>3, <3>4
    <3> HIDE DEF l
    <3>6. l # None
      BY <3>5, FacilitationAssumption
    <3>7. LanternFits(l, room[c])
      BY <2>1, <2>3, <3>1, <3>5 DEF LanternFits
    <3> QED
      BY <2>1, <2>4, <3>5, <3>6, <3>7 DEF LanternChanges
  <2> QED
    BY <2>2, <2>3
<1>3. ASSUME NEW u \in Users, NEW v \in Users, NEW c \in Channels, LanternPass(u, v, c)
      PROVE  \E l \in Lantern \cup {None} : LanternChanges(c, l)
  <2> DEFINE l == LanternPassed(lantern[c], room[c], v)
  <2>1. /\ lantern[c] # None /\ lantern[c] \in Lantern /\ LanternFits(lantern[c], room[c])
        /\ room[c] \in Seq(Users) /\ v \in Present(c)
        /\ UNCHANGED <<room, stage>> /\ lantern' = [lantern EXCEPT ![c] = l]
    BY <1>3, LanternParts DEF LanternPass
  <2>2. l \in Lantern /\ l.holder = v /\ LanternFits(l, room[c])
    BY <2>1, PassedFits
  <2> HIDE DEF l
  <2> QED
    <3>1. l # None
      BY <2>2, FacilitationAssumption
    <3>2. LanternChanges(c, l)
      BY <2>1, <2>2, <3>1 DEF LanternChanges
    <3> QED
      BY <2>2, <3>2
<1>4. ASSUME NEW u \in Users, NEW c \in Channels, LanternRelease(u, c)
      PROVE  \E l \in Lantern \cup {None} : LanternChanges(c, l)
  <2> DEFINE l == LanternAdvanced(lantern[c], room[c])
  <2>1. /\ lantern[c] # None /\ lantern[c] \in Lantern /\ LanternFits(lantern[c], room[c])
        /\ room[c] \in Seq(Users)
        /\ UNCHANGED <<room, stage>> /\ lantern' = [lantern EXCEPT ![c] = l]
    BY <1>4, LanternParts DEF LanternRelease
  <2>2. /\ ToSet(lantern[c].queue) \subseteq ToSet(room[c]) /\ IsInjective(lantern[c].queue)
        /\ lantern[c].host \in ToSet(room[c])
    BY <2>1 DEF LanternFits
  <2>3. /\ l \in Lantern /\ l.host = lantern[c].host
        /\ ToSet(l.queue) \subseteq ToSet(room[c]) /\ IsInjective(l.queue)
        /\ l.holder \notin ToSet(l.queue)
        /\ l.holder = None => l.queue = <<>>
        /\ l.holder # None => l.holder \in ToSet(room[c])
    BY <2>1, <2>2, AdvancedFits
  <2> HIDE DEF l
  <2>4. LanternFits(l, room[c])
    BY <2>2, <2>3 DEF LanternFits
  <2> QED
    <3>1. l # None
      BY <2>3, FacilitationAssumption
    <3>2. LanternChanges(c, l)
      BY <2>1, <2>3, <2>4, <3>1 DEF LanternChanges, Present
    <3> QED
      BY <2>3, <3>2
<1>5. ASSUME NEW c \in Channels, lantern' = [lantern EXCEPT ![c] = None],
             UNCHANGED <<room, stage>>, \E t : tasks' = Detached(tasks \ t)
      PROVE  \E l \in Lantern \cup {None} : LanternChanges(c, l)
  BY <1>5 DEF LanternChanges, LanternFits
<1>6. ASSUME NEW u \in Users, NEW c \in Channels, LanternStop(u, c)
      PROVE  \E l \in Lantern \cup {None} : LanternChanges(c, l)
  <2>1. tasks' = Detached(tasks \ {})
    <3>1. tasks \ {} = tasks
      OBVIOUS
    <3> QED
      BY <1>6, <3>1 DEF LanternStop
  <2> QED
    BY <1>5, <1>6, <2>1 DEF LanternStop
<1>7. ASSUME NEW t \in tasks, LanternStopDone(t)
      PROVE  \E c \in Channels : \E l \in Lantern \cup {None} : LanternChanges(c, l)
  <2>1. t.channel \in Channels
    BY DEF TaskInv, Task
  <2> QED
    BY <1>5, <1>7, <2>1 DEF LanternStopDone
<1>8. ASSUME NEW t \in tasks, LanternPassDone(t)
      PROVE  \E c \in Channels : \E l \in Lantern \cup {None} : LanternChanges(c, l)
  <2> DEFINE c == t.channel
             l == LanternPassed(lantern[c], room[c], t.target)
  <2>1. c \in Channels /\ t.target \in Users /\ t.kind = "pass"
    BY <1>8 DEF TaskInv, Task, TargetsFit, LanternPassDone
  <2>2. CASE t.attached
    <3>1. lantern[c] # None
      BY <2>1, <2>2 DEF TaskInv, AttachedIsLive
    <3>2. /\ lantern[c] \in Lantern /\ LanternFits(lantern[c], room[c])
          /\ room[c] \in Seq(Users)
      BY <2>1, <3>1, LanternParts
    <3>3. /\ UNCHANGED <<room, stage>> /\ lantern' = [lantern EXCEPT ![c] = l]
          /\ tasks' = tasks \ {t}
      BY <1>8, <2>2 DEF LanternPassDone, Resume
    <3>4. l \in Lantern /\ l.holder = t.target /\ LanternFits(l, room[c])
      BY <2>1, <3>2, PassedFits
    <3> HIDE DEF l
    <3>5. lantern'[c] = l
      BY <2>1, <3>3 DEF RoomInv
    <3>6. LatePass(c)
      BY <2>1, <2>2, <3>3, <3>4, <3>5 DEF LatePass
    <3>7. LanternChanges(c, l)
      BY <3>3, <3>4, <3>6, FacilitationAssumption DEF LanternChanges
    <3> HIDE DEF c
    <3> QED
      BY <2>1, <3>4, <3>7 DEF c
  <2>3. CASE ~t.attached
    <3>1. lantern' = [lantern EXCEPT ![c] = lantern[c]] /\ UNCHANGED <<room, stage>>
      BY <1>8, <2>3 DEF LanternPassDone, RoomInv
    <3>2. lantern[c] \in Lantern \cup {None} /\ LanternFits(lantern[c], room[c])
      BY <2>1 DEF RoomInv, ChannelOK
    <3>3. LanternChanges(c, lantern[c])
      BY <3>1, <3>2 DEF LanternChanges
    <3> QED
      BY <2>1, <3>2, <3>3
  <2> QED
    BY <2>2, <2>3
<1> QED
  BY <1>1, <1>2, <1>3, <1>4, <1>6, <1>7, <1>8 DEF LanternMoves

(* A step on a stage leaves one that suits the room; only a reconciliation opens or
   ends one, as the mode it read says. *)
StageChanges(c, s) ==
  /\ UNCHANGED <<room, lantern>>
  /\ stage' = [stage EXCEPT ![c] = s]
  /\ StageSuits(s, room[c])
  /\ \/ s # None <=> stage[c] # None
     \/ \E t \in tasks : /\ ReconcileDone(t) /\ t.channel = c
                         /\ room[c] # <<>> => (s # None <=> t.stageMode)

(* What a room's stage is. *)
LEMMA StageChannel ==
  ASSUME RoomInv, NEW c \in Channels
  PROVE  /\ room[c] \in Seq(Users)
         /\ StageSuits(stage[c], room[c])
         /\ stage[c] # None => stage[c] \in Stage
  BY DEF RoomInv, ChannelOK

(* A handler of the stage writes one record, which fits its room. *)
LEMMA StageStepFits ==
  ASSUME RoomInv, TaskInv, StageMoves
  PROVE  \E c \in Channels : \E s : StageChanges(c, s)
<1> USE DEF StageStep
<1>0. \A c \in Channels : stage = [stage EXCEPT ![c] = stage[c]]
  BY DEF RoomInv
<1>1. ASSUME NEW u \in Users, NEW c \in Channels, StageRequest(u, c)
      PROVE  \E s : StageChanges(c, s)
  <2> DEFINE m == stage[c]
             q == Append(m.queue, u)
  <2>1. /\ m # None /\ m \in Stage /\ StageSuits(m, room[c])
        /\ u \in ToSet(room[c]) /\ u \notin ToSet(m.speakers) /\ u \notin ToSet(m.queue)
        /\ UNCHANGED <<room, lantern>>
    BY <1>1, StageChannel DEF StageRequest, Present
  <2>2. /\ m.queue \in Seq(Users) /\ IsInjective(m.queue)
        /\ ToSet(m.queue) \subseteq ToSet(room[c])
        /\ ToSet(m.speakers) \cap ToSet(m.queue) \subseteq {m.host}
    BY <2>1, StageParts DEF StageSuits, StageFits
  <2>3. q \in Seq(Users) /\ ToSet(q) = ToSet(m.queue) \cup {u} /\ IsInjective(q)
    BY <2>1, <2>2, AppendKeeps
  <2>4. stage' = [stage EXCEPT ![c] = [m EXCEPT !.queue = q]]
    BY <1>1 DEF StageRequest
  <2> HIDE DEF m, q
  <2>5. StageSuits([m EXCEPT !.queue = q], room[c]) /\ [m EXCEPT !.queue = q] # None
    BY <2>1, <2>2, <2>3, RequeuedFits
  <2>6. StageChanges(c, [m EXCEPT !.queue = q])
    BY <2>1, <2>4, <2>5 DEF StageChanges, m
  <2> QED
    BY <2>6
<1>2. ASSUME NEW u \in Users, NEW c \in Channels, StageWithdraw(u, c)
      PROVE  \E s : StageChanges(c, s)
  <2> DEFINE m == stage[c]
             q == Dropping(m.queue, {u})
  <2>1. /\ m # None /\ m \in Stage /\ StageSuits(m, room[c])
        /\ UNCHANGED <<room, lantern>>
    BY <1>2, StageChannel DEF StageWithdraw
  <2>2. /\ m.queue \in Seq(Users) /\ IsInjective(m.queue)
        /\ ToSet(m.queue) \subseteq ToSet(room[c])
        /\ ToSet(m.speakers) \cap ToSet(m.queue) \subseteq {m.host}
    BY <2>1, StageParts DEF StageSuits, StageFits
  <2>3. q \in Seq(Users) /\ ToSet(q) = ToSet(m.queue) \ {u} /\ IsInjective(q)
    BY <2>2, DroppingKeeps
  <2>4. stage' = [stage EXCEPT ![c] = [m EXCEPT !.queue = q]]
    BY <1>2 DEF StageWithdraw
  <2> HIDE DEF m, q
  <2>5. StageSuits([m EXCEPT !.queue = q], room[c]) /\ [m EXCEPT !.queue = q] # None
    BY <2>1, <2>2, <2>3, RequeuedFits
  <2>6. StageChanges(c, [m EXCEPT !.queue = q])
    BY <2>1, <2>4, <2>5 DEF StageChanges, m
  <2> QED
    BY <2>6
<1>3. ASSUME NEW c \in Channels, NEW v \in Users, stage[c] # None, UNCHANGED <<room, lantern>>,
             \/ MayBePromoted(stage[c], c, v) /\ stage' = [stage EXCEPT ![c] = Promoted(@, v)]
             \/ stage' = [stage EXCEPT ![c] = Demoted(@, v)]
      PROVE  \E s : StageChanges(c, s)
  <2>1. stage[c] \in Stage /\ room[c] \in Seq(Users) /\ StageSuits(stage[c], room[c])
    BY <1>3, StageChannel
  <2>2. CASE MayBePromoted(stage[c], c, v) /\ stage' = [stage EXCEPT ![c] = Promoted(@, v)]
    <3>1. StageSuits(Promoted(stage[c], v), room[c]) /\ Promoted(stage[c], v) # None
      BY <2>1, <2>2, PromotedFits
    <3>2. StageChanges(c, Promoted(stage[c], v))
      BY <1>3, <2>2, <3>1 DEF StageChanges
    <3> QED
      BY <3>2
  <2>3. CASE stage' = [stage EXCEPT ![c] = Demoted(@, v)]
    <3>1. StageSuits(Demoted(stage[c], v), room[c]) /\ Demoted(stage[c], v) # None
      BY <2>1, DemotedFits
    <3>2. StageChanges(c, Demoted(stage[c], v))
      BY <1>3, <2>3, <3>1 DEF StageChanges
    <3> QED
      BY <3>2
  <2> QED
    BY <1>3, <2>2, <2>3
<1>4. ASSUME NEW u \in Users, NEW v \in Users, NEW c \in Channels,
             StagePromote(u, v, c) \/ StageDemote(u, v, c)
      PROVE  \E s : StageChanges(c, s)
  BY <1>3, <1>4 DEF StagePromote, StageDemote
<1>5. ASSUME NEW t \in tasks, StagePromoteDone(t) \/ StageDemoteDone(t)
      PROVE  \E c \in Channels : \E s : StageChanges(c, s)
  <2> DEFINE c == t.channel
  <2>1. /\ c \in Channels /\ t.target \in Users
        /\ t.attached => stage[c] # None
    BY <1>5 DEF StagePromoteDone, StageDemoteDone, TaskInv, Task, TargetsFit, AttachedIsLive
  <2>2. UNCHANGED <<room, lantern>>
    BY <1>5 DEF StagePromoteDone, StageDemoteDone
  <2>3. CASE stage' = stage
    <3>1. StageChanges(c, stage[c])
      BY <1>0, <2>1, <2>2, <2>3, StageChannel DEF StageChanges
    <3> QED
      BY <2>1, <3>1
  <2>4. CASE stage' # stage
    <3>1. /\ stage[c] # None
          /\ \/ /\ MayBePromoted(stage[c], c, t.target)
                /\ stage' = [stage EXCEPT ![c] = Promoted(@, t.target)]
             \/ stage' = [stage EXCEPT ![c] = Demoted(@, t.target)]
      BY <1>5, <2>1, <2>4 DEF StagePromoteDone, StageDemoteDone
    <3>2. \E s : StageChanges(c, s)
      BY <1>3, <2>1, <2>2, <3>1
    <3> QED
      BY <2>1, <3>2
  <2> QED
    BY <2>3, <2>4
<1>6. ASSUME NEW t \in tasks, ReconcileDone(t)
      PROVE  \E c \in Channels : \E s : StageChanges(c, s)
  <2> DEFINE c == t.channel
             s == StageReconciled(stage[c], room[c], t.user, t.stageMode)
  <2>1. c \in Channels /\ t.user \in Users /\ t.stageMode \in BOOLEAN
    BY DEF TaskInv, Task
  <2>2. UNCHANGED <<room, lantern>> /\ stage' = [stage EXCEPT ![c] = s]
    BY <1>6 DEF ReconcileDone
  <2>3. StageSuits(s, room[c]) /\ (room[c] # <<>> => (s # None <=> t.stageMode))
    BY <2>1, StageChannel, ReconciledFits
  <2> HIDE DEF s
  <2>4. StageChanges(c, s)
    BY <1>6, <2>2, <2>3 DEF StageChanges
  <2> QED
    BY <2>1, <2>4
<1> QED
  BY <1>1, <1>2, <1>4, <1>5, <1>6 DEF StageMoves

-----------------------------------------------------------------------------
(* Every step leaves the rooms right, and a lantern in the hands of somebody who is
   not there only after a late pass. *)

(* c's holder is no more away than before, or a pass came late. *)
HolderStep(c) == HolderAway(c)' => HolderAway(c) \/ LatePass(c)

(* Leaving and eviction keep the rooms fitting, and lose no holder. *)
LEMMA VacatesOK ==
  ASSUME RoomInv, Vacates
  PROVE  RoomInv' /\ \A c \in Channels : HolderStep(c)
<1>1. PICK u \in Users, c \in Channels : u \in Present(c) /\ VacateRoom(u, c)
  BY DEF Vacates, Leave, Evict
<1> DEFINE r == RoomWithout(room[c], u)
           l == LanternWithout(lantern[c], r, u)
           s == StageWithout(stage[c], r, u)
<1>2. /\ room' = [room EXCEPT ![c] = r] /\ room'[c] = r
      /\ lantern' = [lantern EXCEPT ![c] = l]
      /\ stage' = [stage EXCEPT ![c] = s]
  BY <1>1 DEF VacateRoom, RoomInv
<1>3. ChannelOK(room[c], lantern[c], stage[c])
  BY DEF RoomInv
<1>4. ChannelOK(r, l, s)
  BY <1>3, VacatedOK
<1>5. l # None /\ l.holder # None /\ l.holder \notin ToSet(r)
        => lantern[c] # None /\ lantern[c].holder # None /\ lantern[c].holder \notin ToSet(room[c])
  BY <1>3, LanternWithoutFits DEF ChannelOK
<1> HIDE DEF r, l, s
<1>6. RoomInv'
  BY <1>2, <1>4, OneChannel
<1>7. ASSUME NEW d \in Channels
      PROVE  HolderStep(d)
  <2>1. CASE d = c
    BY <1>2, <1>5, <2>1 DEF HolderStep, HolderAway, Present, RoomInv
  <2>2. CASE d # c
    BY <1>2, <2>2 DEF HolderStep, HolderAway, Present, RoomInv
  <2> QED
    BY <2>1, <2>2
<1> QED
  BY <1>6, <1>7

(* A move keeps both rooms fitting, and loses no holder. *)
LEMMA MovesOK ==
  ASSUME RoomInv, Moves
  PROVE  RoomInv' /\ \A c \in Channels : HolderStep(c)
<1>1. PICK u \in Users, from \in Channels, to \in Channels : Move(u, from, to)
  BY DEF Moves
<1> DEFINE r == RoomWithout(room[from], u)
           l == LanternWithout(lantern[from], r, u)
           s == StageWithout(stage[from], r, u)
           r2 == RoomWith(room[to], u)
<1>2. /\ from # to
      /\ room' = [room EXCEPT ![from] = r, ![to] = r2]
  BY <1>1 DEF Move, RoomInv
<1>3. \A d \in Channels : room'[d] = IF d = from THEN r ELSE IF d = to THEN r2 ELSE room[d]
  BY <1>2 DEF RoomInv
<1>4. /\ lantern' = [lantern EXCEPT ![from] = l]
      /\ stage' = [stage EXCEPT ![from] = s]
  BY <1>1, <1>3 DEF Move
<1>5. \A d \in Channels : /\ lantern'[d] = IF d = from THEN l ELSE lantern[d]
                          /\ stage'[d] = IF d = from THEN s ELSE stage[d]
  BY <1>4 DEF RoomInv
<1>6. \A d \in Channels : ChannelOK(room[d], lantern[d], stage[d])
  BY DEF RoomInv
<1>7. ChannelOK(r, l, s)
  BY <1>6, VacatedOK
<1>8. ChannelOK(r2, lantern[to], stage[to]) /\ ToSet(r2) = ToSet(room[to]) \cup {u}
  BY <1>6, ArrivedOK
<1>9. l # None /\ l.holder # None /\ l.holder \notin ToSet(r)
        => lantern[from] # None /\ lantern[from].holder # None /\ lantern[from].holder \notin ToSet(room[from])
  BY <1>6, LanternWithoutFits DEF ChannelOK
<1> HIDE DEF r, l, s, r2
<1>10. \A d \in Channels : ChannelOK(room'[d], lantern'[d], stage'[d])
  BY <1>2, <1>3, <1>5, <1>6, <1>7, <1>8
<1>11. /\ room' = [d \in Channels |-> room'[d]]
       /\ lantern' = [d \in Channels |-> lantern'[d]]
       /\ stage' = [d \in Channels |-> stage'[d]]
  BY <1>2, <1>4 DEF RoomInv
<1>12. RoomInv'
  BY <1>10, <1>11, EveryChannel
<1>13. ASSUME NEW d \in Channels
       PROVE  HolderStep(d)
  BY <1>2, <1>3, <1>5, <1>8, <1>9 DEF HolderStep, HolderAway, Present
<1> QED
  BY <1>12, <1>13

(* A join keeps both rooms fitting, and loses no holder. *)
LEMMA JoinsOK ==
  ASSUME RoomInv, TaskInv, Joins
  PROVE  RoomInv' /\ \A c \in Channels : HolderStep(c)
<1>1. PICK t \in tasks, from \in Channels \cup {None} : JoinComplete(t, from)
  BY DEF Joins
<1> DEFINE u == t.user
           c == t.channel
           opened == [host |-> u, speakers |-> <<u>>, queue |-> <<>>]
           r == RoomWithout(room[from], u)
           l == LanternWithout(lantern[from], r, u)
           s == StageWithout(stage[from], r, u)
           r2 == RoomWith(room[c], u)
           s2 == IF t.stageMode /\ stage[c] = None THEN opened ELSE stage[c]
<1>2. c \in Channels /\ u \in Users /\ from # c
  BY <1>1 DEF TaskInv, Task, JoinComplete
<1>3. /\ room' = [d \in Channels |-> CASE d = c -> RoomWith(room[c], u)
                                       [] d = from -> RoomWithout(room[d], u)
                                       [] OTHER -> room[d]]
      /\ lantern' = [d \in Channels |->
                       IF d = from THEN LanternWithout(lantern[d], room'[d], u) ELSE lantern[d]]
      /\ stage' = [d \in Channels |->
                     CASE d = from -> StageWithout(stage[d], room'[d], u)
                       [] d = c /\ t.stageMode /\ stage[c] = None -> opened
                       [] OTHER -> stage[d]]
  BY <1>1 DEF JoinComplete
<1>4. \A d \in Channels : room'[d] = IF d = c THEN r2 ELSE IF d = from THEN r ELSE room[d]
  BY <1>2, <1>3
<1> HIDE DEF opened
<1>5. \A d \in Channels :
        /\ lantern'[d] = IF d = from THEN l ELSE lantern[d]
        /\ stage'[d] = IF d = from THEN s ELSE IF d = c THEN s2 ELSE stage[d]
  BY <1>2, <1>3, <1>4
<1>6. \A d \in Channels : ChannelOK(room[d], lantern[d], stage[d])
  BY DEF RoomInv
<1>7. from \in Channels => ChannelOK(r, l, s)
  BY <1>2, <1>6, VacatedOK
<1>8. ChannelOK(r2, lantern[c], stage[c]) /\ ToSet(r2) = ToSet(room[c]) \cup {u}
  BY <1>2, <1>6, ArrivedOK
<1>9. ChannelOK(r2, lantern[c], s2)
  <2>1. StageSuits(opened, r2)
    BY <1>2, <1>8, StageOpens DEF opened
  <2> QED
    BY <1>8, <2>1 DEF ChannelOK
<1>10. from \in Channels =>
         (l # None /\ l.holder # None /\ l.holder \notin ToSet(r)
           => lantern[from] # None /\ lantern[from].holder # None /\ lantern[from].holder \notin ToSet(room[from]))
  BY <1>2, <1>6, LanternWithoutFits DEF ChannelOK
<1> HIDE DEF r, l, s, r2, s2
<1>11. \A d \in Channels : ChannelOK(room'[d], lantern'[d], stage'[d])
  BY <1>2, <1>4, <1>5, <1>6, <1>7, <1>9
<1>12. /\ room' = [d \in Channels |-> room'[d]]
       /\ lantern' = [d \in Channels |-> lantern'[d]]
       /\ stage' = [d \in Channels |-> stage'[d]]
  BY <1>3
<1>13. RoomInv'
  BY <1>11, <1>12, EveryChannel
<1>14. ASSUME NEW d \in Channels
       PROVE  HolderStep(d)
  BY <1>2, <1>4, <1>5, <1>8, <1>10 DEF HolderStep, HolderAway, Present
<1> QED
  BY <1>13, <1>14

(* Every step keeps the rooms fitting, and loses a holder only by a late pass. *)
LEMMA RoomStep ==
  ASSUME RoomInv, TaskInv, [Next]_vars
  PROVE  RoomInv' /\ \A c \in Channels : HolderStep(c)
<1>1. CASE LanternMoves
  <2>1. PICK c \in Channels, l \in Lantern \cup {None} : LanternChanges(c, l)
    BY <1>1, LanternStepFits
  <2>2. RoomInv'
    BY <2>1, OneLantern DEF LanternChanges
  <2>3. ASSUME NEW d \in Channels
        PROVE  HolderStep(d)
    BY <2>1 DEF LanternChanges, HolderStep, HolderAway, Present, RoomInv
  <2> QED
    BY <2>2, <2>3
<1>2. CASE StageMoves
  <2>0. PICK c \in Channels : \E s : StageChanges(c, s)
    BY <1>2, StageStepFits
  <2>1. PICK s : StageChanges(c, s)
    BY <2>0
  <2>2. RoomInv'
    BY <2>1, OneStage DEF StageChanges
  <2>3. UNCHANGED <<room, lantern>>
    BY <2>1 DEF StageChanges
  <2> QED
    BY <2>2, <2>3 DEF HolderStep, HolderAway, Present
<1>3. CASE Vacates
  BY <1>3, VacatesOK
<1>4. CASE Moves
  BY <1>4, MovesOK
<1>5. CASE Joins
  BY <1>5, JoinsOK
<1>6. CASE Waits \/ FireMoves \/ Others \/ UNCHANGED vars
  <2>1. UNCHANGED <<room, lantern, stage>>
    BY <1>6, QuietSteps
  <2> QED
    BY <2>1 DEF RoomInv, HolderStep, HolderAway, Present
<1> QED
  BY <1>1, <1>2, <1>3, <1>4, <1>5, <1>6, StepKinds

-----------------------------------------------------------------------------
(* The waiting handlers *)

(* What waiting handlers know stays true while the records they read stay. *)
LEMMA TasksKept ==
  ASSUME TaskInv, tasks' \subseteq tasks,
         \A c \in Channels : /\ lantern[c] # None => lantern'[c] # None
                             /\ stage[c] # None => stage'[c] # None
  PROVE  TaskInv'
<1>1. \A t \in tasks' : t \in tasks /\ t.channel \in Channels
  BY DEF TaskInv, Task
<1> QED
  BY <1>1 DEF TaskInv, TargetsFit, AttachedIsLive

(* What waiting handlers know stays true when records are replaced: they are detached. *)
LEMMA TasksDetached ==
  ASSUME TaskInv, NEW W \in SUBSET tasks, tasks' = Detached(W)
  PROVE  TaskInv'
<1>1. ASSUME NEW t \in tasks'
      PROVE  /\ t \in Task
             /\ t.kind \in {"pass", "promote", "demote"} => t.target \in Users
             /\ t.kind = "close" => t.target \in OffshootIds
             /\ t.attached => /\ t.kind \in {"pass", "stop"} => lantern'[t.channel] # None
                              /\ t.kind \in {"promote", "demote"} => stage'[t.channel] # None
  <2> DEFINE Live(w) == w.attached /\ CASE w.kind \in {"pass", "stop"} -> lantern'[w.channel] # None
                                        [] w.kind \in {"promote", "demote"} -> stage'[w.channel] # None
                                        [] OTHER -> TRUE
  <2>1. PICK w \in W : t = [w EXCEPT !.attached = Live(w)]
    BY DEF Detached
  <2>2. w \in Task /\ w.attached \in BOOLEAN /\ w \in tasks
    BY DEF TaskInv, Task
  <2>3. /\ Live(w) \in BOOLEAN
        /\ Live(w) => /\ w.kind \in {"pass", "stop"} => lantern'[w.channel] # None
                      /\ w.kind \in {"promote", "demote"} => stage'[w.channel] # None
    BY <2>2
  <2> HIDE DEF Live
  <2> DEFINE live == Live(w)
  <2>4. t = [w EXCEPT !.attached = live] /\ live \in BOOLEAN
    BY <2>1, <2>3
  <2> HIDE DEF live
  <2>5. /\ t \in Task /\ t.kind = w.kind /\ t.channel = w.channel /\ t.target = w.target
    BY <2>2, <2>4 DEF Task
  <2>6. t.attached = live
    BY <2>2, <2>4 DEF Task
  <2> QED
    BY <2>2, <2>3, <2>5, <2>6 DEF TaskInv, TargetsFit, live
<1> QED
  BY <1>1 DEF TaskInv, TargetsFit, AttachedIsLive

(* A handler that starts to wait knows what it has read. *)
LEMMA TasksWait ==
  ASSUME TaskInv, Waits, roomMode \in [Channels -> BOOLEAN]
  PROVE  TaskInv'
<1>1. ASSUME NEW kind \in {"join", "reconcile", "pass", "stop", "promote", "demote", "close"},
             NEW c \in Channels, NEW u \in Users, NEW target \in Users \cup OffshootIds \cup {None},
             NEW mode \in BOOLEAN,
             kind \in {"pass", "promote", "demote"} => target \in Users,
             kind = "close" => target \in OffshootIds,
             kind \in {"pass", "stop"} => lantern[c] # None,
             kind \in {"promote", "demote"} => stage[c] # None,
             WaitFor(Asked(kind, c, u, target, mode))
      PROVE  TaskInv'
  <2> DEFINE t == Asked(kind, c, u, target, mode)
  <2>1. t \in Task /\ t.kind = kind /\ t.channel = c /\ t.target = target
    BY DEF Asked, Task
  <2>2. tasks' = tasks \cup {t} /\ UNCHANGED <<lantern, stage>>
    BY <1>1 DEF WaitFor, rooms
  <2> HIDE DEF t
  <2> QED
    BY <1>1, <2>1, <2>2 DEF TaskInv, TargetsFit, AttachedIsLive
<1>2. PICK u \in Users, c \in Channels :
        \/ JoinRead(u, c)
        \/ \E v \in Users : LanternPassRead(u, v, c)
        \/ LanternStopRead(u, c)
        \/ \E v \in Users : StagePromoteRead(u, v, c)
        \/ \E v \in Users : StageDemoteRead(u, v, c)
        \/ ReconcileRead(u, c)
        \/ \E o \in OffshootIds : OffshootCloseRead(u, c, o)
  BY DEF Waits
<1>3. roomMode[c] \in BOOLEAN
  OBVIOUS
<1>4. CASE JoinRead(u, c)
  BY <1>1, <1>3, <1>4 DEF JoinRead
<1>5. CASE ReconcileRead(u, c)
  BY <1>1, <1>3, <1>5 DEF ReconcileRead
<1>6. CASE \E v \in Users : LanternPassRead(u, v, c)
  BY <1>1, <1>6 DEF LanternPassRead
<1>7. CASE LanternStopRead(u, c)
  BY <1>1, <1>7 DEF LanternStopRead
<1>8. CASE \E v \in Users : StagePromoteRead(u, v, c)
  BY <1>1, <1>8 DEF StagePromoteRead
<1>9. CASE \E v \in Users : StageDemoteRead(u, v, c)
  BY <1>1, <1>9 DEF StageDemoteRead
<1>10. CASE \E o \in OffshootIds : OffshootCloseRead(u, c, o)
  BY <1>1, <1>10 DEF OffshootCloseRead
<1> QED
  BY <1>2, <1>4, <1>5, <1>6, <1>7, <1>8, <1>9, <1>10

(* Every step keeps what the waiting handlers know. *)
LEMMA TasksStep ==
  ASSUME RoomInv, TaskInv, roomMode \in [Channels -> BOOLEAN], [Next]_vars
  PROVE  TaskInv'
<1>0. \A x : tasks \ x \in SUBSET tasks
  OBVIOUS
<1>1. CASE LanternMoves
  <2>1. PICK c \in Channels, l \in Lantern \cup {None} : LanternChanges(c, l)
    BY <1>1, LanternStepFits
  <2>2. CASE \E x : tasks' = Detached(tasks \ x)
    BY <1>0, <2>2, TasksDetached
  <2>3. CASE ~\E x : tasks' = Detached(tasks \ x)
    <3>1. tasks' \subseteq tasks
      <4>1. tasks \ {} = tasks
        OBVIOUS
      <4>2. tasks' # Detached(tasks)
        BY <2>3, <4>1
      <4> QED
        BY <1>1, <2>3, <4>2 DEF LanternMoves, LanternStart, LanternRequest, LanternPass, LanternRelease,
              LanternStop, LanternPassDone, LanternStopDone, Resume
    <3>2. \A d \in Channels : /\ lantern[d] # None => lantern'[d] # None
                              /\ stage[d] # None => stage'[d] # None
      BY <2>1, <2>3 DEF LanternChanges, RoomInv
    <3> QED
      BY <3>1, <3>2, TasksKept
  <2> QED
    BY <2>2, <2>3
<1>2. CASE StageMoves
  <2>0. PICK c \in Channels : \E s : StageChanges(c, s)
    BY <1>2, StageStepFits
  <2>1. PICK s : StageChanges(c, s)
    BY <2>0
  <2>2. CASE \E t \in tasks : ReconcileDone(t)
    BY <1>0, <2>2, TasksDetached DEF ReconcileDone
  <2>3. CASE ~\E t \in tasks : ReconcileDone(t)
    <3>1. tasks' \subseteq tasks
      BY <1>2, <2>3 DEF StageMoves, StageRequest, StageWithdraw, StagePromote, StageDemote,
            StagePromoteDone, StageDemoteDone, Resume
    <3>2. \A d \in Channels : /\ lantern[d] # None => lantern'[d] # None
                              /\ stage[d] # None => stage'[d] # None
      BY <2>1, <2>3 DEF StageChanges, RoomInv
    <3> QED
      BY <3>1, <3>2, TasksKept
  <2> QED
    BY <2>2, <2>3
<1>3. CASE Vacates
  <2>1. tasks' = Detached(tasks) /\ tasks \in SUBSET tasks
    BY <1>3 DEF Vacates, Leave, Evict, VacateRoom
  <2> QED
    BY <2>1, TasksDetached
<1>4. CASE Moves
  <2>1. tasks' = Detached(tasks) /\ tasks \in SUBSET tasks
    BY <1>4 DEF Moves, Move
  <2> QED
    BY <2>1, TasksDetached
<1>5. CASE Joins
  <2>1. PICK t \in tasks, from \in Channels \cup {None} : JoinComplete(t, from)
    BY <1>5 DEF Joins
  <2>2. tasks' = Detached(tasks \ {t})
    BY <2>1 DEF JoinComplete
  <2> QED
    BY <1>0, <2>2, TasksDetached
<1>6. CASE Waits
  BY <1>6, TasksWait
<1>7. CASE FireMoves \/ Others \/ UNCHANGED vars
  <2>1. UNCHANGED <<room, lantern, stage>>
    BY <1>7, QuietSteps
  <2>2. tasks' \subseteq tasks
    BY <1>7 DEF FireMoves, OffshootCreate, OffshootJoin, OffshootLeave, OffshootClose,
          OffshootCloseDone, Others, Refused, ChangeMode, Resume, vars
  <2> QED
    BY <2>1, <2>2, TasksKept
<1> QED
  BY <1>1, <1>2, <1>3, <1>4, <1>5, <1>6, <1>7, StepKinds

-----------------------------------------------------------------------------
(* The side fires *)

Fires(f, c) == {o \in OffshootIds : f[o] # None /\ f[o].channel = c}

(* The two maps f and m agree, and the limits hold. *)
FiresAgree(f, m) ==
  /\ f \in [OffshootIds -> Offshoot \cup {None}]
  /\ m \in [Users -> Assignment \cup {None}]
  /\ \A u \in Users : m[u] # None =>
       /\ f[m[u].offshoot] # None
       /\ f[m[u].offshoot].channel = m[u].channel
       /\ u \in f[m[u].offshoot].members
  /\ \A o \in OffshootIds : f[o] # None =>
       /\ f[o].creator \in f[o].members
       /\ \A u \in f[o].members : m[u] # None /\ m[u].offshoot = o
       /\ IsFiniteSet(f[o].members)
       /\ Cardinality(f[o].members) <= MaxOffshootMembers
  /\ \A c \in Channels : /\ IsFiniteSet(Fires(f, c))
                         /\ Cardinality(Fires(f, c)) <= MaxOffshootsPerParent

FiresSeated(f, r) ==
  \A o \in OffshootIds : f[o] # None => f[o].members \subseteq ToSet(r[f[o].channel])

FireInv == FiresAgree(offshoot, membership) /\ FiresSeated(offshoot, room)

(* The parts of side fires and of assignments. *)
LEMMA FireParts ==
  ASSUME NEW f, NEW m, FiresAgree(f, m)
  PROVE  /\ \A o \in OffshootIds : f[o] # None =>
              /\ f[o] \in Offshoot /\ f[o].channel \in Channels
              /\ f[o].creator \in Users /\ f[o].members \in SUBSET Users
         /\ \A u \in Users : m[u] # None =>
              /\ m[u] \in Assignment /\ m[u].channel \in Channels /\ m[u].offshoot \in OffshootIds
  BY DEF FiresAgree, Offshoot, Assignment

(* A part of a small set is small. *)
LEMMA SmallerCounts ==
  ASSUME NEW S, NEW T \in SUBSET S, IsFiniteSet(S), NEW n \in Nat, Cardinality(S) <= n
  PROVE  IsFiniteSet(T) /\ Cardinality(T) <= n
<1>1. IsFiniteSet(T) /\ Cardinality(T) <= Cardinality(S)
  BY FS_Subset
<1>2. Cardinality(T) \in Nat /\ Cardinality(S) \in Nat
  BY <1>1, FS_CardinalityType
<1> QED
  BY <1>1, <1>2

(* Fires that closed or lost members, and assignments that went with them. *)
LEMMA FiresShrink ==
  ASSUME NEW f, NEW m, FiresAgree(f, m),
         NEW f2 \in [OffshootIds -> Offshoot \cup {None}],
         NEW m2 \in [Users -> Assignment \cup {None}],
         \A o \in OffshootIds : f2[o] # None =>
           /\ f[o] # None /\ f2[o].channel = f[o].channel
           /\ f2[o].creator \in f2[o].members /\ f2[o].members \subseteq f[o].members
           /\ \A v \in f2[o].members : m2[v] = m[v],
         \A v \in Users : m2[v] # None =>
           /\ m2[v] = m[v]
           /\ f2[m[v].offshoot] # None /\ v \in f2[m[v].offshoot].members
  PROVE  FiresAgree(f2, m2)
<1>1. \A u \in Users : m2[u] # None =>
        /\ f2[m2[u].offshoot] # None
        /\ f2[m2[u].offshoot].channel = m2[u].channel
        /\ u \in f2[m2[u].offshoot].members
  BY FireParts DEF FiresAgree
<1>2. ASSUME NEW o \in OffshootIds, f2[o] # None
      PROVE  /\ f2[o].creator \in f2[o].members
             /\ \A u \in f2[o].members : m2[u] # None /\ m2[u].offshoot = o
             /\ IsFiniteSet(f2[o].members)
             /\ Cardinality(f2[o].members) <= MaxOffshootMembers
  <2>1. f2[o].members \in SUBSET f[o].members
    BY <1>2
  <2>2. IsFiniteSet(f[o].members) /\ Cardinality(f[o].members) <= MaxOffshootMembers
    BY <1>2 DEF FiresAgree
  <2>3. IsFiniteSet(f2[o].members) /\ Cardinality(f2[o].members) <= MaxOffshootMembers
    BY <2>1, <2>2, SmallerCounts, FacilitationAssumption
  <2> QED
    BY <1>2, <2>3 DEF FiresAgree
<1>3. ASSUME NEW c \in Channels
      PROVE  /\ IsFiniteSet(Fires(f2, c))
             /\ Cardinality(Fires(f2, c)) <= MaxOffshootsPerParent
  <2>1. Fires(f2, c) \in SUBSET Fires(f, c)
    BY DEF Fires
  <2>2. IsFiniteSet(Fires(f, c)) /\ Cardinality(Fires(f, c)) <= MaxOffshootsPerParent
    BY DEF FiresAgree
  <2> QED
    BY <2>1, <2>2, SmallerCounts, FacilitationAssumption
<1> QED
  BY <1>1, <1>2, <1>3 DEF FiresAgree

(* What is left without a user: the user sits at no fire, and a fire the user did
   not sit at is as before. *)
LEMMA FiresWithout ==
  ASSUME FiresAgree(offshoot, membership), NEW u \in Users
  PROVE  /\ FiresAgree(OffshootsWithout(u), MembershipWithout(u))
         /\ MembershipWithout(u)[u] = None
         /\ \A o \in OffshootIds : OffshootsWithout(u)[o] # None =>
              /\ offshoot[o] # None
              /\ OffshootsWithout(u)[o].channel = offshoot[o].channel
              /\ OffshootsWithout(u)[o].members \subseteq offshoot[o].members \ {u}
         /\ \A o \in OffshootIds : offshoot[o] # None /\ u \notin offshoot[o].members =>
              OffshootsWithout(u)[o] = offshoot[o]
<1> DEFINE f2 == OffshootsWithout(u)
           m2 == MembershipWithout(u)
           Closes(o) == o \in ClosedBy(u)
           Loses(o) == membership[u] # None /\ o = membership[u].offshoot /\ offshoot[o] # None
<1>1. \A o \in OffshootIds :
        f2[o] = IF Closes(o) THEN None
                ELSE IF Loses(o) THEN [offshoot[o] EXCEPT !.members = @ \ {u}] ELSE offshoot[o]
  BY DEF OffshootsWithout
<1>2. \A o \in OffshootIds :
        Closes(o) <=> Loses(o) /\ (offshoot[o].creator = u \/ offshoot[o].members = {u})
  BY DEF ClosedBy
<1>3. \A o \in OffshootIds : offshoot[o] # None => (Loses(o) <=> u \in offshoot[o].members)
  BY DEF FiresAgree
<1>4. ASSUME NEW o \in OffshootIds, offshoot[o] # None
      PROVE  LET s == [offshoot[o] EXCEPT !.members = @ \ {u}]
             IN /\ s \in Offshoot /\ s.channel = offshoot[o].channel
                /\ s.creator = offshoot[o].creator /\ s.members = offshoot[o].members \ {u}
  <2>1. offshoot[o] \in Offshoot /\ offshoot[o].members \in SUBSET Users
    BY <1>4, FireParts
  <2>2. [offshoot[o] EXCEPT !.members = @ \ {u}] \in Offshoot
    BY <2>1 DEF Offshoot
  <2>3. [offshoot[o] EXCEPT !.members = @ \ {u}].channel = offshoot[o].channel
    BY <2>1 DEF Offshoot
  <2>4. [offshoot[o] EXCEPT !.members = @ \ {u}].creator = offshoot[o].creator
    BY <2>1 DEF Offshoot
  <2>5. [offshoot[o] EXCEPT !.members = @ \ {u}].members = offshoot[o].members \ {u}
    BY <2>1 DEF Offshoot
  <2> QED
    BY <2>2, <2>3, <2>4, <2>5
<1>5. m2 = [v \in Users |-> IF \/ v = u
                               \/ \E o \in ClosedBy(u) : v \in offshoot[o].members /\ membership[v] = membership[u]
                            THEN None ELSE membership[v]]
  BY DEF MembershipWithout
<1>6. f2 = [o \in OffshootIds |-> f2[o]]
  BY DEF OffshootsWithout
<1> HIDE DEF f2, m2
<1>7. \A v \in Users : m2[v] = IF v = u \/ \E o \in OffshootIds : Closes(o) /\ v \in offshoot[o].members /\ membership[v] = membership[u]
                               THEN None ELSE membership[v]
  BY <1>5 DEF ClosedBy
<1>16. \A o \in OffshootIds : Loses(o) => offshoot[o] # None
  OBVIOUS
<1> HIDE DEF Closes, Loses
<1>8. ASSUME NEW o \in OffshootIds, f2[o] # None
      PROVE  /\ offshoot[o] # None /\ ~Closes(o)
             /\ f2[o] \in Offshoot
             /\ f2[o].channel = offshoot[o].channel
             /\ f2[o].creator = offshoot[o].creator
             /\ f2[o].members = offshoot[o].members \ {u}
  <2>1. offshoot[o] # None /\ ~Closes(o)
    <3>1. ~Closes(o)
      BY <1>1, <1>8
    <3>2. f2[o] = offshoot[o] \/ Loses(o)
      BY <1>1, <3>1
    <3> QED
      BY <1>8, <1>16, <3>1, <3>2
  <2>2. CASE Loses(o)
    BY <1>1, <1>4, <2>1, <2>2
  <2>3. CASE ~Loses(o)
    <3>1. f2[o] = offshoot[o] /\ u \notin offshoot[o].members
      BY <1>1, <1>3, <2>1, <2>3
    <3>2. offshoot[o] \in Offshoot
      BY <2>1, FireParts
    <3> QED
      BY <2>1, <3>1, <3>2
  <2> QED
    BY <2>2, <2>3
<1>9. f2 \in [OffshootIds -> Offshoot \cup {None}]
  BY <1>6, <1>8
<1>10. m2 \in [Users -> Assignment \cup {None}]
  BY <1>5 DEF FiresAgree
<1>11. ASSUME NEW o \in OffshootIds, f2[o] # None
       PROVE  /\ f2[o].creator \in f2[o].members
              /\ \A v \in f2[o].members : m2[v] = membership[v]
  <2>1. /\ offshoot[o] # None /\ ~Closes(o)
        /\ f2[o].creator = offshoot[o].creator
        /\ f2[o].members = offshoot[o].members \ {u}
    BY <1>8, <1>11
  <2>2. offshoot[o].creator \in offshoot[o].members /\ offshoot[o].members \in SUBSET Users
    BY <2>1, FireParts DEF FiresAgree
  <2>3. offshoot[o].creator # u
    BY <1>2, <1>3, <2>1, <2>2
  <2>4. ASSUME NEW v \in f2[o].members
        PROVE  m2[v] = membership[v]
    <3>1. v \in Users /\ v # u /\ membership[v].offshoot = o /\ membership[v] # None
      BY <2>1, <2>2 DEF FiresAgree
    <3>2. \A p \in OffshootIds : v \in offshoot[p].members /\ Closes(p) => p = o
      BY <1>2, <3>1 DEF FiresAgree, Loses
    <3> QED
      BY <1>7, <2>1, <3>1, <3>2
  <2> QED
    BY <2>1, <2>2, <2>3, <2>4
<1>12. ASSUME NEW v \in Users, m2[v] # None
       PROVE  /\ m2[v] = membership[v]
              /\ f2[membership[v].offshoot] # None /\ v \in f2[membership[v].offshoot].members
  <2> DEFINE o == membership[v].offshoot
  <2>1. /\ v # u /\ m2[v] = membership[v] /\ membership[v] # None
        /\ ~\E p \in OffshootIds : Closes(p) /\ v \in offshoot[p].members /\ membership[v] = membership[u]
    BY <1>7, <1>12
  <2>2. o \in OffshootIds /\ offshoot[o] # None /\ v \in offshoot[o].members
    BY <2>1, FireParts DEF FiresAgree
  <2>3. ~Closes(o)
    <3>1. SUFFICES ASSUME Closes(o) PROVE FALSE
      OBVIOUS
    <3>2. membership[u] # None /\ membership[u].offshoot = o
      BY <1>2, <2>2, <3>1 DEF Loses
    <3>3. membership[u].channel = offshoot[o].channel /\ membership[v].channel = offshoot[o].channel
      BY <2>1, <3>2 DEF FiresAgree
    <3>4. membership[u] \in Assignment /\ membership[v] \in Assignment
      BY <2>1, <3>2, FireParts
    <3>5. membership[u] = membership[v]
      BY <3>2, <3>3, <3>4 DEF Assignment
    <3> QED
      BY <2>1, <2>2, <3>1, <3>5
  <2>4. f2[o] # None
    BY <1>1, <1>4, <2>2, <2>3, FacilitationAssumption
  <2> HIDE DEF o
  <2>5. v \in f2[o].members
    BY <1>8, <2>1, <2>2, <2>4
  <2> QED
    BY <2>1, <2>4, <2>5 DEF o
<1>13. FiresAgree(f2, m2)
  BY <1>8, <1>9, <1>10, <1>11, <1>12, FiresShrink
<1>14. m2[u] = None
  BY <1>7
<1>15. \A o \in OffshootIds : offshoot[o] # None /\ u \notin offshoot[o].members => f2[o] = offshoot[o]
  BY <1>1, <1>2, <1>3
<1> QED
  BY <1>8, <1>13, <1>14, <1>15 DEF f2, m2

(* Closing a side fire keeps the two maps agreed. *)
LEMMA FiresClosed ==
  ASSUME FireInv, NEW c \in Channels, NEW o \in OffshootIds, CloseOffshoot(c, o), UNCHANGED room
  PROVE  FireInv'
<1>1. CASE o \notin OffshootsOf(c)
  BY <1>1 DEF CloseOffshoot, FireInv
<1>2. CASE o \in OffshootsOf(c)
  <2>1. /\ offshoot' = [offshoot EXCEPT ![o] = None]
        /\ membership' = [v \in Users |-> IF /\ v \in offshoot[o].members
                                             /\ membership[v] = [channel |-> c, offshoot |-> o]
                                          THEN None ELSE membership[v]]
        /\ offshoot[o] # None /\ offshoot[o].channel = c
    BY <1>2 DEF CloseOffshoot, OffshootsOf
  <2>2. FiresAgree(offshoot, membership)
    BY DEF FireInv
  <2>3. /\ offshoot' \in [OffshootIds -> Offshoot \cup {None}]
        /\ \A p \in OffshootIds : offshoot'[p] = IF p = o THEN None ELSE offshoot[p]
    BY <2>1, <2>2 DEF FiresAgree
  <2>4. membership' \in [Users -> Assignment \cup {None}]
    BY <2>1, <2>2 DEF FiresAgree
  <2>5. ASSUME NEW p \in OffshootIds, offshoot'[p] # None
        PROVE  /\ offshoot[p] # None /\ offshoot'[p].channel = offshoot[p].channel
               /\ offshoot'[p].creator \in offshoot'[p].members
               /\ offshoot'[p].members \subseteq offshoot[p].members
               /\ \A v \in offshoot'[p].members : membership'[v] = membership[v]
    <3>1. p # o /\ offshoot'[p] = offshoot[p] /\ offshoot[p] # None
      BY <2>3, <2>5
    <3>2. ASSUME NEW v \in offshoot[p].members
          PROVE  membership'[v] = membership[v]
      <4>1. v \in Users /\ membership[v].offshoot = p
        BY <2>2, <3>1, FireParts DEF FiresAgree
      <4>2. membership[v] # [channel |-> c, offshoot |-> o]
        BY <3>1, <4>1
      <4> QED
        BY <2>1, <4>1, <4>2
    <3> QED
      BY <2>2, <3>1, <3>2 DEF FiresAgree
  <2>6. ASSUME NEW v \in Users, membership'[v] # None
        PROVE  /\ membership'[v] = membership[v]
               /\ offshoot'[membership[v].offshoot] # None
               /\ v \in offshoot'[membership[v].offshoot].members
    <3>1. membership'[v] = membership[v] /\ membership[v] # None
      BY <2>1, <2>6
    <3>2. /\ membership[v] \in Assignment /\ membership[v].offshoot \in OffshootIds
          /\ offshoot[membership[v].offshoot] # None
          /\ offshoot[membership[v].offshoot].channel = membership[v].channel
          /\ v \in offshoot[membership[v].offshoot].members
      BY <2>2, <3>1, FireParts DEF FiresAgree
    <3>3. membership[v].offshoot # o
      <4>1. SUFFICES ASSUME membership[v].offshoot = o PROVE FALSE
        OBVIOUS
      <4>2. membership[v] = [channel |-> c, offshoot |-> o]
        BY <2>1, <3>2, <4>1 DEF Assignment
      <4> QED
        BY <2>1, <2>6, <3>2, <4>1, <4>2
    <3> QED
      BY <2>3, <3>1, <3>2, <3>3
  <2>7. FiresAgree(offshoot', membership')
    BY <2>2, <2>3, <2>4, <2>5, <2>6, FiresShrink
  <2>8. FiresSeated(offshoot', room')
    BY <2>5 DEF FireInv, FiresSeated
  <2> QED
    BY <2>7, <2>8 DEF FireInv
<1> QED
  BY <1>1, <1>2

(* Whoever may have lost a seat sits at no fire any more. *)
LEMMA FiresLeft ==
  ASSUME FireInv, NEW u \in Users, LeaveOffshoot(u),
         \A c \in Channels : ToSet(room[c]) \ {u} \subseteq ToSet(room'[c])
  PROVE  FireInv'
<1>1. offshoot' = OffshootsWithout(u) /\ membership' = MembershipWithout(u)
  BY DEF LeaveOffshoot
<1>2. FiresAgree(offshoot, membership)
  BY DEF FireInv
<1>3. FiresAgree(offshoot', membership')
  BY <1>1, <1>2, FiresWithout
<1>4. ASSUME NEW o \in OffshootIds, offshoot'[o] # None
      PROVE  offshoot'[o].members \subseteq ToSet(room'[offshoot'[o].channel])
  <2>1. /\ offshoot[o] # None /\ offshoot'[o].channel = offshoot[o].channel
        /\ offshoot'[o].members \subseteq offshoot[o].members \ {u}
    BY <1>1, <1>2, <1>4, FiresWithout
  <2>2. offshoot[o].channel \in Channels
    BY <1>2, <2>1, FireParts
  <2>3. offshoot[o].members \subseteq ToSet(room[offshoot[o].channel])
    BY <2>1 DEF FireInv, FiresSeated
  <2> QED
    BY <2>1, <2>2, <2>3
<1> QED
  BY <1>3, <1>4 DEF FireInv, FiresSeated

(* Nobody loses a seat in a room whose fires they sit at. *)
LEMMA FiresStay ==
  ASSUME FireInv, UNCHANGED <<offshoot, membership>>,
         \A o \in OffshootIds : offshoot[o] # None =>
           offshoot[o].members \subseteq ToSet(room'[offshoot[o].channel])
  PROVE  FireInv'
  BY DEF FireInv, FiresSeated

(* A new side fire keeps the two maps agreed, within the limit of fires. *)
LEMMA FireCreated ==
  ASSUME FireInv, NEW u \in Users, NEW c \in Channels, NEW o \in OffshootIds, OffshootCreate(u, c, o)
  PROVE  FireInv'
<1> DEFINE new == [channel |-> c, creator |-> u, members |-> {u}]
           seat == [channel |-> c, offshoot |-> o]
<1>1. /\ u \in ToSet(room[c]) /\ membership[u] = None /\ offshoot[o] = None
      /\ Cardinality(OffshootsOf(c)) < MaxOffshootsPerParent
      /\ offshoot' = [offshoot EXCEPT ![o] = new]
      /\ membership' = [membership EXCEPT ![u] = seat]
      /\ room' = room
  BY DEF OffshootCreate, Present, FreshIds, OffshootStep
<1>2. FiresAgree(offshoot, membership)
  BY DEF FireInv
<1>3. new \in Offshoot /\ new.channel = c /\ new.creator = u /\ new.members = {u} /\ new # None
  BY FacilitationAssumption DEF Offshoot
<1>4. seat \in Assignment /\ seat.channel = c /\ seat.offshoot = o /\ seat # None
  BY FacilitationAssumption DEF Assignment
<1> HIDE DEF new, seat
<1>5. /\ offshoot' \in [OffshootIds -> Offshoot \cup {None}]
      /\ \A p \in OffshootIds : offshoot'[p] = IF p = o THEN new ELSE offshoot[p]
  BY <1>1, <1>2, <1>3 DEF FiresAgree
<1>6. /\ membership' \in [Users -> Assignment \cup {None}]
      /\ \A v \in Users : membership'[v] = IF v = u THEN seat ELSE membership[v]
  BY <1>1, <1>2, <1>4 DEF FiresAgree
<1>7. ASSUME NEW v \in Users, membership'[v] # None
      PROVE  /\ offshoot'[membership'[v].offshoot] # None
             /\ offshoot'[membership'[v].offshoot].channel = membership'[v].channel
             /\ v \in offshoot'[membership'[v].offshoot].members
  <2>1. CASE v = u
    BY <1>3, <1>4, <1>5, <1>6, <2>1
  <2>2. CASE v # u
    BY <1>1, <1>2, <1>5, <1>6, <1>7, <2>2, FireParts DEF FiresAgree
  <2> QED
    BY <2>1, <2>2
<1>8. IsFiniteSet({u}) /\ Cardinality({u}) = 1 /\ 1 <= MaxOffshootMembers
  <2>1. IsFiniteSet({u}) /\ Cardinality({u}) = 1
    BY FS_Singleton
  <2>2. 1 <= MaxOffshootMembers
    BY FacilitationAssumption
  <2> QED
    BY <2>1, <2>2
<1>9. ASSUME NEW p \in OffshootIds, offshoot'[p] # None
      PROVE  /\ offshoot'[p].creator \in offshoot'[p].members
             /\ \A v \in offshoot'[p].members : membership'[v] # None /\ membership'[v].offshoot = p
             /\ IsFiniteSet(offshoot'[p].members)
             /\ Cardinality(offshoot'[p].members) <= MaxOffshootMembers
  <2>1. CASE p = o
    <3>1. offshoot'[p] = new
      BY <1>5, <2>1
    <3> QED
      BY <1>3, <1>4, <1>6, <1>8, <2>1, <3>1
  <2>2. CASE p # o
    <3>1. offshoot'[p] = offshoot[p] /\ offshoot[p] # None
      BY <1>5, <1>9, <2>2
    <3>2. ASSUME NEW v \in offshoot[p].members
          PROVE  membership'[v] # None /\ membership'[v].offshoot = p
      <4>1. v \in Users /\ membership[v] # None /\ membership[v].offshoot = p
        BY <1>2, <3>1, FireParts DEF FiresAgree
      <4> QED
        BY <1>1, <1>6, <4>1
    <3> QED
      BY <1>2, <3>1, <3>2 DEF FiresAgree
  <2> QED
    BY <2>1, <2>2
<1>10. ASSUME NEW d \in Channels
       PROVE  IsFiniteSet(Fires(offshoot', d)) /\ Cardinality(Fires(offshoot', d)) <= MaxOffshootsPerParent
  <2>1. IsFiniteSet(Fires(offshoot, d)) /\ Cardinality(Fires(offshoot, d)) <= MaxOffshootsPerParent
    BY <1>2 DEF FiresAgree
  <2>2. CASE d = c
    <3>1. Fires(offshoot', d) = Fires(offshoot, d) \cup {o}
      BY <1>3, <1>5, <2>2 DEF Fires
    <3>2. Cardinality(Fires(offshoot, d)) < MaxOffshootsPerParent
      BY <1>1, <2>2 DEF Fires, OffshootsOf
    <3>3. o \notin Fires(offshoot, d)
      BY <1>1 DEF Fires
    <3>4. /\ IsFiniteSet(Fires(offshoot, d) \cup {o})
          /\ Cardinality(Fires(offshoot, d) \cup {o}) = Cardinality(Fires(offshoot, d)) + 1
          /\ Cardinality(Fires(offshoot, d)) \in Nat
      BY <2>1, <3>3, FS_AddElement, FS_CardinalityType
    <3> QED
      BY <3>1, <3>2, <3>4, FacilitationAssumption
  <2>3. CASE d # c
    <3>1. Fires(offshoot', d) = Fires(offshoot, d)
      BY <1>1, <1>3, <1>5, <2>3 DEF Fires
    <3> QED
      BY <2>1, <3>1
  <2> QED
    BY <2>2, <2>3
<1>11. FiresAgree(offshoot', membership')
  BY <1>5, <1>6, <1>7, <1>9, <1>10 DEF FiresAgree
<1>12. FiresSeated(offshoot', room')
  BY <1>1, <1>3, <1>5 DEF FireInv, FiresSeated
<1> QED
  BY <1>11, <1>12 DEF FireInv

(* Joining a side fire, which leaves the last, keeps the two maps agreed, within the
   limit of members. *)
LEMMA FireJoined ==
  ASSUME FireInv, NEW u \in Users, NEW c \in Channels, NEW o \in OffshootIds, OffshootJoin(u, c, o)
  PROVE  FireInv'
<1> DEFINE f == OffshootsWithout(u)
           m == MembershipWithout(u)
           new == [f[o] EXCEPT !.members = @ \cup {u}]
           seat == [channel |-> c, offshoot |-> o]
<1>1. /\ u \in ToSet(room[c]) /\ offshoot[o] # None /\ offshoot[o].channel = c
      /\ u \notin offshoot[o].members
      /\ Cardinality(offshoot[o].members) < MaxOffshootMembers
      /\ offshoot' = [f EXCEPT ![o].members = @ \cup {u}]
      /\ membership' = [m EXCEPT ![u] = seat]
      /\ room' = room
  BY DEF OffshootJoin, OffshootsOf, Present, OffshootStep
<1>2. FiresAgree(offshoot, membership)
  BY DEF FireInv
<1>3. /\ FiresAgree(f, m) /\ m[u] = None
      /\ f[o] = offshoot[o]
      /\ \A p \in OffshootIds : f[p] # None =>
           /\ offshoot[p] # None /\ f[p].channel = offshoot[p].channel
           /\ f[p].members \subseteq offshoot[p].members \ {u}
  BY <1>1, <1>2, FiresWithout
<1>4. seat \in Assignment /\ seat.channel = c /\ seat.offshoot = o /\ seat # None
  BY FacilitationAssumption DEF Assignment
<1>5. offshoot' = [f EXCEPT ![o] = new]
  BY <1>1
<1> HIDE DEF f, m, seat
<1>6. f[o] \in Offshoot /\ f[o].members \in SUBSET Users
  BY <1>1, <1>3, FireParts
<1>7. new \in Offshoot
  BY <1>6 DEF Offshoot
<1>8. new.channel = f[o].channel
  BY <1>6 DEF Offshoot
<1>9. new.creator = f[o].creator
  BY <1>6 DEF Offshoot
<1>10. new.members = f[o].members \cup {u}
  BY <1>6 DEF Offshoot
<1>11. new # None
  BY <1>7, FacilitationAssumption
<1> HIDE DEF new
<1>12. /\ offshoot' \in [OffshootIds -> Offshoot \cup {None}]
       /\ \A p \in OffshootIds : offshoot'[p] = IF p = o THEN new ELSE f[p]
  BY <1>3, <1>5, <1>7 DEF FiresAgree
<1>13. /\ membership' \in [Users -> Assignment \cup {None}]
       /\ \A v \in Users : membership'[v] = IF v = u THEN seat ELSE m[v]
  BY <1>1, <1>3, <1>4 DEF FiresAgree
<1>14. ASSUME NEW v \in Users, membership'[v] # None
       PROVE  /\ offshoot'[membership'[v].offshoot] # None
              /\ offshoot'[membership'[v].offshoot].channel = membership'[v].channel
              /\ v \in offshoot'[membership'[v].offshoot].members
  <2>1. CASE v = u
    BY <1>1, <1>3, <1>4, <1>8, <1>10, <1>11, <1>12, <1>13, <2>1
  <2>2. CASE v # u
    <3>1. membership'[v] = m[v] /\ m[v] # None
      BY <1>13, <1>14, <2>2
    <3>2. /\ m[v].offshoot \in OffshootIds
          /\ f[m[v].offshoot] # None
          /\ f[m[v].offshoot].channel = m[v].channel
          /\ v \in f[m[v].offshoot].members
      BY <1>3, <3>1, FireParts DEF FiresAgree
    <3> QED
      BY <1>8, <1>10, <1>11, <1>12, <3>1, <3>2
  <2> QED
    BY <2>1, <2>2
<1>15. IsFiniteSet(new.members) /\ Cardinality(new.members) <= MaxOffshootMembers
  <2>1. IsFiniteSet(offshoot[o].members)
    BY <1>1, <1>2 DEF FiresAgree
  <2>2. Cardinality(offshoot[o].members) \in Nat
    BY <2>1, FS_CardinalityType
  <2>3. /\ IsFiniteSet(offshoot[o].members \cup {u})
        /\ Cardinality(offshoot[o].members \cup {u}) = Cardinality(offshoot[o].members) + 1
    BY <1>1, <2>1, FS_AddElement
  <2> QED
    BY <1>1, <1>3, <1>10, <2>2, <2>3, FacilitationAssumption
<1>16. ASSUME NEW p \in OffshootIds, offshoot'[p] # None
       PROVE  /\ offshoot'[p].creator \in offshoot'[p].members
              /\ \A v \in offshoot'[p].members : membership'[v] # None /\ membership'[v].offshoot = p
              /\ IsFiniteSet(offshoot'[p].members)
              /\ Cardinality(offshoot'[p].members) <= MaxOffshootMembers
  <2>1. ASSUME NEW v \in f[p].members, f[p] # None
        PROVE  membership'[v] # None /\ membership'[v].offshoot = p
    <3>1. v \in Users /\ m[v] # None /\ m[v].offshoot = p
      BY <1>3, <2>1, FireParts DEF FiresAgree
    <3> QED
      BY <1>3, <1>13, <3>1
  <2>2. CASE p = o
    <3>1. offshoot'[p] = new /\ f[o] # None
      BY <1>1, <1>3, <1>12, <2>2
    <3>2. new.creator \in new.members
      BY <1>3, <1>9, <1>10, <3>1 DEF FiresAgree
    <3>3. membership'[u] # None /\ membership'[u].offshoot = o
      BY <1>4, <1>13
    <3> QED
      BY <1>10, <1>15, <2>1, <2>2, <3>1, <3>2, <3>3
  <2>3. CASE p # o
    <3>1. offshoot'[p] = f[p] /\ f[p] # None
      BY <1>12, <1>16, <2>3
    <3> QED
      BY <1>3, <2>1, <3>1 DEF FiresAgree
  <2> QED
    BY <2>2, <2>3
<1>17. ASSUME NEW d \in Channels
       PROVE  IsFiniteSet(Fires(offshoot', d)) /\ Cardinality(Fires(offshoot', d)) <= MaxOffshootsPerParent
  <2>1. Fires(offshoot', d) = Fires(f, d)
    BY <1>1, <1>3, <1>8, <1>11, <1>12 DEF Fires
  <2> QED
    BY <1>3, <2>1 DEF FiresAgree
<1>18. FiresAgree(offshoot', membership')
  BY <1>12, <1>13, <1>14, <1>16, <1>17 DEF FiresAgree
<1>19. FiresSeated(offshoot', room')
  <2>1. ASSUME NEW p \in OffshootIds, offshoot[p] # None
        PROVE  offshoot[p].members \subseteq ToSet(room[offshoot[p].channel])
    BY <2>1 DEF FireInv, FiresSeated
  <2> QED
    BY <1>1, <1>3, <1>8, <1>10, <1>12, <2>1 DEF FiresSeated
<1> QED
  BY <1>18, <1>19 DEF FireInv

(* Every step keeps the two maps agreed. *)
LEMMA FireStep ==
  ASSUME RoomInv, TaskInv, FireInv, [Next]_vars
  PROVE  FireInv'
<1>0. FiresAgree(offshoot, membership) /\ FiresSeated(offshoot, room)
  BY DEF FireInv
<1>1. CASE LanternMoves \/ StageMoves \/ Waits \/ Others \/ UNCHANGED vars
  <2>1. UNCHANGED <<room, offshoot, membership>>
    <3>1. CASE LanternMoves
      BY <3>1 DEF LanternMoves, LanternStart, LanternRequest, LanternPass, LanternRelease,
            LanternStop, LanternPassDone, LanternStopDone, LanternStep
    <3>2. CASE StageMoves
      BY <3>2 DEF StageMoves, StageRequest, StageWithdraw, StagePromote, StageDemote,
            StagePromoteDone, StageDemoteDone, ReconcileDone, StageStep
    <3>3. CASE Waits
      BY <3>3, WaitsKeepsRooms DEF rooms
    <3>4. CASE Others
      BY <3>4 DEF Others, Refused, ChangeMode, rooms
    <3>5. CASE UNCHANGED vars
      BY <3>5 DEF vars, rooms
    <3> QED
      BY <1>1, <3>1, <3>2, <3>3, <3>4, <3>5
  <2> QED
    BY <1>0, <2>1, FiresStay DEF FiresSeated
<1>2. CASE Vacates
  <2>1. PICK u \in Users, c \in Channels : Leave(u, c) \/ Evict(u, c)
    BY <1>2 DEF Vacates
  <2>2. room' = [room EXCEPT ![c] = RoomWithout(room[c], u)]
    BY <2>1 DEF Leave, Evict, VacateRoom
  <2>3. ToSet(RoomWithout(room[c], u)) = ToSet(room[c]) \ {u}
    BY DroppingKeeps DEF RoomWithout, RoomInv
  <2>4. \A d \in Channels : /\ ToSet(room[d]) \ {u} \subseteq ToSet(room'[d])
                            /\ d # c => room'[d] = room[d]
    BY <2>2, <2>3 DEF RoomInv
  <2>5. CASE LeaveOffshoot(u)
    BY <2>4, <2>5, FiresLeft
  <2>6. CASE ~LeaveOffshoot(u)
    <3>1. /\ UNCHANGED <<offshoot, membership>>
          /\ ~(membership[u] # None /\ membership[u].channel = c)
      BY <2>1, <2>6 DEF Leave, Evict
    <3>2. ASSUME NEW o \in OffshootIds, offshoot[o] # None
          PROVE  offshoot[o].members \subseteq ToSet(room'[offshoot[o].channel])
      <4>1. offshoot[o].members \subseteq ToSet(room[offshoot[o].channel]) /\ offshoot[o].channel \in Channels
        BY <1>0, <3>2, FireParts DEF FiresSeated
      <4>2. CASE offshoot[o].channel = c
        <5>1. u \notin offshoot[o].members
          BY <1>0, <3>1, <3>2, <4>2 DEF FiresAgree
        <5> QED
          BY <2>4, <4>1, <5>1
      <4>3. CASE offshoot[o].channel # c
        BY <2>4, <4>1, <4>3
      <4> QED
        BY <4>2, <4>3
    <3> QED
      BY <3>1, <3>2, FiresStay
  <2> QED
    BY <2>5, <2>6
<1>3. CASE Moves
  <2>1. PICK u \in Users, from \in Channels, to \in Channels : Move(u, from, to)
    BY <1>3 DEF Moves
  <2>2. /\ from # to /\ LeaveOffshoot(u)
        /\ room' = [room EXCEPT ![from] = RoomWithout(room[from], u), ![to] = RoomWith(room[to], u)]
    BY <2>1 DEF Move, RoomInv
  <2>5. /\ room[from] \in Seq(Users)
        /\ ChannelOK(room[to], lantern[to], stage[to])
    BY DEF RoomInv
  <2>6. ToSet(RoomWithout(room[from], u)) = ToSet(room[from]) \ {u}
    BY <2>5, DroppingKeeps DEF RoomWithout
  <2>7. ToSet(RoomWith(room[to], u)) = ToSet(room[to]) \cup {u}
    BY <2>5, ArrivedOK
  <2>3. /\ ToSet(RoomWithout(room[from], u)) = ToSet(room[from]) \ {u}
        /\ ToSet(RoomWith(room[to], u)) = ToSet(room[to]) \cup {u}
    BY <2>6, <2>7
  <2>4. \A d \in Channels : ToSet(room[d]) \ {u} \subseteq ToSet(room'[d])
    BY <2>2, <2>3 DEF RoomInv
  <2> QED
    BY <2>2, <2>4, FiresLeft
<1>4. CASE Joins
  <2>1. PICK t \in tasks, from \in Channels \cup {None} : JoinComplete(t, from)
    BY <1>4 DEF Joins
  <2> DEFINE u == t.user
             c == t.channel
  <2>2. c \in Channels /\ u \in Users /\ from # c
    BY <2>1 DEF TaskInv, Task, JoinComplete
  <2>3. \A d \in Channels : room'[d] = IF d = c THEN RoomWith(room[c], u)
                                       ELSE IF d = from THEN RoomWithout(room[d], u) ELSE room[d]
    BY <2>1, <2>2 DEF JoinComplete
  <2>4. ToSet(RoomWith(room[c], u)) = ToSet(room[c]) \cup {u}
    <3>1. ChannelOK(room[c], lantern[c], stage[c])
      BY <2>2 DEF RoomInv
    <3> QED
      BY <2>2, <3>1, ArrivedOK
  <2>5. CASE from # None
    <3>1. LeaveOffshoot(u)
      BY <2>1, <2>5 DEF JoinComplete
    <3>2. ToSet(RoomWithout(room[from], u)) = ToSet(room[from]) \ {u}
      BY <2>5, DroppingKeeps DEF RoomWithout, RoomInv
    <3>3. \A d \in Channels : ToSet(room[d]) \ {u} \subseteq ToSet(room'[d])
      BY <2>3, <2>4, <3>2
    <3> QED
      BY <2>2, <3>1, <3>3, FiresLeft
  <2>6. CASE from = None
    <3>1. UNCHANGED <<offshoot, membership>>
      BY <2>1, <2>6 DEF JoinComplete
    <3>2. \A d \in Channels : ToSet(room[d]) \subseteq ToSet(room'[d])
      BY <2>3, <2>4, <2>6, FacilitationAssumption
    <3> HIDE DEF u, c
    <3>3. ASSUME NEW o \in OffshootIds, offshoot[o] # None
          PROVE  offshoot[o].members \subseteq ToSet(room'[offshoot[o].channel])
      BY <1>0, <3>2, <3>3, FireParts DEF FiresSeated
    <3> QED
      BY <3>1, <3>3, FiresStay
  <2> QED
    BY <2>5, <2>6
<1>5. CASE FireMoves
  <2>1. UNCHANGED room
    BY <1>5, FireMovesKeepsRooms
  <2>2. ASSUME NEW u \in Users, NEW c \in Channels,
               \/ \E o \in OffshootIds : OffshootCreate(u, c, o)
               \/ \E o \in OffshootIds : OffshootJoin(u, c, o)
               \/ OffshootLeave(u, c)
               \/ \E o \in OffshootIds : OffshootClose(u, c, o)
        PROVE  FireInv'
    <3>1. CASE \E o \in OffshootIds : OffshootCreate(u, c, o)
      BY <3>1, FireCreated
    <3>2. CASE \E o \in OffshootIds : OffshootJoin(u, c, o)
      BY <3>2, FireJoined
    <3>3. CASE OffshootLeave(u, c)
      BY <2>1, <3>3, FiresLeft DEF OffshootLeave
    <3>4. CASE \E o \in OffshootIds : OffshootClose(u, c, o)
      BY <2>1, <3>4, FiresClosed DEF OffshootClose
    <3> QED
      BY <2>2, <3>1, <3>2, <3>3, <3>4
  <2>3. ASSUME NEW t \in tasks, OffshootCloseDone(t)
        PROVE  FireInv'
    <3>1. t.channel \in Channels /\ t.target \in OffshootIds
      BY <2>3 DEF OffshootCloseDone, TaskInv, Task, TargetsFit
    <3> QED
      BY <2>1, <2>3, <3>1, FiresClosed DEF OffshootCloseDone
  <2> QED
    BY <1>5, <2>2, <2>3 DEF FireMoves
<1> QED
  BY <1>1, <1>2, <1>3, <1>4, <1>5, StepKinds

-----------------------------------------------------------------------------
(* The modes and the histories *)

RestInv ==
  /\ roomMode \in [Channels -> BOOLEAN]
  /\ unannounced \subseteq Channels
  /\ drifted \subseteq Channels
  /\ modeChanges \in 0..scope.modeChanges
  /\ scope \in Scopes

(* A step changes a mode, or none; only an announcement is ever forgotten, and then a
   handler waits to carry it out. *)
LEMMA ModesKept ==
  ASSUME [Next]_vars
  PROVE  \/ UNCHANGED <<roomMode, unannounced, bounds>>
         \/ \E c \in Channels : ChangeMode(c)
         \/ \E u \in Users, c \in Channels : ReconcileRead(u, c)
<1>1. CASE LanternMoves
  BY <1>1 DEF LanternMoves, LanternStart, LanternRequest, LanternPass, LanternRelease, LanternStop,
         LanternPassDone, LanternStopDone, LanternStep
<1>2. CASE StageMoves
  BY <1>2 DEF StageMoves, StageRequest, StageWithdraw, StagePromote, StageDemote,
         StagePromoteDone, StageDemoteDone, ReconcileDone, StageStep
<1>3. CASE Vacates \/ Moves \/ Joins
  BY <1>3 DEF Vacates, Leave, Evict, VacateRoom, Moves, Move, Joins, JoinComplete
<1>4. CASE Waits
  <2>1. UNCHANGED <<roomMode, bounds>>
    BY <1>4, WaitsKeepsRooms
  <2>2. UNCHANGED unannounced \/ \E u \in Users, c \in Channels : ReconcileRead(u, c)
    BY <1>4 DEF Waits, JoinRead, LanternPassRead, LanternStopRead, StagePromoteRead,
           StageDemoteRead, OffshootCloseRead
  <2> QED
    BY <2>1, <2>2
<1>5. CASE FireMoves
  BY <1>5, FireMovesKeepsRooms
<1>6. CASE Others
  BY <1>6 DEF Others, Refused
<1>7. CASE UNCHANGED vars
  BY <1>7 DEF vars
<1> QED
  BY <1>1, <1>2, <1>3, <1>4, <1>5, <1>6, <1>7, StepKinds

(* Only a join, a move, a way out of a room and a reconciliation write `drifted`. *)
LEMMA DriftedKept ==
  ASSUME TaskInv, [Next]_vars
  PROVE  UNCHANGED drifted \/ \E X \in SUBSET Channels : Drift(X)
<1>1. CASE LanternMoves
  BY <1>1 DEF LanternMoves, LanternStart, LanternRequest, LanternPass, LanternRelease, LanternStop,
         LanternPassDone, LanternStopDone, LanternStep
<1>2. CASE StageMoves
  <2>1. CASE \E t \in tasks : ReconcileDone(t)
    <3>1. PICK t \in tasks : ReconcileDone(t)
      BY <2>1
    <3> DEFINE X == IF t.stageMode # roomMode[t.channel] THEN {t.channel} ELSE {}
    <3>2. X \in SUBSET Channels
      BY DEF TaskInv, Task
    <3>3. Drift(X)
      BY <3>1 DEF ReconcileDone
    <3> QED
      BY <3>2, <3>3
  <2>2. CASE ~\E t \in tasks : ReconcileDone(t)
    BY <1>2, <2>2 DEF StageMoves, StageRequest, StageWithdraw, StagePromote, StageDemote,
         StagePromoteDone, StageDemoteDone, StageStep
  <2> QED
    BY <2>1, <2>2
<1>3. CASE Vacates
  <2>1. Drift({}) /\ {} \in SUBSET Channels
    BY <1>3 DEF Vacates, Leave, Evict, VacateRoom
  <2> QED
    BY <2>1
<1>4. CASE Moves
  <2>1. PICK u \in Users, from \in Channels, to \in Channels : Move(u, from, to)
    BY <1>4 DEF Moves
  <2>2. Drift({to}) /\ {to} \in SUBSET Channels
    BY <2>1 DEF Move
  <2> QED
    BY <2>2
<1>5. CASE Joins
  <2>1. PICK t \in tasks, from \in Channels \cup {None} : JoinComplete(t, from)
    BY <1>5 DEF Joins
  <2> DEFINE X == IF t.stageMode # roomMode[t.channel] THEN {t.channel} ELSE {}
  <2>2. X \in SUBSET Channels
    BY DEF TaskInv, Task
  <2>3. Drift(X)
    BY <2>1 DEF JoinComplete
  <2> QED
    BY <2>2, <2>3
<1>6. CASE Waits
  BY <1>6, WaitsKeepsRooms
<1>7. CASE FireMoves
  BY <1>7, FireMovesKeepsRooms
<1>8. CASE Others \/ UNCHANGED vars
  BY <1>8 DEF Others, Refused, ChangeMode, vars
<1> QED
  BY <1>1, <1>2, <1>3, <1>4, <1>5, <1>6, <1>7, <1>8, StepKinds

(* Every step keeps the types of what remains. *)
LEMMA RestStep ==
  ASSUME TaskInv, RestInv, [Next]_vars
  PROVE  RestInv'
<1>1. drifted' \subseteq Channels
  BY DriftedKept DEF Drift, RestInv
<1>2. CASE UNCHANGED <<roomMode, unannounced, bounds>>
  BY <1>1, <1>2 DEF RestInv, bounds
<1>3. CASE \E c \in Channels : ChangeMode(c)
  <2>1. PICK c \in Channels : ChangeMode(c)
    BY <1>3
  <2>2. roomMode' \in [Channels -> BOOLEAN] /\ unannounced' \subseteq Channels
    BY <2>1 DEF ChangeMode, RestInv
  <2>3. /\ scope' = scope /\ modeChanges' = modeChanges + 1 /\ modeChanges < scope.modeChanges
        /\ scope.modeChanges \in Nat
    BY <2>1, FacilitationAssumption DEF ChangeMode, RestInv, Scope
  <2> QED
    BY <1>1, <2>2, <2>3 DEF RestInv
<1>4. CASE \E u \in Users, c \in Channels : ReconcileRead(u, c)
  BY <1>1, <1>4 DEF ReconcileRead, WaitFor, RestInv, bounds
<1> QED
  BY <1>2, <1>3, <1>4, ModesKept

-----------------------------------------------------------------------------
(* The inductive invariant: the rooms with their lanterns and stages, the waiting
   handlers, the side fires, and the rest. *)

IInv == RoomInv /\ TaskInv /\ FireInv /\ RestInv

(* The initial state satisfies the inductive invariant. *)
LEMMA InitHolds ==
  ASSUME Init
  PROVE  IInv
<1>1. <<>> \in Seq(Users) /\ IsInjective(<<>>)
  BY DEF IsInjective
<1>2. ChannelOK(<<>>, None, None)
  BY <1>1 DEF ChannelOK, LanternFits, StageSuits, StageFits
<1>3. RoomInv
  BY <1>1, <1>2 DEF Init, RoomInv
<1>4. TaskInv
  BY DEF Init, TaskInv, TargetsFit, AttachedIsLive
<1>5. FireInv
  <2>1. \A o \in OffshootIds : offshoot[o] = None
    BY DEF Init
  <2>2. \A c \in Channels : Fires(offshoot, c) = {}
    BY <2>1 DEF Fires
  <2>3. \A c \in Channels : /\ IsFiniteSet(Fires(offshoot, c))
                            /\ Cardinality(Fires(offshoot, c)) <= MaxOffshootsPerParent
    BY <2>2, FS_EmptySet, FacilitationAssumption
  <2>4. /\ offshoot \in [OffshootIds -> Offshoot \cup {None}]
        /\ membership \in [Users -> Assignment \cup {None}]
        /\ \A u \in Users : membership[u] = None
    BY DEF Init
  <2> QED
    BY <2>1, <2>3, <2>4 DEF FireInv, FiresAgree, FiresSeated
<1>6. RestInv
  <2>1. scope.modeChanges \in Nat
    BY FacilitationAssumption DEF Init, Scope
  <2> QED
    BY <2>1 DEF Init, RestInv
<1> QED
  BY <1>3, <1>4, <1>5, <1>6 DEF IInv

(* Every step keeps the inductive invariant. *)
LEMMA StepHolds ==
  ASSUME IInv, [Next]_vars
  PROVE  IInv'
<1>1. RoomInv'
  BY RoomStep DEF IInv
<1>2. TaskInv'
  BY TasksStep DEF IInv, RestInv
<1>3. FireInv'
  BY FireStep DEF IInv
<1>4. RestInv'
  BY RestStep DEF IInv
<1> QED
  BY <1>1, <1>2, <1>3, <1>4 DEF IInv

(* The invariant of every behaviour. *)
LEMMA Invariance == Spec => []IInv
<1>1. Init => IInv
  BY InitHolds
<1>2. IInv /\ [Next]_vars => IInv'
  BY StepHolds
<1> QED
  BY <1>1, <1>2, PTL DEF Spec

(* The maps of realtime/server.ts keep their types: a room's seats and a stage's
   speakers list nobody twice, and the records they hold name users, channels and
   side fires only. *)
THEOREM FacilitationTypeCorrect == Spec => []TypeOK
<1>1. IInv => TypeOK
  <2> SUFFICES ASSUME IInv PROVE TypeOK
    OBVIOUS
  <2>1. \A c \in Channels : /\ IsInjective(room[c])
                            /\ stage[c] # None => IsInjective(stage[c].speakers)
    BY DEF IInv, RoomInv, ChannelOK, StageSuits
  <2>2. /\ room \in [Channels -> Seq(Users)]
        /\ lantern \in [Channels -> Lantern \cup {None}]
        /\ stage \in [Channels -> Stage \cup {None}]
    BY DEF IInv, RoomInv
  <2>3. /\ offshoot \in [OffshootIds -> Offshoot \cup {None}]
        /\ membership \in [Users -> Assignment \cup {None}]
    BY DEF IInv, FireInv, FiresAgree
  <2> QED
    BY <2>1, <2>2, <2>3 DEF TypeOK, IInv, TaskInv, RestInv
<1> QED
  BY <1>1, Invariance, PTL

(* removeFromLantern, advanceLantern and the handlers of the lantern keep its host and
   its queue in the room, whichever way a user goes and however late a pass comes. *)
THEOREM LanternStaysWithRoom == Spec => []LanternFollowsRoom
<1>1. IInv => LanternFollowsRoom
  BY DEF IInv, RoomInv, ChannelOK, LanternFits, LanternFollowsRoom, Present
<1> QED
  BY <1>1, Invariance, PTL

(* removeFromStage, stage:promote and the reconciliation keep the host, the speakers and
   the raised hands in the room, and the speakers within their limit. *)
THEOREM StageStaysWithRoom == Spec => []StageFollowsRoom
<1>1. IInv => StageFollowsRoom
  BY DEF IInv, RoomInv, ChannelOK, StageSuits, StageFits, StageFollowsRoom, Present
<1> QED
  BY <1>1, Invariance, PTL

(* leaveOffshoot, closeOffshoot and the handlers of the side fires keep the two maps in
   agreement with each other and with the seats, within their limits. *)
THEOREM SideFiresStayAgreed == Spec => []SideFiresAgree
<1>1. IInv => SideFiresAgree
  <2> SUFFICES ASSUME IInv PROVE SideFiresAgree
    OBVIOUS
  <2>1. FiresAgree(offshoot, membership) /\ FiresSeated(offshoot, room)
    BY DEF IInv, FireInv
  <2>2. \A c \in Channels : Fires(offshoot, c) = OffshootsOf(c)
    BY DEF Fires, OffshootsOf
  <2>3. \A c \in Channels : Cardinality(OffshootsOf(c)) <= MaxOffshootsPerParent
    BY <2>1, <2>2 DEF FiresAgree
  <2>4. \A o \in OffshootIds : offshoot[o] # None =>
          offshoot[o].members \subseteq Present(offshoot[o].channel)
    BY <2>1 DEF FiresSeated, Present
  <2> QED
    BY <2>1, <2>3, <2>4 DEF FiresAgree, SideFiresAgree
<1> QED
  BY <1>1, Invariance, PTL

(* advanceLantern, removeFromLantern and a pass without a wait hand the lantern only to
   somebody who is there: a holder who is away took it from a late lantern:pass. *)
THEOREM HolderLostOnlyByLatePass == Spec => HolderStrandedByLatePass
<1>1. IInv /\ [Next]_vars => [\A c \in Channels : HolderAway(c)' /\ ~HolderAway(c) =>
       \E t \in tasks : /\ t.kind = "pass" /\ t.channel = c /\ t.attached
                        /\ tasks' = tasks \ {t}
                        /\ lantern'[c].holder = t.target]_vars
  BY RoomStep DEF IInv, HolderStep, LatePass
<1> QED
  BY <1>1, Invariance, PTL DEF Spec, HolderStrandedByLatePass

-----------------------------------------------------------------------------
(* The mode and the stage *)

InStep(c) == StageInStep(c, room[c], stage[c], roomMode[c])
Reconciling(c) == \E t \in tasks : t.kind = "reconcile" /\ t.channel = c

(* Handlers that are not removed keep waiting, attached or not. *)
LEMMA ReconcilesStay ==
  ASSUME TaskInv, NEW c \in Channels, NEW X,
         \A t \in X \cap tasks : ~(t.kind = "reconcile" /\ t.channel = c),
         Reconciling(c),
         tasks \ X \subseteq tasks' \/ tasks' = Detached(tasks \ X)
  PROVE  Reconciling(c)'
<1>1. PICK t \in tasks : t.kind = "reconcile" /\ t.channel = c
  BY DEF Reconciling
<1>2. t \in tasks \ X /\ t \in Task
  BY <1>1 DEF TaskInv
<1>3. CASE tasks \ X \subseteq tasks'
  BY <1>1, <1>2, <1>3 DEF Reconciling
<1>4. CASE tasks' = Detached(tasks \ X)
  <2> DEFINE live == t.attached /\ CASE t.kind \in {"pass", "stop"} -> lantern'[t.channel] # None
                                     [] t.kind \in {"promote", "demote"} -> stage'[t.channel] # None
                                     [] OTHER -> TRUE
             t2 == [t EXCEPT !.attached = live]
  <2>1. t2 \in tasks'
    BY <1>2, <1>4 DEF Detached
  <2> HIDE DEF live
  <2>2. t2.kind = t.kind /\ t2.channel = t.channel
    BY <1>2 DEF Task
  <2> HIDE DEF t2
  <2> QED
    BY <1>1, <2>1, <2>2 DEF Reconciling
<1> QED
  BY <1>3, <1>4

(* A handler that waits to reconcile a room waits until it does. *)
LEMMA ReconcilesWait ==
  ASSUME TaskInv, [Next]_vars, NEW c \in Channels, Reconciling(c)
  PROVE  Reconciling(c)' \/ \E t \in tasks : ReconcileDone(t) /\ t.channel = c
<1>0. tasks \ {} = tasks
  OBVIOUS
<1>1. ASSUME NEW t \in tasks, tasks' = tasks \ {t} \/ tasks' = Detached(tasks \ {t}),
             t.kind # "reconcile" \/ ReconcileDone(t)
      PROVE  Reconciling(c)' \/ \E w \in tasks : ReconcileDone(w) /\ w.channel = c
  <2>1. CASE t.kind = "reconcile" /\ t.channel = c
    BY <1>1, <2>1
  <2>2. CASE ~(t.kind = "reconcile" /\ t.channel = c)
    <3>1. \A w \in {t} \cap tasks : ~(w.kind = "reconcile" /\ w.channel = c)
      BY <2>2
    <3>2. tasks \ {t} \subseteq tasks' \/ tasks' = Detached(tasks \ {t})
      BY <1>1
    <3> QED
      BY <3>1, <3>2, ReconcilesStay
  <2> QED
    BY <2>1, <2>2
<1>2. ASSUME tasks \subseteq tasks' \/ tasks' = Detached(tasks)
      PROVE  Reconciling(c)'
  <2>1. tasks \ {} \subseteq tasks' \/ tasks' = Detached(tasks \ {})
    BY <1>0, <1>2
  <2>2. \A w \in {} \cap tasks : ~(w.kind = "reconcile" /\ w.channel = c)
    OBVIOUS
  <2> QED
    BY <2>1, <2>2, ReconcilesStay
<1>3. CASE LanternMoves
  <2>1. CASE \E u \in Users, d \in Channels :
               \/ LanternStart(u, d) \/ LanternRequest(u, d)
               \/ (\E v \in Users : LanternPass(u, v, d))
               \/ LanternRelease(u, d) \/ LanternStop(u, d)
    BY <1>2, <2>1 DEF LanternStart, LanternRequest, LanternPass, LanternRelease, LanternStop
  <2>2. CASE \E t \in tasks : LanternPassDone(t) \/ LanternStopDone(t)
    BY <1>1, <2>2 DEF LanternPassDone, LanternStopDone, Resume
  <2> QED
    BY <1>3, <2>1, <2>2 DEF LanternMoves
<1>4. CASE StageMoves
  <2>1. CASE \E u \in Users, d \in Channels :
               \/ StageRequest(u, d) \/ StageWithdraw(u, d)
               \/ (\E v \in Users : StagePromote(u, v, d))
               \/ (\E v \in Users : StageDemote(u, v, d))
    BY <1>2, <2>1 DEF StageRequest, StageWithdraw, StagePromote, StageDemote
  <2>2. CASE \E t \in tasks : StagePromoteDone(t) \/ StageDemoteDone(t) \/ ReconcileDone(t)
    BY <1>1, <2>2 DEF StagePromoteDone, StageDemoteDone, ReconcileDone, Resume
  <2> QED
    BY <1>4, <2>1, <2>2 DEF StageMoves
<1>5. CASE Vacates \/ Moves
  BY <1>2, <1>5 DEF Vacates, Leave, Evict, VacateRoom, Moves, Move
<1>6. CASE Joins
  <2>1. PICK t \in tasks, from \in Channels \cup {None} : JoinComplete(t, from)
    BY <1>6 DEF Joins
  <2>2. t.kind # "reconcile" /\ tasks' = Detached(tasks \ {t})
    BY <2>1 DEF JoinComplete
  <2> QED
    BY <1>1, <2>2
<1>7. CASE Waits
  <2>1. tasks \subseteq tasks'
    BY <1>7 DEF Waits, JoinRead, LanternPassRead, LanternStopRead, StagePromoteRead, StageDemoteRead,
           ReconcileRead, OffshootCloseRead, WaitFor
  <2> QED
    BY <1>2, <2>1
<1>8. CASE FireMoves
  <2>1. CASE \E t \in tasks : OffshootCloseDone(t)
    BY <1>1, <2>1 DEF OffshootCloseDone, Resume
  <2>2. CASE ~\E t \in tasks : OffshootCloseDone(t)
    BY <1>2, <1>8, <2>2 DEF FireMoves, OffshootCreate, OffshootJoin, OffshootLeave, OffshootClose
  <2> QED
    BY <2>1, <2>2
<1>9. CASE Others
  <2>1. CASE \E t \in tasks : Refused(t)
    BY <1>1, <2>1 DEF Refused, Resume
  <2>2. CASE \E d \in Channels : ChangeMode(d)
    BY <1>2, <2>2 DEF ChangeMode
  <2> QED
    BY <1>9, <2>1, <2>2 DEF Others
<1>10. CASE UNCHANGED vars
  BY <1>2, <1>10 DEF vars
<1> QED
  BY <1>3, <1>4, <1>5, <1>6, <1>7, <1>8, <1>9, <1>10, StepKinds

Excused(c) == InStep(c) \/ c \in drifted

(* A room that was suspected of drifting is in step, or recorded as drifted. *)
LEMMA DriftExcuses ==
  ASSUME NEW X, NEW c \in drifted \cup X, Drift(X)
  PROVE  Excused(c)'
  BY DEF Drift, Excused, InStep

(* A room whose seats, stage and mode are as before is excused as before. *)
LEMMA SameExcused ==
  ASSUME NEW c, Excused(c), room'[c] = room[c], stage'[c] = stage[c], roomMode'[c] = roomMode[c],
         UNCHANGED drifted \/ \E X : Drift(X)
  PROVE  Excused(c)'
<1>1. CASE InStep(c)
  BY <1>1 DEF Excused, InStep
<1>2. CASE c \in drifted /\ \E X : Drift(X)
  BY <1>2, DriftExcuses
<1>3. CASE c \in drifted /\ UNCHANGED drifted
  BY <1>3 DEF Excused
<1> QED
  BY <1>1, <1>2, <1>3 DEF Excused

(* A room that u has left. *)
LEMMA VacatedExcused ==
  ASSUME RoomInv, NEW u \in Users, NEW c \in Channels, u \in Present(c), Excused(c),
         room'[c] = RoomWithout(room[c], u),
         stage'[c] = StageWithout(stage[c], room'[c], u),
         roomMode'[c] = roomMode[c], \E X : Drift(X)
  PROVE  Excused(c)'
<1>1. CASE c \in drifted
  BY <1>1, DriftExcuses
<1>2. CASE InStep(c)
  <2>1. room[c] \in Seq(Users) /\ StageSuits(stage[c], room[c])
    BY StageChannel
  <2>2. room'[c] # <<>> => (stage'[c] # None <=> stage[c] # None)
    BY <2>1, StageWithoutFits
  <2>3. room[c] # <<>>
    BY <2>1, Heads DEF Present
  <2> QED
    BY <1>2, <2>2, <2>3 DEF Excused, InStep, StageInStep
<1> QED
  BY <1>1, <1>2 DEF Excused

(* The room that a join enters. *)
LEMMA JoinedExcused ==
  ASSUME RoomInv, TaskInv, NEW t \in tasks, NEW from \in Channels \cup {None},
         JoinComplete(t, from), roomMode \in [Channels -> BOOLEAN], Excused(t.channel)
  PROVE  Excused(t.channel)'
<1> DEFINE u == t.user
           c == t.channel
           opened == [host |-> u, speakers |-> <<u>>, queue |-> <<>>]
<1>1. c \in Channels /\ u \in Users /\ from # c /\ roomMode[c] \in BOOLEAN /\ t.stageMode \in BOOLEAN
  BY DEF TaskInv, Task, JoinComplete
<1>2. /\ stage'[c] = IF t.stageMode /\ stage[c] = None THEN opened ELSE stage[c]
      /\ roomMode' = roomMode
  BY <1>1 DEF JoinComplete
<1>3. Drift(IF t.stageMode # roomMode[c] THEN {c} ELSE {})
  BY DEF JoinComplete
<1>4. CASE c \in drifted \/ t.stageMode # roomMode[c]
  BY <1>3, <1>4, DriftExcuses
<1>5. CASE InStep(c) /\ t.stageMode = roomMode[c]
  <2>1. room[c] \in Seq(Users) /\ StageSuits(stage[c], room[c])
    BY <1>1, StageChannel
  <2>2. room[c] = <<>> => stage[c] = None
    BY <2>1, Heads DEF StageSuits, StageFits
  <2>3. opened # None
    <3>1. <<u>> \in Seq(Users) /\ <<>> \in Seq(Users)
      BY <1>1, Singles
    <3>2. opened \in Stage
      BY <1>1, <3>1 DEF Stage
    <3> QED
      BY <3>2, FacilitationAssumption
  <2> HIDE DEF opened
  <2> QED
    BY <1>1, <1>2, <1>5, <2>2, <2>3 DEF Excused, InStep, StageInStep
<1> QED
  BY <1>4, <1>5 DEF Excused

(* The room that a reconciliation was for. *)
LEMMA ReconciledExcused ==
  ASSUME RoomInv, TaskInv, NEW t \in tasks, ReconcileDone(t)
  PROVE  Excused(t.channel)'
<1> DEFINE c == t.channel
<1>1. c \in Channels /\ t.user \in Users /\ t.stageMode \in BOOLEAN
  BY DEF TaskInv, Task
<1>2. /\ stage'[c] = StageReconciled(stage[c], room[c], t.user, t.stageMode)
      /\ roomMode' = roomMode /\ room' = room
      /\ Drift(IF t.stageMode # roomMode[c] THEN {c} ELSE {})
  BY <1>1 DEF ReconcileDone, RoomInv
<1>3. CASE t.stageMode # roomMode[c]
  BY <1>2, <1>3, DriftExcuses
<1>4. CASE t.stageMode = roomMode[c]
  <2>1. room[c] \in Seq(Users) /\ StageSuits(stage[c], room[c])
    BY <1>1, StageChannel
  <2>2. room[c] # <<>> => (stage'[c] # None <=> t.stageMode)
    BY <1>1, <1>2, <2>1, ReconciledFits
  <2> QED
    BY <1>2, <1>4, <2>2 DEF Excused, InStep, StageInStep
<1> QED
  BY <1>3, <1>4

(* Nothing but a change of its mode takes an excused room out of step. *)
LEMMA ExcusedStays ==
  ASSUME RoomInv, TaskInv, roomMode \in [Channels -> BOOLEAN], [Next]_vars,
         NEW c \in Channels, Excused(c)
  PROVE  Excused(c)' \/ ChangeMode(c)
<1>1. CASE LanternMoves
  <2>1. UNCHANGED <<room, stage, roomMode, drifted>>
    BY <1>1 DEF LanternMoves, LanternStart, LanternRequest, LanternPass, LanternRelease, LanternStop,
           LanternPassDone, LanternStopDone, LanternStep
  <2> QED
    BY <2>1, SameExcused
<1>2. CASE StageMoves
  <2>1. CASE \E t \in tasks : ReconcileDone(t)
    <3>1. PICK t \in tasks : ReconcileDone(t)
      BY <2>1
    <3>2. CASE t.channel = c
      BY <3>1, <3>2, ReconciledExcused
    <3>3. CASE t.channel # c
      <4>1. /\ room'[c] = room[c] /\ stage'[c] = stage[c] /\ roomMode'[c] = roomMode[c]
        BY <3>1, <3>3 DEF ReconcileDone, RoomInv
      <4>2. \E X : Drift(X)
        BY <3>1 DEF ReconcileDone
      <4> QED
        BY <4>1, <4>2, SameExcused
    <3> QED
      BY <3>2, <3>3
  <2>2. CASE ~\E t \in tasks : ReconcileDone(t)
    <3>1. UNCHANGED <<roomMode, drifted>>
      BY <1>2, <2>2 DEF StageMoves, StageRequest, StageWithdraw, StagePromote, StageDemote,
             StagePromoteDone, StageDemoteDone, StageStep
    <3>0. PICK d \in Channels : \E s : StageChanges(d, s)
      BY <1>2, StageStepFits
    <3>2. PICK s : StageChanges(d, s)
      BY <3>0
    <3>3. /\ room' = room
          /\ stage'[c] # None <=> stage[c] # None
      BY <2>2, <3>2 DEF StageChanges, RoomInv
    <3> QED
      BY <3>1, <3>3 DEF Excused, InStep, StageInStep
  <2> QED
    BY <2>1, <2>2
<1>3. CASE Vacates
  <2>1. PICK u \in Users, d \in Channels : u \in Present(d) /\ VacateRoom(u, d)
    BY <1>3 DEF Vacates, Leave, Evict
  <2>2. \E X : Drift(X)
    BY <2>1 DEF VacateRoom
  <2>3. CASE d = c
    <3>1. /\ room'[c] = RoomWithout(room[c], u)
          /\ stage'[c] = StageWithout(stage[c], room'[c], u)
          /\ roomMode'[c] = roomMode[c]
      BY <2>1, <2>3 DEF VacateRoom, RoomInv
    <3> QED
      BY <2>1, <2>2, <2>3, <3>1, VacatedExcused
  <2>4. CASE d # c
    <3>1. /\ room'[c] = room[c] /\ stage'[c] = stage[c] /\ roomMode'[c] = roomMode[c]
      BY <2>1, <2>4 DEF VacateRoom, RoomInv
    <3> QED
      BY <2>2, <3>1, SameExcused
  <2> QED
    BY <2>3, <2>4
<1>4. CASE Moves
  <2>1. PICK u \in Users, from \in Channels, to \in Channels : Move(u, from, to)
    BY <1>4 DEF Moves
  <2>2. Drift({to}) /\ from # to /\ u \in Present(from) /\ roomMode' = roomMode
    BY <2>1 DEF Move
  <2>3. CASE c = to
    BY <2>2, <2>3, DriftExcuses
  <2>4. CASE c = from
    <3>1. /\ room'[c] = RoomWithout(room[c], u)
          /\ stage'[c] = StageWithout(stage[c], room'[c], u)
      BY <2>1, <2>2, <2>4 DEF Move, RoomInv
    <3> QED
      BY <2>2, <2>4, <3>1, VacatedExcused
  <2>5. CASE c # from /\ c # to
    <3>1. room'[c] = room[c] /\ stage'[c] = stage[c]
      BY <2>1, <2>5 DEF Move, RoomInv
    <3> QED
      BY <2>2, <3>1, SameExcused
  <2> QED
    BY <2>3, <2>4, <2>5
<1>5. CASE Joins
  <2>1. PICK t \in tasks, from \in Channels \cup {None} : JoinComplete(t, from)
    BY <1>5 DEF Joins
  <2>2. CASE c = t.channel
    BY <2>1, <2>2, JoinedExcused
  <2>3. (\E X : Drift(X)) /\ roomMode' = roomMode
    BY <2>1 DEF JoinComplete
  <2>4. CASE c = from
    <3>1. /\ room'[c] = RoomWithout(room[c], t.user)
          /\ stage'[c] = StageWithout(stage[c], room'[c], t.user)
          /\ t.user \in Present(c)
      BY <2>1, <2>4, FacilitationAssumption DEF JoinComplete
    <3>2. t.user \in Users
      BY DEF TaskInv, Task
    <3> QED
      BY <2>3, <3>1, <3>2, VacatedExcused
  <2>5. CASE c # t.channel /\ c # from
    <3>1. room'[c] = room[c] /\ stage'[c] = stage[c]
      BY <2>1, <2>5 DEF JoinComplete
    <3> QED
      BY <2>3, <3>1, SameExcused
  <2> QED
    BY <2>2, <2>4, <2>5
<1>6. CASE Waits
  <2>1. UNCHANGED <<room, stage, roomMode, drifted>>
    BY <1>6, WaitsKeepsRooms DEF rooms
  <2> QED
    BY <2>1, SameExcused
<1>7. CASE FireMoves
  BY <1>7, FireMovesKeepsRooms, SameExcused
<1>8. CASE Others
  <2>1. CASE \E t \in tasks : Refused(t)
    <3>1. UNCHANGED <<room, stage, roomMode, drifted>>
      BY <2>1 DEF Refused, rooms
    <3> QED
      BY <3>1, SameExcused
  <2>2. CASE \E d \in Channels : ChangeMode(d)
    <3>1. PICK d \in Channels : ChangeMode(d)
      BY <2>2
    <3>2. CASE d # c
      <4>1. UNCHANGED <<room, stage, drifted>> /\ roomMode'[c] = roomMode[c]
        BY <3>1, <3>2 DEF ChangeMode, rooms
      <4> QED
        BY <4>1, SameExcused
    <3> QED
      BY <3>1, <3>2
  <2> QED
    BY <1>8, <2>1, <2>2 DEF Others
<1>9. CASE UNCHANGED vars
  BY <1>9, SameExcused DEF vars, rooms
<1> QED
  BY <1>1, <1>2, <1>3, <1>4, <1>5, <1>6, <1>7, <1>8, <1>9, StepKinds

(* The invariant of the modes: a room is excused, its change is to be announced, or a
   handler is to carry the announcement out. *)
LEMMA ModeStep ==
  ASSUME IInv, [Next]_vars, StageFollowsMode
  PROVE  StageFollowsMode'
<1> SUFFICES ASSUME NEW c \in Channels
             PROVE  Excused(c)' \/ c \in unannounced' \/ Reconciling(c)'
  BY DEF StageFollowsMode, Excused, InStep, Reconciling
<1>0. RoomInv /\ TaskInv /\ roomMode \in [Channels -> BOOLEAN]
  BY DEF IInv, RestInv
<1>1. Excused(c) \/ c \in unannounced \/ Reconciling(c)
  BY DEF StageFollowsMode, Excused, InStep, Reconciling
<1>2. CASE Excused(c)
  <2>1. ChangeMode(c) => c \in unannounced'
    BY DEF ChangeMode
  <2> QED
    BY <1>0, <1>2, <2>1, ExcusedStays
<1>3. CASE c \in unannounced
  <2>1. CASE UNCHANGED unannounced \/ \E d \in Channels : ChangeMode(d)
    BY <1>3, <2>1 DEF ChangeMode
  <2>2. CASE \E u \in Users, d \in Channels : ReconcileRead(u, d)
    <3>1. PICK u \in Users, d \in Channels : ReconcileRead(u, d)
      BY <2>2
    <3> DEFINE t == Asked("reconcile", d, u, None, roomMode[d])
    <3>2. t \in tasks' /\ t.kind = "reconcile" /\ t.channel = d
      BY <3>1 DEF ReconcileRead, WaitFor, Asked
    <3>3. d = c => Reconciling(c)'
      BY <3>2 DEF Reconciling
    <3>4. d # c => c \in unannounced'
      BY <1>3, <3>1 DEF ReconcileRead
    <3> QED
      BY <3>3, <3>4
  <2> QED
    BY <2>1, <2>2, ModesKept
<1>4. CASE Reconciling(c)
  BY <1>0, <1>4, ReconcilesWait, ReconciledExcused
<1> QED
  BY <1>1, <1>2, <1>3, <1>4

(* voice:join, mod:move-user and channels:updated: once the last change of a room's mode
   has been announced and carried out, an occupied room has a stage exactly when its
   mode says so, unless a stale answer or a move left it out of step. *)
THEOREM StageStaysWithMode == Spec => []StageFollowsMode
<1>1. Init => StageFollowsMode
  BY DEF Init, StageFollowsMode, StageInStep
<1>2. IInv /\ StageFollowsMode /\ [Next]_vars => StageFollowsMode'
  BY ModeStep
<1> QED
  BY <1>1, <1>2, Invariance, PTL DEF Spec
=============================================================================
