--------------------------- MODULE TimelineProofs ---------------------------
(***************************************************************************)
(* What holds of Timeline for every number of pages, edits, faults and     *)
(* openings: the type invariant, and that a page that missed nothing shows *)
(* what the database says once nothing is on its way.                      *)
(*                                                                         *)
(* The second says nothing of the states in between, so it needs to be     *)
(* told what a page waits for.  A page that has loaded the channel and is  *)
(* behind has the news on its way to it, one without the message has the   *)
(* insertion on its way, and one that is up to date shows the row, unless  *)
(* it shows an edit that is still to be answered.                          *)
(***************************************************************************)
EXTENDS Timeline, ListsProofs, TLAPS

(* A notice of kind k, of revision v, on its way to the page t. *)
OnItsWay(t, k, v) ==
  \/ \E r \in requests : r.at = "done" /\ r.kind = k /\ r.rev = v
  \/ \E u \in Tabs \ {t} : [kind |-> k, rev |-> v] \in buffered[u]
  \/ \E q \in relays : q.from # t /\ q.kind = k /\ q.rev = v

News(t) == \E k \in Kinds : (k # "send" \/ rev = 1) /\ OnItsWay(t, k, rev)
Insertion(t) == \E v \in Revisions : OnItsWay(t, "send", v)

Marked(list) == Pending \in ToSet(list)

RowOK ==
  /\ rev = 0 => /\ row = None /\ relays = {}
                /\ \A t \in Tabs : buffered[t] = {}
  /\ rev = 1 => row # None
  /\ scheduled => rev = 0 /\ requests = {}
  /\ row # None => /\ rev <= edits + 1
                   /\ (\E r \in requests : r.kind = "edit" /\ r.at = "asked") => rev <= edits
  /\ rev <= edits + 2

NoticeOK(k, v) ==
  /\ v \in 1..rev
  /\ k = "delete" => row = None /\ v = rev
  /\ k # "delete" /\ v = rev => row # None

AskedOK(r) ==
  /\ r.kind = "send" <=> rev = 0
  /\ r.mounted => r.rev <= told[r.tab]
  /\ r.mounted /\ r.kind = "edit" => Has(view[r.tab]) \/ row = None

RequestOK(r) ==
  /\ r.kind # "delete" => r.tab = Author
  /\ r.kind = "send" => r.content = 0
  /\ r.kind = "edit" => r.content \in Contents /\ r.prev \in Contents
  /\ r.kind = "delete" => r.content = None
  /\ r.at # "done" => AskedOK(r)
  /\ r.at = "found" => r.kind = "delete"
  /\ r.at = "done" => /\ NoticeOK(r.kind, r.rev)
                      /\ r.kind = "send" => r.rev = 1
                      /\ r.rev = rev => row = r.content
  /\ r.mounted => load[r.tab] # "closed"
  /\ r.mounted /\ r.kind = "send" => Marked(view[Author])

RequestsOK ==
  /\ \A r \in requests : RequestOK(r)
  /\ \A r, s \in requests : r.kind = s.kind /\ r.kind # "delete" => r = s
  /\ \A r \in requests : r.kind = "send" =>
       /\ \A q \in relays : q.kind # "send"
       /\ \A t \in Tabs : \A e \in buffered[t] : e.kind # "send"

RelaysOK ==
  /\ \A q \in relays : /\ NoticeOK(q.kind, q.rev)
                       /\ q.at = "read" => /\ q.rev = rev => q.content = row
                                           /\ q.kind # "delete" => q.content \in Contents
  /\ \A t \in Tabs : \A e \in buffered[t] : NoticeOK(e.kind, e.rev)

PageOK(t) ==
  page[t] # None => /\ page[t].rev <= rev
                    /\ page[t].rev = 0 => page[t].content = None
                    /\ page[t].rev = rev => page[t].content = row

ListOK(t) ==
  /\ Marked(view[t]) => t = Author /\ \E r \in requests : r.kind = "send" /\ r.mounted
  /\ t \notin astray \/ load[t] # "done" => Len(view[t]) <= 1
  /\ Has(view[t]) => told[t] # 0

Late(t) == t \in Behind(rev)
Lacks(t) == ~Has(view[t]) /\ (load[t] = "done" \/ (load[t] = "read" /\ page[t].content = None))

Editing(t) == \E r \in requests : r.kind = "edit" /\ r.at = "asked" /\ r.mounted /\ r.tab = t /\ r.rev = told[t]

Follows(t) ==
  /\ Late(t) => News(t)
  /\ Lacks(t) /\ row # None => Insertion(t)
  /\ Has(view[t]) /\ told[t] = rev =>
       /\ Editing(t) \/ view[t] = <<row>>
       /\ \A r \in requests : r.kind = "edit" /\ r.at = "asked" /\ r.mounted /\ r.tab = t /\ r.rev = rev => r.prev = row

IInv ==
  /\ TypeOK /\ RowOK /\ RequestsOK /\ RelaysOK
  /\ \A t \in Tabs : PageOK(t) /\ ListOK(t)
  /\ \A t \in Tabs \ astray : Follows(t)

-----------------------------------------------------------------------------
(* The lists of a page. *)

(* Contents, the placeholder and nothing are told apart. *)
LEMMA Apart ==
  /\ Pending \notin Contents /\ None \notin Contents /\ None # Pending
  /\ Contents \subseteq Entries /\ Pending \in Entries /\ None \notin Entries
  /\ 0 \in Contents /\ Contents \subseteq Nat /\ Revisions \subseteq Nat
BY TimelineAssumption DEF Contents, Entries, Revisions

(* A list of one entry at most is empty, or the message, or its placeholder. *)
LEMMA Short ==
  ASSUME NEW list \in Seq(Entries), Len(list) <= 1
  PROVE  /\ Has(list) => list[1] \in Contents /\ list = <<list[1]>> /\ ~Marked(list)
         /\ Marked(list) => list = <<Pending>> /\ ~Has(list)
         /\ ~Has(list) /\ ~Marked(list) => list = <<>>
<1>1. /\ DOMAIN list = 1..Len(list) /\ Len(list) \in Nat
      /\ \A i \in 1..Len(list) : list[i] \in Entries
  OBVIOUS
<1>2. CASE Len(list) = 0
  <2>1. list = <<>>
    BY <1>2
  <2>2. ~Has(list) /\ ~Marked(list)
    BY <2>1 DEF Has, Marked, ToSet
  <2> QED
    BY <2>1, <2>2
<1>3. CASE Len(list) = 1
  <2>1. DOMAIN list = {1} /\ list[1] \in Entries
    BY <1>1, <1>3
  <2>2. list = <<list[1]>>
    BY <1>1, <1>3
  <2>3. /\ Has(list) <=> list[1] # Pending
        /\ Marked(list) <=> list[1] = Pending
    BY <2>1 DEF Has, Marked, ToSet
  <2> QED
    BY <2>1, <2>2, <2>3, Apart DEF Entries
<1> QED
  BY <1>1, <1>2, <1>3

(* Showing the message with another content changes nothing else. *)
LEMMA PatchedKeeps ==
  ASSUME NEW list \in Seq(Entries), NEW c \in Contents
  PROVE  /\ Patched(list, c) \in Seq(Entries)
         /\ Len(Patched(list, c)) = Len(list)
         /\ Has(Patched(list, c)) <=> Has(list)
         /\ Marked(Patched(list, c)) <=> Marked(list)
         /\ Has(list) /\ Len(list) <= 1 => Patched(list, c) = <<c>>
<1> DEFINE new == Patched(list, c)
<1>1. /\ DOMAIN list = 1..Len(list) /\ Len(list) \in Nat
      /\ \A i \in 1..Len(list) : list[i] \in Entries
  OBVIOUS
<1>2. /\ DOMAIN new = 1..Len(list)
      /\ \A i \in 1..Len(list) : new[i] = IF list[i] = Pending THEN Pending ELSE c
  BY <1>1 DEF Patched
<1>3. new = [i \in 1..Len(list) |-> IF list[i] = Pending THEN Pending ELSE c]
  BY <1>1 DEF Patched
<1>4. new \in Seq(Entries) /\ Len(new) = Len(list)
  BY <1>1, <1>3, Apart
<1>5. Has(new) <=> Has(list)
  BY <1>1, <1>2, Apart DEF Has
<1>6. Marked(new) <=> Marked(list)
  BY <1>1, <1>2, Apart DEF Marked, ToSet
<1> HIDE DEF new
<1>7. ASSUME Has(list), Len(list) <= 1
      PROVE  new = <<c>>
  <2>1. Has(new) /\ Len(new) <= 1
    BY <1>4, <1>5, <1>7
  <2>2. new = <<new[1]>> /\ new[1] \in Contents
    BY <1>4, <2>1, Short
  <2>3. list[1] \in Contents /\ 1 \in 1..Len(list)
    BY <1>1, <1>7, Short DEF Has
  <2>4. new[1] = c
    BY <1>2, <2>3, Apart
  <2> QED
    BY <2>2, <2>4
<1> QED
  BY <1>4, <1>5, <1>6, <1>7 DEF new

(* The answer to the author puts the message where the placeholder was. *)
LEMMA ReplacedKeeps ==
  ASSUME NEW list \in Seq(Entries), NEW c \in Contents
  PROVE  /\ Replaced(list, c) \in Seq(Entries)
         /\ Len(Replaced(list, c)) = Len(list)
         /\ Has(list) \/ Marked(list) => Has(Replaced(list, c))
         /\ ~Marked(Replaced(list, c))
         /\ Marked(list) /\ Len(list) <= 1 => Replaced(list, c) = <<c>>
<1> DEFINE new == Replaced(list, c)
<1>1. /\ DOMAIN list = 1..Len(list) /\ Len(list) \in Nat
      /\ \A i \in 1..Len(list) : list[i] \in Entries
  OBVIOUS
<1>2. /\ DOMAIN new = 1..Len(list)
      /\ \A i \in 1..Len(list) : new[i] = IF list[i] = Pending THEN c ELSE list[i]
  BY <1>1 DEF Replaced
<1>3. new = [i \in 1..Len(list) |-> IF list[i] = Pending THEN c ELSE list[i]]
  BY <1>1 DEF Replaced
<1>4. new \in Seq(Entries) /\ Len(new) = Len(list)
  BY <1>1, <1>3, Apart
<1>5. Has(list) \/ Marked(list) => Has(new)
  BY <1>1, <1>2, Apart DEF Has, Marked, ToSet
<1>6. ~Marked(new)
  BY <1>1, <1>2, Apart DEF Marked, ToSet
<1> HIDE DEF new
<1>7. ASSUME Marked(list), Len(list) <= 1
      PROVE  new = <<c>>
  <2>1. list = <<Pending>>
    BY <1>7, Short
  <2>2. Len(list) = 1 /\ list[1] = Pending
    BY <2>1
  <2>3. new[1] = c
    BY <1>2, <2>2
  <2>4. Has(new) /\ Len(new) <= 1
    BY <1>4, <1>5, <1>7
  <2>5. new = <<new[1]>>
    BY <1>4, <2>4, Short
  <2> QED
    BY <2>3, <2>5
<1> QED
  BY <1>4, <1>5, <1>6, <1>7 DEF new

(* A list without the message keeps the placeholder. *)
LEMMA WithoutKeeps ==
  ASSUME NEW list \in Seq(Entries)
  PROVE  /\ Without(list) \in Seq(Entries)
         /\ Len(Without(list)) <= Len(list)
         /\ ~Has(Without(list))
         /\ Marked(Without(list)) <=> Marked(list)
<1> DEFINE new == Without(list)
<1>1. /\ new \in Seq(Entries) /\ Len(new) <= Len(list)
      /\ ToSet(new) = ToSet(list) \cap {Pending}
  BY OnlyKeeps DEF Without
<1> HIDE DEF new
<1>2. ~Has(new) /\ (Marked(new) <=> Marked(list))
  BY <1>1 DEF Has, Marked, ToSet
<1> QED
  BY <1>1, <1>2 DEF new

(* A list without the placeholder keeps the message. *)
LEMMA WithoutPendingKeeps ==
  ASSUME NEW list \in Seq(Entries)
  PROVE  /\ WithoutPending(list) \in Seq(Entries)
         /\ Len(WithoutPending(list)) <= Len(list)
         /\ Has(WithoutPending(list)) <=> Has(list)
         /\ ~Marked(WithoutPending(list))
<1> DEFINE new == WithoutPending(list)
<1>1. /\ new \in Seq(Entries) /\ Len(new) <= Len(list)
      /\ ToSet(new) = ToSet(list) \ {Pending}
  BY DroppingKeeps DEF WithoutPending
<1> HIDE DEF new
<1>2. ASSUME NEW s
      PROVE  Has(s) <=> ToSet(s) \ {Pending} # {}
  BY DEF Has, ToSet
<1>3. Has(new) <=> Has(list)
  BY <1>1, <1>2
<1>4. ~Marked(new)
  BY <1>1 DEF Marked
<1> QED
  BY <1>1, <1>3, <1>4 DEF new

(* A new entry is put last. *)
LEMMA AppendedKeeps ==
  ASSUME NEW list \in Seq(Entries), NEW e \in Entries
  PROVE  /\ Append(list, e) \in Seq(Entries)
         /\ Len(Append(list, e)) = Len(list) + 1
         /\ Has(Append(list, e)) <=> Has(list) \/ e # Pending
         /\ Marked(Append(list, e)) <=> Marked(list) \/ e = Pending
         /\ ~Has(list) /\ ~Marked(list) /\ Len(list) <= 1 => Append(list, e) = <<e>>
<1> DEFINE new == Append(list, e)
<1>1. /\ new \in Seq(Entries) /\ Len(new) = Len(list) + 1
      /\ ToSet(new) = ToSet(list) \cup {e}
  BY AppendKeeps
<1>2. ASSUME ~Has(list), ~Marked(list), Len(list) <= 1
      PROVE  new = <<e>>
  <2>1. list = <<>>
    BY <1>2, Short
  <2> QED
    BY <2>1
<1> HIDE DEF new
<1>3. ASSUME NEW s
      PROVE  Has(s) <=> ToSet(s) \ {Pending} # {}
  BY DEF Has, ToSet
<1>4. Has(new) <=> Has(list) \/ e # Pending
  BY <1>1, <1>3
<1>5. Marked(new) <=> Marked(list) \/ e = Pending
  BY <1>1 DEF Marked
<1> QED
  BY <1>1, <1>2, <1>4, <1>5 DEF new

(* History goes first, with the message as the database had it. *)
LEMMA MergedKeeps ==
  ASSUME NEW list \in Seq(Entries), NEW p \in Page
  PROVE  /\ Merged(list, p) \in Seq(Entries)
         /\ Len(Merged(list, p)) <= Len(list) + 1
         /\ Has(Merged(list, p)) <=> Has(list) \/ p.content # None
         /\ Marked(Merged(list, p)) <=> Marked(list)
         /\ p.content = None => Merged(list, p) = list
         /\ p.content # None /\ ~Marked(list) => Merged(list, p) = <<p.content>>
<1>1. CASE p.content = None
  <2>1. Merged(list, p) = list
    BY <1>1 DEF Merged
  <2> QED
    BY <1>1, <2>1
<1>2. CASE p.content # None
  <2> DEFINE rest == Without(list)
             new == Merged(list, p)
  <2>1. p.content \in Contents
    BY <1>2 DEF Page
  <2>2. /\ rest \in Seq(Entries) /\ Len(rest) <= Len(list) /\ ~Has(rest)
        /\ Marked(rest) <=> Marked(list)
    BY WithoutKeeps
  <2>3. new = <<p.content>> \o rest
    BY <1>2 DEF Merged
  <2>4. /\ <<p.content>> \in Seq(Entries) /\ ToSet(<<p.content>>) = {p.content}
        /\ Len(<<p.content>>) = 1
    BY <2>1, Apart, Singles
  <2> HIDE DEF rest, new
  <2>5. /\ new \in Seq(Entries)
        /\ ToSet(new) = ToSet(rest) \cup {p.content}
    <3> DEFINE first == <<p.content>>
    <3>1. first \in Seq(Entries) /\ rest \in Seq(Entries) /\ new = first \o rest
      BY <2>2, <2>3, <2>4
    <3>2. ToSet(first) = {p.content}
      BY <2>4
    <3> HIDE DEF first
    <3>3. new \in Seq(Entries) /\ ToSet(new) = ToSet(first) \cup ToSet(rest)
      BY <3>1, ConcatKeeps
    <3> QED
      BY <3>2, <3>3
  <2>6. Len(new) = 1 + Len(rest)
    BY <2>2, <2>3, <2>4
  <2>7. ~Marked(list) => new = <<p.content>>
    <3>1. SUFFICES ASSUME ~Marked(list)
                   PROVE  rest = <<>>
      BY <2>2, <2>3, <2>4
    <3>2. ToSet(rest) = {}
      BY <2>2, <3>1 DEF Has, Marked, ToSet
    <3> QED
      BY <2>2, <3>2, Heads
  <2>8. Has(new) /\ (Marked(new) <=> Marked(list))
    BY <2>1, <2>2, <2>5, Apart DEF Has, Marked, ToSet
  <2> QED
    BY <1>2, <2>2, <2>5, <2>6, <2>7, <2>8 DEF new
<1> QED
  BY <1>1, <1>2

-----------------------------------------------------------------------------
(* What a step that does not concern a request, a notice or a page leaves alone. *)

(* The type invariant in three parts, for the steps to keep one at a time. *)
DataTypes ==
  /\ row \in Contents \cup {None} /\ rev \in Revisions /\ edits \in Contents
  /\ scheduled \in BOOLEAN
  /\ requests \subseteq Request /\ relays \subseteq Relay
  /\ faults \in 0..MaxFaults /\ opens \in 0..MaxOpens

SocketTypes ==
  /\ buffered \in [Tabs -> SUBSET [kind: Kinds, rev: Revisions]]
  /\ \A t \in up : buffered[t] = {}
  /\ room \cup joining \subseteq up /\ up \subseteq Tabs

PageTypes ==
  /\ load \in [Tabs -> {"closed", "asked", "read", "failed", "done"}]
  /\ page \in [Tabs -> Page \cup {None}]
  /\ \A t \in Tabs : page[t] # None <=> load[t] = "read"
  /\ view \in [Tabs -> Seq(Entries)]
  /\ \A t \in Tabs : /\ Len(view[t]) <= 2
                     /\ load[t] = "closed" => view[t] = <<>>
  /\ told \in [Tabs -> 0..rev] /\ astray \subseteq Tabs

(* The type invariant in three parts, each of which few actions touch. *)
LEMMA TypeParts ==
  /\ TypeOK <=> DataTypes /\ SocketTypes /\ PageTypes
  /\ TypeOK' <=> (DataTypes /\ SocketTypes /\ PageTypes)'
<1>1. TypeOK <=> DataTypes /\ SocketTypes /\ PageTypes
  BY Zenon DEF TypeOK, DataTypes, SocketTypes, PageTypes
<1>2. TypeOK' <=> (DataTypes /\ SocketTypes /\ PageTypes)'
  BY Zenon DEF TypeOK, DataTypes, SocketTypes, PageTypes
<1> QED
  BY <1>1, <1>2

(* The bounds of the revisions, and what a placeholder, a content and nothing are. *)
LEMMA Typed ==
  ASSUME TypeOK, RowOK
  PROVE  /\ rev \in Nat /\ edits \in Nat /\ rev <= edits + 2 /\ edits <= MaxEdits
         /\ row \in Contents \cup {None} /\ MaxEdits \in Nat
         /\ \A t \in Tabs : /\ view[t] \in Seq(Entries) /\ Len(view[t]) \in Nat
                            /\ told[t] \in Nat /\ told[t] <= rev
                            /\ page[t] = None \/ page[t] \in Page
                            /\ load[t] = "read" => page[t] \in Page
BY Apart, TimelineAssumption DEF TypeOK, RowOK, Revisions, Contents

(* A page is late if neither a notice nor its page of history told it of the newest
   revision. *)
LEMMA LateMeans ==
  ASSUME NEW t \in Tabs
  PROVE  /\ TypeOK => (Late(t) <=> /\ told[t] < rev
                                  /\ \/ load[t] = "done"
                                     \/ load[t] = "read" /\ page[t].rev < rev)
         /\ TypeOK' => (Late(t)' <=> /\ told'[t] < rev'
                                    /\ \/ load'[t] = "done"
                                       \/ load'[t] = "read" /\ page'[t].rev < rev')
<1>1. ASSUME NEW m \in Nat, NEW n \in Nat, NEW v \in Nat
      PROVE  Larger(m, n) < v <=> m < v /\ n < v
  BY DEF Larger
<1>2. ASSUME TypeOK
      PROVE  /\ told[t] \in Nat /\ rev \in Nat
             /\ load[t] = "read" => page[t].rev \in Nat
  <2>1. /\ told \in [Tabs -> 0..rev] /\ rev \in Revisions
        /\ page \in [Tabs -> Page \cup {None}]
        /\ page[t] # None <=> load[t] = "read"
    BY <1>2 DEF TypeOK
  <2>2. told[t] \in 0..rev /\ page[t] \in Page \cup {None}
    BY <2>1
  <2>3. load[t] = "read" => page[t].rev \in Revisions
    BY <2>1, <2>2 DEF Page
  <2>4. rev \in Nat
    BY <2>1, Apart
  <2>5. told[t] \in Nat
    BY <2>2, <2>4
  <2> QED
    BY <2>3, <2>4, <2>5, Apart
<1>3. ASSUME TypeOK'
      PROVE  /\ told'[t] \in Nat /\ rev' \in Nat
             /\ load'[t] = "read" => page'[t].rev \in Nat
  <2>1. /\ told' \in [Tabs -> 0..rev'] /\ rev' \in Revisions
        /\ page' \in [Tabs -> Page \cup {None}]
        /\ page'[t] # None <=> load'[t] = "read"
    BY <1>3 DEF TypeOK
  <2>2. told'[t] \in 0..rev' /\ page'[t] \in Page \cup {None}
    BY <2>1
  <2>3. load'[t] = "read" => page'[t].rev \in Revisions
    BY <2>1, <2>2 DEF Page
  <2>4. rev' \in Nat
    BY <2>1, Apart
  <2>5. told'[t] \in Nat
    BY <2>2, <2>4
  <2> QED
    BY <2>3, <2>4, <2>5, Apart
<1>4. TypeOK => (Late(t) <=> /\ told[t] < rev
                             /\ load[t] = "done" \/ (load[t] = "read" /\ page[t].rev < rev))
  BY <1>1, <1>2 DEF Late, Behind
<1>5. TypeOK' => (Late(t)' <=> /\ told'[t] < rev'
                               /\ load'[t] = "done" \/ (load'[t] = "read" /\ page'[t].rev < rev'))
  BY <1>1, <1>3 DEF Late, Behind
<1> QED
  BY <1>4, <1>5

(* The cases of a revision that goes up: an early one stays within its bounds. *)
LEMMA RevisionStays ==
  ASSUME NEW n \in Nat, NEW m \in Nat, m <= MaxEdits, n <= m + 2
  PROVE  n \in Revisions
BY TimelineAssumption DEF Revisions

(* A request stays as it was if its page still has the channel open, has not forgotten
   what it was told, and shows the message unless that is gone. *)
LEMMA RequestStays ==
  ASSUME TypeOK, TypeOK', RowOK, RowOK', NEW r \in Request, RequestOK(r),
         row' = row, rev' = rev,
         r.mounted => /\ load[r.tab] # "closed" => load'[r.tab] # "closed"
                      /\ told[r.tab] <= told'[r.tab]
                      /\ Has(view[r.tab]) => Has(view'[r.tab]) \/ row = None,
         r.mounted /\ r.kind = "send" => (Marked(view[Author]) => Marked(view'[Author]))
  PROVE  RequestOK(r)'
<1>1. r.tab \in Tabs /\ r.rev \in Nat
  BY Apart DEF Request
<1>2. /\ told[r.tab] \in Nat /\ told'[r.tab] \in Nat
  BY <1>1, Typed, Apart DEF TypeOK
<1>3. AskedOK(r) => AskedOK(r)'
  BY <1>1, <1>2 DEF AskedOK
<1> QED
  BY <1>1, <1>3 DEF RequestOK, NoticeOK

(* So does a page's list ... *)
LEMMA ListStays ==
  ASSUME NEW t \in Tabs, ListOK(t),
         view'[t] = view[t], told'[t] = told[t], load'[t] = load[t], t \in astray => t \in astray',
         t = Author => \A r \in requests : r.kind = "send" /\ r.mounted =>
                               \E s \in requests' : s.kind = "send" /\ s.mounted
  PROVE  ListOK(t)'
BY DEF ListOK

(* ... and what it waits for, if the news stay on their way to the page ... *)
LEMMA NewsStay ==
  ASSUME NEW t \in Tabs, Follows(t), row' = row, rev' = rev,
         view'[t] = view[t], told'[t] = told[t], load'[t] = load[t], page'[t] = page[t],
         Late(t) /\ News(t) => News(t)',
         Lacks(t) /\ row # None /\ Insertion(t) => Insertion(t)',
         \A r : r.kind = "edit" /\ r.at = "asked" /\ r.mounted /\ r.tab = t =>
                  (r \in requests <=> r \in requests')
  PROVE  Follows(t)'
<1>1. (Late(t) <=> Late(t)') /\ (Lacks(t) <=> Lacks(t)')
  BY DEF Late, Lacks, Behind
<1>2. Editing(t) <=> Editing(t)'
  BY DEF Editing
<1>3. (Late(t) => News(t))' /\ (Lacks(t) /\ row # None => Insertion(t))'
  BY <1>1 DEF Follows
<1>4. (Has(view[t]) /\ told[t] = rev)' <=> Has(view[t]) /\ told[t] = rev
  OBVIOUS
<1>5. (Editing(t) \/ view[t] = <<row>>)' <=> Editing(t) \/ view[t] = <<row>>
  BY <1>2
<1>6. ASSUME Has(view[t]) /\ told[t] = rev
      PROVE  (\A r \in requests : r.kind = "edit" /\ r.at = "asked" /\ r.mounted /\ r.tab = t
                                   /\ r.rev = rev => r.prev = row)'
  BY <1>6 DEF Follows
<1> QED
  BY <1>3, <1>4, <1>5, <1>6 DEF Follows

(* ... as they do if nothing on its way to it is lost. *)
LEMMA FollowsStays ==
  ASSUME NEW t \in Tabs, Follows(t), row' = row, rev' = rev,
         view'[t] = view[t], told'[t] = told[t], load'[t] = load[t], page'[t] = page[t],
         \A k \in Kinds : \A v \in Revisions : OnItsWay(t, k, v) => OnItsWay(t, k, v)',
         rev \in Revisions,
         \A r : r.kind = "edit" /\ r.at = "asked" /\ r.mounted /\ r.tab = t =>
                  (r \in requests <=> r \in requests')
  PROVE  Follows(t)'
<1>1. News(t) => News(t)'
  BY DEF News
<1>2. Insertion(t) => Insertion(t)'
  BY DEF Insertion, Kinds
<1> QED
  BY <1>1, <1>2, NewsStay

(* A step that writes no row, sends nothing and receives nothing. *)
LEMMA QuietKeeps ==
  ASSUME IInv, TypeOK', UNCHANGED <<database, edits, requests, buffered, relays>>,
         \A t \in Tabs : /\ load[t] # "closed" => load'[t] # "closed"
                         /\ told[t] <= told'[t]
                         /\ Has(view[t]) => Has(view'[t])
                         /\ Marked(view[t]) => Marked(view'[t])
  PROVE  /\ RowOK' /\ RequestsOK' /\ RelaysOK'
         /\ \A t, k, v : OnItsWay(t, k, v) <=> OnItsWay(t, k, v)'
<1>1. RowOK'
  BY DEF IInv, RowOK, database
<1>2. RelaysOK'
  BY DEF IInv, RelaysOK, NoticeOK, database
<1>3. \A r \in requests : r \in Request /\ r.tab \in Tabs
  BY DEF IInv, TypeOK, Request
<1>4. ASSUME NEW r \in requests
      PROVE  RequestOK(r)'
  <2>1. RequestOK(r)
    BY DEF IInv, RequestsOK
  <2>2. row' = row /\ rev' = rev
    BY DEF database
  <2>3. r.mounted => /\ load[r.tab] # "closed" => load'[r.tab] # "closed"
                     /\ told[r.tab] <= told'[r.tab]
                     /\ Has(view[r.tab]) => Has(view'[r.tab]) \/ row = None
    BY <1>3
  <2>4. Marked(view[Author]) => Marked(view'[Author])
    BY TimelineAssumption
  <2> QED
    BY <1>1, <1>3, <2>1, <2>2, <2>3, <2>4, RequestStays DEF IInv
<1>5. RequestsOK'
  BY <1>4 DEF IInv, RequestsOK
<1>6. ASSUME NEW t, NEW k, NEW v
      PROVE  OnItsWay(t, k, v) <=> OnItsWay(t, k, v)'
  BY DEF OnItsWay
<1> QED
  BY <1>1, <1>2, <1>5, <1>6

(* The pages that such a step does not touch. *)
LEMMA OtherPages ==
  ASSUME IInv, UNCHANGED <<database, edits, requests, buffered, relays>>, NEW t \in Tabs,
         view'[t] = view[t], told'[t] = told[t], load'[t] = load[t], page'[t] = page[t],
         t \in astray <=> t \in astray'
  PROVE  PageOK(t)' /\ ListOK(t)' /\ (t \notin astray' => Follows(t)')
<1>1. PageOK(t)'
  BY DEF IInv, PageOK, database
<1>2. ListOK(t)'
  <2>1. ListOK(t)
    BY DEF IInv
  <2> QED
    BY <2>1, ListStays
<1>3. ASSUME t \notin astray'
      PROVE  Follows(t)'
  <2>1. Follows(t) /\ rev \in Revisions
    BY <1>3 DEF IInv, TypeOK
  <2>2. row' = row /\ rev' = rev /\ requests' = requests
    BY DEF database
  <2>3. \A k \in Kinds : \A v \in Revisions : OnItsWay(t, k, v) => OnItsWay(t, k, v)'
    BY DEF OnItsWay
  <2> QED
    BY <2>1, <2>2, <2>3, FollowsStays
<1> QED
  BY <1>1, <1>2, <1>3

(* So a step of one page only has to be followed in that page. *)
LEMMA OnePage ==
  ASSUME IInv, TypeOK', UNCHANGED <<database, edits, requests, buffered, relays>>,
         NEW t \in Tabs,
         load[t] # "closed" => load'[t] # "closed",
         told[t] <= told'[t],
         Has(view[t]) => Has(view'[t]),
         Marked(view[t]) => Marked(view'[t]),
         \A u \in Tabs \ {t} :
           /\ view'[u] = view[u] /\ told'[u] = told[u] /\ load'[u] = load[u] /\ page'[u] = page[u]
           /\ u \in astray <=> u \in astray',
         PageOK(t)', ListOK(t)', t \notin astray' => Follows(t)'
  PROVE  IInv'
<1>1. \A u \in Tabs : /\ load[u] # "closed" => load'[u] # "closed"
                      /\ told[u] <= told'[u]
                      /\ Has(view[u]) => Has(view'[u])
                      /\ Marked(view[u]) => Marked(view'[u])
  <2>1. \A u \in Tabs : told[u] \in Nat
    BY Typed DEF IInv
  <2> QED
    BY <2>1
<1>2. RowOK' /\ RequestsOK' /\ RelaysOK'
  BY <1>1, QuietKeeps
<1>3. ASSUME NEW u \in Tabs
      PROVE  PageOK(u)' /\ ListOK(u)' /\ (u \notin astray' => Follows(u)')
  <2>1. CASE u # t
    BY <2>1, OtherPages
  <2>2. CASE u = t
    BY <2>2
  <2> QED
    BY <2>1, <2>2
<1> QED
  BY <1>2, <1>3 DEF IInv

(* A page that is opened shows nothing yet. *)
LEMMA OpenKeeps ==
  ASSUME IInv, NEW t \in Tabs, Open(t)
  PROVE  IInv'
<1>1. TypeOK'
  <2>1. DataTypes /\ SocketTypes /\ PageTypes
    BY TypeParts DEF IInv
  <2>2. DataTypes'
    BY <2>1, TimelineAssumption DEF DataTypes, Open, database
  <2>3. SocketTypes'
    BY <2>1 DEF SocketTypes, Open, Joins
  <2>4. PageTypes'
    BY <2>1 DEF PageTypes, Open, shows, database
  <2> QED
    BY <2>2, <2>3, <2>4, TypeParts
<1>2. /\ load' = [load EXCEPT ![t] = "asked"] /\ page' = page
      /\ view' = view /\ told' = told /\ astray' = astray
      /\ UNCHANGED <<database, edits, requests, buffered, relays>>
  BY DEF Open, shows
<1>3. told[t] \in Nat
  BY Typed DEF IInv
<1>4. /\ load'[t] = "asked" /\ view'[t] = <<>> /\ page'[t] = None
      /\ \A u \in Tabs \ {t} : load'[u] = load[u]
  BY <1>2 DEF Open, IInv, TypeOK
<1>5. ~Has(<<>>) /\ ~Marked(<<>>) /\ Len(<<>>) = 0
  BY DEF Has, Marked, ToSet
<1>6. PageOK(t)' /\ ListOK(t)'
  BY <1>4, <1>5 DEF PageOK, ListOK
<1>7. Follows(t)'
  BY <1>4, <1>5 DEF Follows, Late, Lacks, Behind
<1> QED
  BY <1>1, <1>2, <1>3, <1>4, <1>6, <1>7, OnePage

(* A page of history read now is as new as the database. *)
LEMMA PageReadKeeps ==
  ASSUME IInv, NEW t \in Tabs, PageRead(t)
  PROVE  IInv'
<1> DEFINE p == [content |-> row, rev |-> rev]
<1>0. p \in Page /\ p # None
  <2>1. p \in Page
    BY DEF IInv, TypeOK, Page
  <2>2. Page \subseteq [content: Nat \cup {None}, rev: Nat]
    BY Apart DEF Page
  <2> QED
    BY <2>1, <2>2, TimelineAssumption
<1>1. TypeOK'
  <2>1. DataTypes /\ SocketTypes /\ PageTypes
    BY TypeParts DEF IInv
  <2>2. DataTypes'
    BY <2>1 DEF DataTypes, PageRead, database, bounds
  <2>3. SocketTypes'
    BY <2>1 DEF SocketTypes, PageRead, sockets
  <2>4. PageTypes'
    BY <1>0, <2>1 DEF PageTypes, PageRead, shows, database
  <2> QED
    BY <2>2, <2>3, <2>4, TypeParts
<1>2. /\ load' = [load EXCEPT ![t] = "read"] /\ page' = [page EXCEPT ![t] = p]
      /\ view' = view /\ told' = told /\ astray' = astray
      /\ UNCHANGED <<database, edits, requests, buffered, relays>>
  BY DEF PageRead, shows
<1>3. /\ told[t] \in Nat /\ told[t] <= rev /\ rev \in Nat
  BY Typed DEF IInv
<1>4. /\ load'[t] = "read" /\ page'[t] = p /\ load[t] = "asked"
      /\ \A u \in Tabs \ {t} : load'[u] = load[u] /\ page'[u] = page[u]
  BY <1>2 DEF PageRead, IInv, TypeOK
<1>5. row' = row /\ rev' = rev /\ p.content = row /\ p.rev = rev
  BY <1>2 DEF database
<1> HIDE DEF p
<1>6. PageOK(t)'
  BY <1>3, <1>4, <1>5 DEF PageOK, IInv, RowOK
<1>7. ListOK(t)'
  BY <1>2, <1>4 DEF ListOK, IInv
<1>8. ASSUME t \notin astray'
      PROVE  Follows(t)'
  <2>1. Follows(t)
    BY <1>2, <1>8 DEF IInv
  <2>2. ~Late(t)'
    BY <1>2, <1>3, <1>4, <1>5 DEF Late, Behind, Larger
  <2>3. ~(Lacks(t) /\ row # None)'
    BY <1>4, <1>5 DEF Lacks
  <2> QED
    BY <1>2, <1>5, <2>1, <2>2, <2>3 DEF Follows, Editing
<1> QED
  BY <1>1, <1>2, <1>3, <1>4, <1>6, <1>7, <1>8, OnePage

(* Without the page of history the page waits for nothing. *)
LEMMA PageFailsKeeps ==
  ASSUME IInv, NEW t \in Tabs, PageFails(t)
  PROVE  IInv'
<1>1. TypeOK'
  <2>1. DataTypes /\ SocketTypes /\ PageTypes
    BY TypeParts DEF IInv
  <2>2. DataTypes'
    BY <2>1, TimelineAssumption DEF DataTypes, PageFails, database, Fault
  <2>3. SocketTypes'
    BY <2>1 DEF SocketTypes, PageFails, sockets
  <2>4. PageTypes'
    BY <2>1 DEF PageTypes, PageFails, shows, database
  <2> QED
    BY <2>2, <2>3, <2>4, TypeParts
<1>2. /\ load' = [load EXCEPT ![t] = "failed"] /\ page' = [page EXCEPT ![t] = None]
      /\ view' = view /\ told' = told /\ astray' = astray
      /\ UNCHANGED <<database, edits, requests, buffered, relays>>
  BY DEF PageFails, shows
<1>3. told[t] \in Nat
  BY Typed DEF IInv
<1>4. /\ load'[t] = "failed" /\ page'[t] = None /\ load[t] # "done"
      /\ \A u \in Tabs \ {t} : load'[u] = load[u] /\ page'[u] = page[u]
  BY <1>2 DEF PageFails, IInv, TypeOK
<1>5. PageOK(t)' /\ ListOK(t)'
  BY <1>2, <1>4 DEF PageOK, ListOK, IInv
<1>6. ASSUME t \notin astray'
      PROVE  Follows(t)'
  <2>1. Follows(t)
    BY <1>2, <1>6 DEF IInv
  <2>2. row' = row /\ rev' = rev
    BY <1>2 DEF database
  <2> QED
    BY <1>2, <1>4, <2>1, <2>2 DEF Follows, Late, Lacks, Behind, Editing
<1> QED
  BY <1>1, <1>2, <1>3, <1>4, <1>5, <1>6, OnePage

(* "Try again" starts with an empty list. *)
LEMMA RetryKeeps ==
  ASSUME IInv, NEW t \in Tabs, Retry(t)
  PROVE  IInv'
<1>1. TypeOK'
  <2>1. DataTypes /\ SocketTypes /\ PageTypes
    BY TypeParts DEF IInv
  <2>2. DataTypes'
    BY <2>1 DEF DataTypes, Retry, database, bounds
  <2>3. SocketTypes'
    BY <2>1 DEF SocketTypes, Retry, sockets
  <2>4. PageTypes'
    BY <2>1 DEF PageTypes, Retry, shows, database
  <2> QED
    BY <2>2, <2>3, <2>4, TypeParts
<1>2. /\ load' = [load EXCEPT ![t] = "asked"] /\ page' = page
      /\ view' = view /\ told' = told /\ astray' = astray /\ view[t] = <<>>
      /\ UNCHANGED <<database, edits, requests, buffered, relays>>
  BY DEF Retry, shows
<1>3. told[t] \in Nat
  BY Typed DEF IInv
<1>4. /\ load'[t] = "asked" /\ page'[t] = None
      /\ \A u \in Tabs \ {t} : load'[u] = load[u]
  BY <1>2 DEF Retry, IInv, TypeOK
<1>5. ~Has(<<>>) /\ ~Marked(<<>>) /\ Len(<<>>) = 0
  BY DEF Has, Marked, ToSet
<1>6. PageOK(t)' /\ ListOK(t)' /\ Follows(t)'
  BY <1>2, <1>4, <1>5 DEF PageOK, ListOK, Follows, Late, Lacks, Behind
<1> QED
  BY <1>1, <1>2, <1>3, <1>4, <1>6, OnePage

(* A join of the realtime room shows nothing. *)
LEMMA JoinDoneKeeps ==
  ASSUME IInv, NEW t \in Tabs, JoinDone(t)
  PROVE  IInv'
<1>1. TypeOK'
  <2>1. DataTypes /\ SocketTypes /\ PageTypes
    BY TypeParts DEF IInv
  <2>2. DataTypes'
    BY <2>1 DEF DataTypes, JoinDone, database, bounds
  <2>3. SocketTypes'
    BY <2>1 DEF SocketTypes, JoinDone
  <2>4. PageTypes'
    BY <2>1 DEF PageTypes, JoinDone, shows, history, database
  <2> QED
    BY <2>2, <2>3, <2>4, TypeParts
<1>2. /\ load' = load /\ page' = page /\ view' = view /\ told' = told /\ astray' = astray
      /\ UNCHANGED <<database, edits, requests, buffered, relays>>
  BY DEF JoinDone, shows, history
<1>3. told[t] \in Nat
  BY Typed DEF IInv
<1>4. PageOK(t)' /\ ListOK(t)' /\ (t \notin astray' => Follows(t)')
  BY <1>2, OtherPages
<1> QED
  BY <1>1, <1>2, <1>3, <1>4, OnePage

(* A page of history brings the message, unless the page is put among those astray. *)
LEMMA PageArrivesKeeps ==
  ASSUME IInv, NEW t \in Tabs, PageArrives(t)
  PROVE  IInv'
<1> DEFINE p == page[t]
           list == view[t]
           new == Merged(view[t], page[t])
           heard == Larger(told[t], page[t].rev)
<1>1. /\ p \in Page /\ p # None /\ list \in Seq(Entries) /\ load[t] = "read"
      /\ told[t] \in Nat /\ told[t] <= rev /\ rev \in Nat /\ p.rev \in Nat
      /\ p.content = None \/ p.content \in Contents
  <2>1. load[t] = "read"
    BY DEF PageArrives
  <2>2. p # None
    BY <2>1 DEF IInv, TypeOK
  <2> QED
    BY <2>1, <2>2, Typed, Apart DEF IInv, Page
<1>2. /\ p.rev <= rev
      /\ p.rev = 0 => p.content = None
      /\ p.rev = rev => p.content = row
  BY <1>1 DEF IInv, PageOK
<1>3. /\ new \in Seq(Entries) /\ Len(new) <= Len(list) + 1
      /\ Has(new) <=> Has(list) \/ p.content # None
      /\ Marked(new) <=> Marked(list)
      /\ p.content = None => new = list
      /\ p.content # None /\ ~Marked(list) => new = <<p.content>>
  BY <1>1, MergedKeeps
<1>4. /\ told[t] <= heard /\ p.rev <= heard /\ heard <= rev /\ heard \in Nat
      /\ heard = told[t] \/ heard = p.rev
  BY <1>1, <1>2 DEF Larger
<1>5. Len(list) <= 1 /\ Len(list) \in Nat
  BY <1>1 DEF IInv, ListOK
<1>6. /\ load' = [load EXCEPT ![t] = "done"] /\ page' = [page EXCEPT ![t] = None]
      /\ view' = [view EXCEPT ![t] = new] /\ told' = [told EXCEPT ![t] = heard]
      /\ astray' = astray \cup (IF MergesAstray(t) THEN {t} ELSE {})
      /\ UNCHANGED <<database, edits, requests, buffered, relays>>
  BY DEF PageArrives
<1>7. row' = row /\ rev' = rev
  BY <1>6 DEF database
<1>8. MergesAstray(t) <=> \/ p.content # None /\ (p.rev < told[t] \/ Marked(list))
                          \/ p.content = None /\ Has(list) /\ told[t] < p.rev
  BY DEF MergesAstray, Marked
<1> HIDE DEF new, heard, list, p
<1>9. TypeOK'
  <2>1. DataTypes /\ SocketTypes /\ PageTypes
    BY TypeParts DEF IInv
  <2>2. DataTypes'
    BY <2>1 DEF DataTypes, PageArrives, database, bounds
  <2>3. SocketTypes'
    BY <2>1 DEF SocketTypes, PageArrives, sockets
  <2>4. Len(new) <= 2
    BY <1>1, <1>3, <1>5
  <2>5. PageTypes'
    BY <1>3, <1>4, <1>6, <1>7, <2>1, <2>4 DEF PageTypes
  <2> QED
    BY <2>2, <2>3, <2>5, TypeParts
<1>10. /\ load'[t] = "done" /\ page'[t] = None /\ view'[t] = new /\ told'[t] = heard
       /\ \A u \in Tabs \ {t} :
            /\ view'[u] = view[u] /\ told'[u] = told[u] /\ load'[u] = load[u] /\ page'[u] = page[u]
            /\ u \in astray <=> u \in astray'
  BY <1>6 DEF IInv, TypeOK
<1>11. PageOK(t)'
  BY <1>10 DEF PageOK
<1>12. ListOK(t)'
  <2>1. ListOK(t)
    BY DEF IInv
  <2>2. Marked(new) => t = Author /\ \E r \in requests : r.kind = "send" /\ r.mounted
    BY <1>3, <2>1 DEF ListOK, list
  <2>3. t \notin astray' => Len(new) <= 1
    BY <1>1, <1>3, <1>5, <1>6, <1>8
  <2>4. Has(new) => heard # 0
    BY <1>1, <1>2, <1>3, <1>4, <2>1 DEF ListOK, list
  <2> QED
    BY <1>6, <1>10, <2>2, <2>3, <2>4 DEF ListOK
<1>13. ASSUME t \notin astray'
       PROVE  Follows(t)'
  <2>1. Follows(t) /\ ~MergesAstray(t)
    BY <1>6, <1>13 DEF IInv
  <2>2. News(t) => News(t)'
    BY <1>6, <1>7 DEF News, OnItsWay
  <2>3. Insertion(t) => Insertion(t)'
    BY <1>6, <1>7 DEF Insertion, OnItsWay
  <2>4. Late(t)' => Late(t)
    BY <1>1, <1>4, <1>7, <1>10 DEF Late, Behind, Larger, heard, p
  <2>5. Lacks(t)' => Lacks(t)
    BY <1>1, <1>3, <1>10 DEF Lacks, list, p
  <2>6. ASSUME Has(new), heard = rev
        PROVE  /\ Editing(t)' \/ new = <<row>>
               /\ \A r \in requests : r.kind = "edit" /\ r.at = "asked" /\ r.mounted /\ r.tab = t
                                      /\ r.rev = rev => r.prev = row
    <3>1. CASE p.content = None
      <4>1. Has(list) /\ heard = told[t] /\ new = list
        BY <1>1, <1>3, <1>4, <1>8, <2>1, <2>6, <3>1
      <4>2. /\ Editing(t) \/ list = <<row>>
            /\ \A r \in requests : r.kind = "edit" /\ r.at = "asked" /\ r.mounted /\ r.tab = t
                                   /\ r.rev = rev => r.prev = row
        BY <2>1, <2>6, <4>1 DEF Follows, list
      <4>3. Editing(t) => Editing(t)'
        BY <1>6, <1>10, <4>1 DEF Editing
      <4> QED
        BY <4>1, <4>2, <4>3
    <3>2. CASE p.content # None
      <4>1. new = <<p.content>> /\ p.rev = rev /\ p.content = row
        BY <1>1, <1>2, <1>3, <1>4, <1>8, <2>1, <2>6, <3>2
      <4>2. ASSUME NEW r \in requests,
                   r.kind = "edit", r.at = "asked", r.mounted, r.tab = t, r.rev = rev
            PROVE  r.prev = row
        <5>1. r.rev <= told[t] /\ (Has(list) \/ row = None)
          BY <4>2 DEF IInv, RequestsOK, RequestOK, AskedOK, list
        <5>2. told[t] = rev /\ Has(list)
          BY <1>1, <3>2, <4>1, <4>2, <5>1
        <5> QED
          BY <2>1, <4>2, <5>2 DEF Follows, list
      <4> QED
        BY <4>1, <4>2
    <3> QED
      BY <3>1, <3>2
  <2>7. (Late(t) => News(t))' /\ (Lacks(t) /\ row # None => Insertion(t))'
    BY <1>7, <2>1, <2>2, <2>3, <2>4, <2>5 DEF Follows
  <2>8. requests' = requests
    BY <1>6
  <2> QED
    BY <1>7, <1>10, <2>6, <2>7, <2>8 DEF Follows
<1>14. Has(list) => Has(new)
  BY <1>3
<1> QED
  BY <1>3, <1>4, <1>6, <1>9, <1>10, <1>11, <1>12, <1>13, <1>14, OnePage DEF list

(* A page that is left forgets what it showed, and its requests go on without it. *)
LEMMA CloseKeeps ==
  ASSUME IInv, NEW t \in Tabs, Close(t)
  PROVE  IInv'
<1> DEFINE After(r) == IF r.tab = t THEN [r EXCEPT !.mounted = FALSE] ELSE r
<1>1. /\ load' = [load EXCEPT ![t] = "closed"] /\ page' = [page EXCEPT ![t] = None]
      /\ view' = [view EXCEPT ![t] = <<>>] /\ told' = [told EXCEPT ![t] = 0]
      /\ astray' = astray \ {t}
      /\ requests' = {After(r) : r \in requests}
      /\ UNCHANGED <<database, edits, buffered, relays, up, bounds>>
  BY DEF Close
<1>2. row' = row /\ rev' = rev /\ scheduled' = scheduled /\ edits' = edits
      /\ buffered' = buffered /\ relays' = relays
  BY <1>1 DEF database
<1>3. \A r \in requests : r \in Request /\ r.tab \in Tabs
  BY DEF IInv, TypeOK, Request
<1>4. ASSUME NEW r \in requests
      PROVE  /\ After(r) \in Request
             /\ After(r).kind = r.kind /\ After(r).tab = r.tab /\ After(r).at = r.at
             /\ After(r).content = r.content /\ After(r).prev = r.prev /\ After(r).rev = r.rev
             /\ After(r).mounted <=> r.mounted /\ r.tab # t
             /\ r.tab # t => After(r) = r
  BY <1>3 DEF Request
<1> HIDE DEF After
<1>5. /\ load'[t] = "closed" /\ page'[t] = None /\ view'[t] = <<>>
      /\ \A u \in Tabs \ {t} :
           view'[u] = view[u] /\ told'[u] = told[u] /\ load'[u] = load[u] /\ page'[u] = page[u]
      /\ \A u \in Tabs \ {t} : u \in astray <=> u \in astray'
  BY <1>1 DEF IInv, TypeOK
<1>6. ~Has(<<>>) /\ ~Marked(<<>>) /\ Len(<<>>) = 0 /\ <<>> \in Seq(Entries)
  BY DEF Has, Marked, ToSet
<1>7. TypeOK'
  <2>1. DataTypes /\ SocketTypes /\ PageTypes
    BY TypeParts DEF IInv
  <2>2. requests' \subseteq Request
    BY <1>1, <1>4
  <2>3. DataTypes'
    BY <1>1, <1>2, <2>1, <2>2 DEF DataTypes, bounds
  <2>4. SocketTypes'
    BY <2>1 DEF SocketTypes, Close, Joins
  <2>5. 0 \in 0..rev
    BY Typed DEF IInv
  <2>6. PageTypes'
    BY <1>1, <1>2, <1>6, <2>1, <2>5 DEF PageTypes
  <2> QED
    BY <2>3, <2>4, <2>6, TypeParts
<1>8. RowOK'
  BY <1>1, <1>2, <1>4 DEF IInv, RowOK
<1>9. RelaysOK'
  BY <1>2 DEF IInv, RelaysOK, NoticeOK
<1>10. ASSUME NEW r \in requests
       PROVE  RequestOK(After(r))'
  <2>1. RequestOK(r)
    BY DEF IInv, RequestsOK
  <2>2. CASE r.tab = t
    BY <1>2, <1>4, <2>1, <2>2 DEF RequestOK, AskedOK, NoticeOK
  <2>3. CASE r.tab # t
    <3>1. After(r) = r
      BY <1>4, <2>3
    <3>2. RequestOK(r)'
      <4>1. /\ load'[r.tab] = load[r.tab] /\ told'[r.tab] = told[r.tab]
            /\ view'[r.tab] = view[r.tab]
        BY <1>3, <1>5, <2>3
      <4>2. r.kind = "send" => r.tab = Author
        BY <2>1 DEF RequestOK
      <4>3. r.kind = "send" => view'[Author] = view[Author]
        BY <4>1, <4>2
      <4> QED
        BY <1>2, <2>1, <4>1, <4>3 DEF RequestOK, AskedOK, NoticeOK
    <3> QED
      BY <3>1, <3>2
  <2> QED
    BY <2>2, <2>3
<1>11. RequestsOK'
  <2>1. \A r \in requests' : RequestOK(r)'
    BY <1>1, <1>10
  <2>2. ASSUME NEW r \in requests', NEW s \in requests', r.kind = s.kind, r.kind # "delete"
        PROVE  r = s
    <3>1. PICK r0 \in requests : r = After(r0)
      BY <1>1
    <3>2. PICK s0 \in requests : s = After(s0)
      BY <1>1
    <3>3. r0.kind = s0.kind /\ r0.kind # "delete"
      BY <1>4, <2>2, <3>1, <3>2
    <3> QED
      BY <3>1, <3>2, <3>3 DEF IInv, RequestsOK
  <2>3. ASSUME NEW r \in requests', r.kind = "send"
        PROVE  /\ \A q \in relays' : q.kind # "send"
               /\ \A u \in Tabs : \A e \in buffered'[u] : e.kind # "send"
    <3>1. PICK r0 \in requests : r = After(r0)
      BY <1>1
    <3>2. r0.kind = "send"
      BY <1>4, <2>3, <3>1
    <3> QED
      BY <1>2, <3>2 DEF IInv, RequestsOK
  <2> QED
    BY <2>1, <2>2, <2>3 DEF RequestsOK
<1>12. ASSUME NEW u \in Tabs, NEW k, NEW v, OnItsWay(u, k, v)
       PROVE  OnItsWay(u, k, v)'
  <2>1. ASSUME NEW r \in requests, r.at = "done", r.kind = k, r.rev = v
        PROVE  \E s \in requests' : s.at = "done" /\ s.kind = k /\ s.rev = v
    BY <1>1, <1>4, <2>1
  <2> QED
    BY <1>2, <1>12, <2>1 DEF OnItsWay
<1>13. ASSUME NEW u \in Tabs
       PROVE  PageOK(u)' /\ ListOK(u)' /\ (u \notin astray' => Follows(u)')
  <2>1. CASE u = t
    BY <1>5, <1>6, <2>1 DEF PageOK, ListOK, Follows, Late, Lacks, Behind
  <2>2. CASE u # t
    <3>1. /\ view'[u] = view[u] /\ told'[u] = told[u] /\ load'[u] = load[u] /\ page'[u] = page[u]
          /\ u \in astray <=> u \in astray'
      BY <1>5, <2>2
    <3>2. PageOK(u)'
      BY <1>2, <3>1 DEF IInv, PageOK
    <3>3. ListOK(u)'
      <4>1. ListOK(u)
        BY DEF IInv
      <4>2. ASSUME u = Author, NEW r \in requests, r.kind = "send", r.mounted
            PROVE  \E s \in requests' : s.kind = "send" /\ s.mounted
        <5>1. r.tab = Author
          BY <4>2 DEF IInv, RequestsOK, RequestOK
        <5>2. After(r) \in requests' /\ After(r) = r
          BY <1>1, <1>4, <2>2, <4>2, <5>1
        <5> QED
          BY <4>2, <5>2
      <4> QED
        BY <3>1, <4>1, <4>2, ListStays
    <3>4. ASSUME u \notin astray'
          PROVE  Follows(u)'
      <4>1. Follows(u) /\ rev \in Revisions
        BY <3>1, <3>4 DEF IInv, TypeOK
      <4>2. ASSUME NEW r, r.mounted, r.tab = u
            PROVE  r \in requests <=> r \in requests'
        <5>1. r \in requests => r \in requests'
          <6>1. ASSUME r \in requests
                PROVE  r \in requests'
            <7>1. After(r) = r
              BY <1>4, <2>2, <4>2, <6>1
            <7> QED
              BY <1>1, <6>1, <7>1
          <6> QED
            BY <6>1
        <5>2. ASSUME r \in requests'
              PROVE  r \in requests
          <6>1. PICK r0 \in requests : r = After(r0)
            BY <1>1, <5>2
          <6>2. r0.tab # t
            BY <1>4, <2>2, <4>2, <6>1
          <6> QED
            BY <1>4, <6>1, <6>2
        <5> QED
          BY <5>1, <5>2
      <4> QED
        BY <1>2, <1>12, <3>1, <4>1, <4>2, FollowsStays
    <3> QED
      BY <3>2, <3>3, <3>4
  <2> QED
    BY <2>1, <2>2
<1> QED
  BY <1>7, <1>8, <1>9, <1>11, <1>13 DEF IInv

-----------------------------------------------------------------------------
(* The steps of the connections. *)

(* A step that changes only what is on its way over the sockets, and puts
   pages among those astray. *)
LEMMA WireKeeps ==
  ASSUME IInv, TypeOK', UNCHANGED <<database, edits, requests, history, view, told>>,
         RelaysOK', astray \subseteq astray',
         rev = 0 => relays' = {} /\ \A t \in Tabs : buffered'[t] = {},
         \A q \in relays' : q.kind = "send" =>
           \/ \E p \in relays : p.kind = "send"
           \/ \E t \in Tabs : \E e \in buffered[t] : e.kind = "send",
         \A t \in Tabs : buffered'[t] \subseteq buffered[t],
         \A t \in Tabs \ astray' :
           /\ Late(t) /\ News(t) => News(t)'
           /\ Lacks(t) /\ row # None /\ Insertion(t) => Insertion(t)'
  PROVE  IInv'
<1>1. row' = row /\ rev' = rev /\ scheduled' = scheduled /\ edits' = edits
      /\ requests' = requests /\ load' = load /\ page' = page
      /\ view' = view /\ told' = told
  BY DEF database, history
<1>2. RowOK'
  BY <1>1 DEF IInv, RowOK
<1>3. RequestsOK'
  <2>1. \A r \in requests : RequestOK(r)'
    BY <1>1 DEF IInv, RequestsOK, RequestOK, AskedOK, NoticeOK
  <2> QED
    BY <1>1, <2>1 DEF IInv, RequestsOK
<1>4. ASSUME NEW t \in Tabs
      PROVE  PageOK(t)' /\ ListOK(t)' /\ (t \notin astray' => Follows(t)')
  <2>1. PageOK(t)' /\ ListOK(t)'
    BY <1>1 DEF IInv, PageOK, ListOK
  <2>2. ASSUME t \notin astray'
        PROVE  Follows(t)'
    <3>1. Follows(t) /\ t \in Tabs \ astray'
      BY <2>2 DEF IInv
    <3> QED
      BY <1>1, <3>1, NewsStay
  <2> QED
    BY <2>1, <2>2
<1> QED
  BY <1>2, <1>3, <1>4 DEF IInv

(* A handler that has lost its socket leaves nobody out. *)
LEMMA DisconnectKeeps ==
  ASSUME IInv, NEW t \in Tabs, Disconnect(t)
  PROVE  IInv'
<1> DEFINE After(q) == IF q.from = t THEN [q EXCEPT !.from = None] ELSE q
<1>1. /\ up' = up \ {t} /\ room' = room \ {t} /\ joining' = joining \ {t}
      /\ relays' = {After(q) : q \in relays}
      /\ UNCHANGED <<database, edits, requests, buffered, history, shows>>
      /\ faults' = faults + 1 /\ faults < MaxFaults /\ opens' = opens
  BY DEF Disconnect, Fault
<1>2. \A q \in relays : q \in Relay
  BY DEF IInv, TypeOK
<1>3. ASSUME NEW q \in relays
      PROVE  /\ After(q) \in Relay
             /\ After(q).kind = q.kind /\ After(q).at = q.at
             /\ After(q).content = q.content /\ After(q).rev = q.rev
             /\ After(q).from = q.from \/ After(q).from = None
  BY <1>2 DEF Relay
<1> HIDE DEF After
<1>4. TypeOK'
  <2>1. DataTypes /\ SocketTypes /\ PageTypes
    BY TypeParts DEF IInv
  <2>2. relays' \subseteq Relay
    BY <1>1, <1>3
  <2>3. DataTypes'
    BY <1>1, <2>1, <2>2, TimelineAssumption DEF DataTypes, database
  <2>4. SocketTypes'
    BY <1>1, <2>1 DEF SocketTypes
  <2>5. PageTypes'
    BY <1>1, <2>1 DEF PageTypes, history, shows, database
  <2> QED
    BY <2>3, <2>4, <2>5, TypeParts
<1>5. RelaysOK'
  <2>1. ASSUME NEW q \in relays'
        PROVE  /\ NoticeOK(q.kind, q.rev)
               /\ q.at = "read" => /\ q.rev = rev => q.content = row
                                   /\ q.kind # "delete" => q.content \in Contents
    <3>1. PICK p \in relays : q = After(p)
      BY <1>1
    <3> QED
      BY <1>3, <3>1 DEF IInv, RelaysOK
  <2>2. row' = row /\ rev' = rev /\ buffered' = buffered
    BY <1>1 DEF database
  <2> QED
    BY <2>1, <2>2 DEF IInv, RelaysOK, NoticeOK
<1>6. rev = 0 => relays' = {} /\ \A u \in Tabs : buffered'[u] = {}
  BY <1>1 DEF IInv, RowOK
<1>7. \A q \in relays' : q.kind = "send" => \E p \in relays : p.kind = "send"
  BY <1>1, <1>3
<1>8. ASSUME NEW u \in Tabs, NEW k, NEW v, OnItsWay(u, k, v)
      PROVE  OnItsWay(u, k, v)'
  <2>1. ASSUME NEW q \in relays, q.from # u, q.kind = k, q.rev = v
        PROVE  \E p \in relays' : p.from # u /\ p.kind = k /\ p.rev = v
    BY <1>1, <1>3, <2>1, TimelineAssumption
  <2> QED
    BY <1>1, <1>8, <2>1 DEF OnItsWay
<1>9. rev' = rev
  BY <1>1 DEF database
<1>10. ASSUME NEW u \in Tabs
       PROVE  (News(u) => News(u)') /\ (Insertion(u) => Insertion(u)')
  BY <1>8, <1>9 DEF News, Insertion
<1> QED
  BY <1>1, <1>4, <1>5, <1>6, <1>7, <1>10, WireKeeps DEF shows

(* What was kept while the socket was down goes on to the realtime server. *)
LEMMA ReconnectKeeps ==
  ASSUME IInv, NEW t \in Tabs, Reconnect(t)
  PROVE  IInv'
<1> DEFINE Sent(e) == [kind |-> e.kind, from |-> t, at |-> "asked", content |-> None, rev |-> e.rev]
<1>1. /\ up' = up \cup {t} /\ joining' = joining \cup {t} /\ room' = room
      /\ relays' = relays \cup {Sent(e) : e \in buffered[t]}
      /\ buffered' = [buffered EXCEPT ![t] = {}]
      /\ UNCHANGED <<database, edits, requests, history, shows>>
      /\ faults' = faults /\ opens' = opens
  BY DEF Reconnect, bounds
<1>2. \A u \in Tabs : \A e \in buffered[u] : e \in [kind: Kinds, rev: Revisions]
  BY DEF IInv, TypeOK
<1>3. ASSUME NEW e \in buffered[t]
      PROVE  /\ Sent(e) \in Relay /\ Sent(e).kind = e.kind /\ Sent(e).at = "asked"
             /\ Sent(e).rev = e.rev /\ Sent(e).from = t
             /\ Sent(e) \in relays'
  BY <1>1, <1>2 DEF Relay
<1>4. ASSUME NEW q \in relays'
      PROVE  q \in relays \/ \E e \in buffered[t] : q = Sent(e)
  BY <1>1
<1>5. \A u \in Tabs : buffered'[u] = IF u = t THEN {} ELSE buffered[u]
  BY <1>1 DEF IInv, TypeOK
<1>6. relays \subseteq relays'
  BY <1>1
<1>7. TypeOK'
  <2>1. DataTypes /\ SocketTypes /\ PageTypes
    BY TypeParts DEF IInv
  <2>2. relays' \subseteq Relay
    BY <1>3, <1>4, <2>1 DEF DataTypes
  <2>3. DataTypes'
    BY <1>1, <2>1, <2>2 DEF DataTypes, database
  <2>4. SocketTypes'
    BY <1>1, <2>1 DEF SocketTypes
  <2>5. PageTypes'
    BY <1>1, <2>1 DEF PageTypes, history, shows, database
  <2> QED
    BY <2>3, <2>4, <2>5, TypeParts
<1> HIDE DEF Sent
<1>8. RelaysOK'
  <2>1. \A u \in Tabs : \A e \in buffered[u] : NoticeOK(e.kind, e.rev)
    BY DEF IInv, RelaysOK
  <2>2. ASSUME NEW q \in relays'
        PROVE  /\ NoticeOK(q.kind, q.rev)
               /\ q.at = "read" => /\ q.rev = rev => q.content = row
                                   /\ q.kind # "delete" => q.content \in Contents
    <3>1. CASE q \in relays
      BY <3>1 DEF IInv, RelaysOK
    <3>2. CASE q \notin relays
      <4>1. PICK e \in buffered[t] : q = Sent(e)
        BY <1>4, <3>2
      <4> QED
        BY <1>3, <2>1, <4>1
    <3> QED
      BY <3>1, <3>2
  <2>3. row' = row /\ rev' = rev
    BY <1>1 DEF database
  <2> QED
    BY <1>5, <2>1, <2>2, <2>3 DEF RelaysOK, NoticeOK
<1>9. rev = 0 => relays' = {} /\ \A u \in Tabs : buffered'[u] = {}
  BY <1>1, <1>5 DEF IInv, RowOK
<1>10. \A q \in relays' : q.kind = "send" =>
         \/ \E p \in relays : p.kind = "send"
         \/ \E u \in Tabs : \E e \in buffered[u] : e.kind = "send"
  BY <1>3, <1>4
<1>11. \A u \in Tabs : buffered'[u] \subseteq buffered[u]
  BY <1>5
<1>12. ASSUME NEW u \in Tabs, NEW k, NEW v, OnItsWay(u, k, v)
       PROVE  OnItsWay(u, k, v)'
  <2>1. ASSUME NEW w \in Tabs \ {u}, [kind |-> k, rev |-> v] \in buffered[w]
        PROVE  \/ [kind |-> k, rev |-> v] \in buffered'[w]
               \/ \E q \in relays' : q.from # u /\ q.kind = k /\ q.rev = v
    <3>1. CASE w = t
      <4> DEFINE e == [kind |-> k, rev |-> v]
      <4>1. e \in buffered[t] /\ e.kind = k /\ e.rev = v
        BY <2>1, <3>1
      <4> HIDE DEF e
      <4>2. Sent(e) \in relays' /\ Sent(e).from # u /\ Sent(e).kind = k /\ Sent(e).rev = v
        BY <1>3, <2>1, <3>1, <4>1
      <4> QED
        BY <4>2
    <3>2. CASE w # t
      BY <1>5, <2>1, <3>2
    <3> QED
      BY <3>1, <3>2
  <2> QED
    BY <1>1, <1>6, <1>12, <2>1 DEF OnItsWay
<1>13. rev' = rev
  BY <1>1 DEF database
<1>14. ASSUME NEW u \in Tabs
       PROVE  (News(u) => News(u)') /\ (Insertion(u) => Insertion(u)')
  BY <1>12, <1>13 DEF News, Insertion
<1> QED
  BY <1>1, <1>7, <1>8, <1>9, <1>10, <1>11, <1>14, WireKeeps DEF shows

-----------------------------------------------------------------------------
(* The steps of the realtime server. *)

(* A handler that has read the row brings its newest revision, and if the page waits
   for what it brings, the row confirms it. *)
LEMMA RelayReadKeeps ==
  ASSUME IInv, NEW q \in relays, RelayRead(q)
  PROVE  IInv'
<1> DEFINE read == [q EXCEPT !.at = "read", !.content = row, !.rev = rev]
<1>1. /\ relays' = (relays \ {q}) \cup (IF Confirmed(q) THEN {read} ELSE {})
      /\ UNCHANGED <<database, edits, requests, buffered, sockets, history, shows, bounds>>
  BY DEF RelayRead
<1>2. q \in Relay /\ row \in Contents \cup {None} /\ rev \in Revisions /\ rev \in Nat
  BY Typed DEF IInv, TypeOK
<1>3. /\ read \in Relay /\ read.kind = q.kind /\ read.from = q.from /\ read.at = "read"
      /\ read.content = row /\ read.rev = rev
  BY <1>2 DEF Relay
<1>4. NoticeOK(q.kind, q.rev)
  BY DEF IInv, RelaysOK
<1>5. Confirmed(q) <=> IF q.kind = "delete" THEN row = None ELSE row # None
  BY DEF Confirmed
<1>6. row' = row /\ rev' = rev /\ requests' = requests /\ buffered' = buffered
      /\ astray' = astray
  BY <1>1 DEF database, shows
<1> HIDE DEF read
<1>7. TypeOK'
  <2>1. DataTypes /\ SocketTypes /\ PageTypes
    BY TypeParts DEF IInv
  <2>2. relays' \subseteq Relay
    BY <1>1, <1>3, <2>1 DEF DataTypes
  <2>3. DataTypes'
    BY <1>1, <2>1, <2>2 DEF DataTypes, database, bounds
  <2>4. SocketTypes'
    BY <1>1, <2>1 DEF SocketTypes, sockets
  <2>5. PageTypes'
    BY <1>1, <2>1 DEF PageTypes, history, shows, database
  <2> QED
    BY <2>3, <2>4, <2>5, TypeParts
<1>8. rev \in 1..rev
  BY <1>2, <1>4 DEF NoticeOK
<1>9. RelaysOK'
  <2>1. ASSUME NEW p \in relays'
        PROVE  /\ NoticeOK(p.kind, p.rev)
               /\ p.at = "read" => /\ p.rev = rev => p.content = row
                                   /\ p.kind # "delete" => p.content \in Contents
    <3>1. CASE p \in relays
      BY <3>1 DEF IInv, RelaysOK
    <3>2. CASE p \notin relays
      <4>1. p = read /\ Confirmed(q)
        BY <1>1, <3>2
      <4> QED
        BY <1>2, <1>3, <1>5, <1>8, <4>1 DEF NoticeOK
    <3> QED
      BY <3>1, <3>2
  <2> QED
    BY <1>6, <2>1 DEF IInv, RelaysOK, NoticeOK
<1>10. rev # 0
  BY <1>2, <1>8
<1>11. \A p \in relays' : p.kind = "send" => \E o \in relays : o.kind = "send"
  BY <1>1, <1>3
<1>12. ASSUME NEW t \in Tabs, NEW k, NEW v, OnItsWay(t, k, v),
              ~(q.from # t /\ k = q.kind /\ v = q.rev)
       PROVE  OnItsWay(t, k, v)'
  <2>1. ASSUME NEW p \in relays, p.from # t, p.kind = k, p.rev = v
        PROVE  p \in relays'
    BY <1>1, <1>12, <2>1
  <2> QED
    BY <1>6, <1>12, <2>1 DEF OnItsWay
<1>13. ASSUME NEW t \in Tabs, q.from # t, Confirmed(q)
       PROVE  OnItsWay(t, q.kind, rev)'
  <2>1. read \in relays'
    BY <1>1, <1>13
  <2> QED
    BY <1>3, <1>6, <1>13, <2>1 DEF OnItsWay
<1>14. ASSUME NEW t \in Tabs, News(t)
       PROVE  News(t)'
  <2>1. PICK k \in Kinds : (k # "send" \/ rev = 1) /\ OnItsWay(t, k, rev)
    BY <1>14 DEF News
  <2>2. CASE q.from # t /\ k = q.kind /\ rev = q.rev
    <3>1. Confirmed(q)
      BY <1>4, <1>5, <2>2 DEF NoticeOK
    <3>2. OnItsWay(t, k, rev)'
      BY <1>13, <2>2, <3>1
    <3> QED
      BY <1>6, <2>1, <3>2 DEF News
  <2>3. CASE ~(q.from # t /\ k = q.kind /\ rev = q.rev)
    <3>1. PICK v : v = rev
      OBVIOUS
    <3>2. OnItsWay(t, k, v)'
      BY <1>12, <2>1, <2>3, <3>1
    <3>3. v = rev'
      BY <1>6, <3>1
    <3> QED
      BY <2>1, <1>6, <3>2, <3>3 DEF News
  <2> QED
    BY <2>2, <2>3
<1>15. ASSUME NEW t \in Tabs, Insertion(t), row # None
       PROVE  Insertion(t)'
  <2>1. PICK v \in Revisions : OnItsWay(t, "send", v)
    BY <1>15 DEF Insertion
  <2>2. CASE q.from # t /\ "send" = q.kind /\ v = q.rev
    <3>1. Confirmed(q)
      BY <1>5, <1>15, <2>2
    <3>2. OnItsWay(t, "send", rev)'
      BY <1>13, <2>2, <3>1
    <3> QED
      BY <1>2, <1>6, <3>2 DEF Insertion
  <2>3. CASE ~(q.from # t /\ "send" = q.kind /\ v = q.rev)
    <3>1. OnItsWay(t, "send", v)'
      BY <1>12, <2>1, <2>3
    <3> QED
      BY <3>1 DEF Insertion
  <2> QED
    BY <2>2, <2>3
<1> QED
  BY <1>1, <1>6, <1>7, <1>9, <1>10, <1>11, <1>14, <1>15, WireKeeps DEF shows

(* A handler that ends without sending has its pages astray. *)
LEMMA RelayDroppedKeeps ==
  ASSUME IInv, NEW q \in relays, RelayDropped(q)
  PROVE  IInv'
<1>1. /\ relays' = relays \ {q} /\ astray' = astray \cup InNeedOf(q)
      /\ UNCHANGED <<database, edits, requests, buffered, sockets, history, view, told>>
      /\ faults' = faults + 1 /\ faults < MaxFaults /\ opens' = opens
  BY DEF RelayDropped, Fault
<1>2. row' = row /\ rev' = rev
  BY <1>1 DEF database
<1>3. InNeedOf(q) \subseteq Tabs
  BY DEF InNeedOf, Behind
<1>4. TypeOK'
  <2>1. DataTypes /\ SocketTypes /\ PageTypes
    BY TypeParts DEF IInv
  <2>2. DataTypes'
    BY <1>1, <2>1, TimelineAssumption DEF DataTypes, database
  <2>3. SocketTypes'
    BY <1>1, <2>1 DEF SocketTypes, sockets
  <2>4. PageTypes'
    BY <1>1, <1>3, <2>1 DEF PageTypes, history, database
  <2> QED
    BY <2>2, <2>3, <2>4, TypeParts
<1>5. RelaysOK'
  BY <1>1, <1>2 DEF IInv, RelaysOK, NoticeOK
<1>6. rev = 0 => relays' = {} /\ \A u \in Tabs : buffered'[u] = {}
  BY <1>1 DEF IInv, RowOK
<1>7. ASSUME NEW t \in Tabs, t \notin astray'
      PROVE  /\ Late(t) /\ News(t) => News(t)'
             /\ Lacks(t) /\ row # None /\ Insertion(t) => Insertion(t)'
  <2>1. t \notin InNeedOf(q)
    BY <1>1, <1>7
  <2>2. (Late(t) => q.rev # rev) /\ (Lacks(t) => q.kind # "send")
    BY <2>1 DEF InNeedOf, Late, Lacks
  <2>3. ASSUME NEW k, NEW v, OnItsWay(t, k, v), ~(k = q.kind /\ v = q.rev)
        PROVE  OnItsWay(t, k, v)'
    BY <1>1, <2>3 DEF OnItsWay
  <2> QED
    BY <1>2, <2>2, <2>3 DEF News, Insertion
<1> QED
  BY <1>1, <1>4, <1>5, <1>6, <1>7, WireKeeps

(* A list with neither the message nor its placeholder is empty, however long. *)
LEMMA Nothing ==
  ASSUME NEW list \in Seq(Entries), ~Has(list), ~Marked(list)
  PROVE  list = <<>>
<1>1. ToSet(list) = {}
  BY DEF Has, Marked, ToSet
<1> QED
  BY <1>1, Heads

(* What a notice makes of the list of a page that heeds it. *)
LEMMA AfterNoticeKeeps ==
  ASSUME NEW list \in Seq(Entries), NEW q, q.kind \in Kinds,
         q.kind # "delete" => q.content \in Contents,
         q.kind = "send" => ~Has(list) /\ ~Marked(list)
  PROVE  /\ AfterNotice(list, q) \in Seq(Entries)
         /\ Len(AfterNotice(list, q)) <= Len(list) \/ Len(AfterNotice(list, q)) = 1
         /\ Has(list) /\ q.kind # "delete" => Has(AfterNotice(list, q))
         /\ Has(AfterNotice(list, q)) => q.kind # "delete" /\ (q.kind = "send" \/ Has(list))
         /\ q.kind = "send" => Has(AfterNotice(list, q))
         /\ Marked(AfterNotice(list, q)) <=> Marked(list)
         /\ Has(AfterNotice(list, q)) /\ Len(list) <= 1 => AfterNotice(list, q) = <<q.content>>
<1> DEFINE new == AfterNotice(list, q)
<1>0. Len(list) \in Nat
  OBVIOUS
<1>1. CASE q.kind = "send"
  <2>1. new = Append(list, q.content)
    BY <1>1 DEF AfterNotice
  <2>2. list = <<>> /\ ~Has(list) /\ ~Marked(list)
    BY <1>1, Nothing
  <2> HIDE DEF new
  <2>6. q.content \in Entries /\ q.content # Pending
    BY <1>1, Apart
  <2>3. /\ new \in Seq(Entries) /\ Len(new) = Len(list) + 1
        /\ Has(new) /\ ~Marked(new) /\ ~Has(list) /\ ~Marked(list)
    BY <2>1, <2>2, <2>6, AppendedKeeps
  <2>4. new = <<q.content>>
    BY <2>1, <2>2
  <2>5. Len(new) = 1
    BY <2>4
  <2> QED
    BY <1>1, <2>3, <2>4, <2>5 DEF new
<1>2. CASE q.kind = "edit"
  <2>1. new = Patched(list, q.content)
    BY <1>2 DEF AfterNotice
  <2> HIDE DEF new
  <2>2. /\ new \in Seq(Entries) /\ Len(new) = Len(list)
        /\ Has(new) <=> Has(list)
        /\ Marked(new) <=> Marked(list)
        /\ Has(list) /\ Len(list) <= 1 => new = <<q.content>>
    BY <1>2, <2>1, PatchedKeeps
  <2> QED
    BY <1>0, <1>2, <2>2 DEF new
<1>3. CASE q.kind = "delete"
  <2>1. new = Without(list)
    BY <1>3 DEF AfterNotice
  <2> HIDE DEF new
  <2>2. /\ new \in Seq(Entries) /\ Len(new) <= Len(list) /\ ~Has(new)
        /\ Marked(new) <=> Marked(list)
    BY <2>1, WithoutKeeps
  <2> QED
    BY <1>3, <2>2 DEF new
<1> QED
  BY <1>1, <1>2, <1>3 DEF Kinds

(* A notice that comes in order brings a page up to date; those that need it and are
   out of the room go astray. *)
LEMMA RelaySendKeeps ==
  ASSUME IInv, NEW q \in relays, RelaySend(q)
  PROVE  IInv'
<1> DEFINE New(t) == IF Heeds(t, q) THEN AfterNotice(view[t], q) ELSE view[t]
           Heard(t) == IF Heeds(t, q) THEN Larger(told[t], q.rev) ELSE told[t]
<1>1. /\ q.at = "read" /\ relays' = relays \ {q}
      /\ view' = [t \in Tabs |-> New(t)] /\ told' = [t \in Tabs |-> Heard(t)]
      /\ astray' = astray \cup {t \in Tabs : Heeds(t, q) /\ told[t] > q.rev}
                          \cup (InNeedOf(q) \ Receivers(q))
      /\ UNCHANGED <<database, edits, requests, buffered, sockets, history, bounds>>
  BY DEF RelaySend, Deliver
<1>2. /\ row' = row /\ rev' = rev /\ requests' = requests /\ buffered' = buffered
      /\ scheduled' = scheduled /\ edits' = edits /\ load' = load /\ page' = page
  BY <1>1 DEF database, history
<1>3. /\ q \in Relay /\ q.kind \in Kinds /\ NoticeOK(q.kind, q.rev)
      /\ q.rev = rev => q.content = row
      /\ q.kind # "delete" => q.content \in Contents
  BY <1>1 DEF IInv, RelaysOK, TypeOK, Relay
<1>4. q.rev \in 1..rev /\ rev \in Nat /\ q.rev \in Nat
  BY <1>3, Typed DEF NoticeOK, IInv
<1>5. ASSUME NEW t \in Tabs
      PROVE  /\ view'[t] = New(t) /\ told'[t] = Heard(t)
             /\ view[t] \in Seq(Entries) /\ Len(view[t]) \in Nat /\ Len(view[t]) <= 2
             /\ told[t] \in Nat /\ told[t] <= rev
             /\ ListOK(t)
  BY <1>1, Typed DEF IInv, TypeOK
<1>6. ASSUME NEW t \in Tabs, q.kind = "send"
      PROVE  ~Marked(view[t])
  BY <1>5, <1>6 DEF IInv, RequestsOK, ListOK
<1>7. ASSUME NEW t \in Tabs
      PROVE  Heeds(t, q) <=> /\ t \in room /\ t # q.from /\ load[t] # "closed"
                             /\ ~(q.kind = "send" /\ Has(view[t]))
  BY DEF Heeds, Receivers, IInv, TypeOK
<1>8. ASSUME NEW t \in Tabs, Heeds(t, q)
      PROVE  /\ New(t) = AfterNotice(view[t], q)
             /\ New(t) \in Seq(Entries)
             /\ Len(New(t)) <= Len(view[t]) \/ Len(New(t)) = 1
             /\ Has(view[t]) /\ q.kind # "delete" => Has(New(t))
             /\ Has(New(t)) => q.kind # "delete" /\ (q.kind = "send" \/ Has(view[t]))
             /\ q.kind = "send" => Has(New(t))
             /\ Marked(New(t)) <=> Marked(view[t])
             /\ Has(New(t)) /\ Len(view[t]) <= 1 => New(t) = <<q.content>>
  <2>1. New(t) = AfterNotice(view[t], q)
    BY <1>8
  <2>2. q.kind = "send" => ~Has(view[t]) /\ ~Marked(view[t])
    BY <1>6, <1>7, <1>8
  <2> QED
    BY <1>3, <1>5, <2>1, <2>2, AfterNoticeKeeps
<1>9. ASSUME NEW t \in Tabs, ~Heeds(t, q)
      PROVE  New(t) = view[t] /\ Heard(t) = told[t]
  BY <1>9
<1>10. ASSUME NEW t \in Tabs
       PROVE  /\ Heard(t) \in Nat /\ told[t] <= Heard(t) /\ Heard(t) <= rev
              /\ Heeds(t, q) => q.rev <= Heard(t)
              /\ Heeds(t, q) => Heard(t) = told[t] \/ Heard(t) = q.rev
  BY <1>4, <1>5 DEF Larger
<1> HIDE DEF New, Heard
<1>11. ASSUME NEW t \in Tabs
        PROVE  New(t) \in Seq(Entries) /\ Len(New(t)) \in Nat /\ Len(New(t)) <= 2
  <2>1. New(t) \in Seq(Entries)
    BY <1>5, <1>8, <1>9
  <2>2. Len(New(t)) \in Nat
    BY <2>1
  <2>3. New(t) = view[t] \/ Len(New(t)) <= Len(view[t]) \/ Len(New(t)) = 1
    BY <1>8, <1>9
  <2>4. Len(New(t)) <= 2
    <3>1. Len(view[t]) \in Nat /\ Len(view[t]) <= 2
      BY <1>5
    <3>2. Len(New(t)) <= Len(view[t]) \/ Len(New(t)) = 1
      BY <2>3, <3>1
    <3>3. ASSUME NEW m \in Nat, NEW n \in Nat, m <= n \/ m = 1, n <= 2
          PROVE  m <= 2
      BY <3>3
    <3> QED
      BY <2>2, <3>1, <3>2, <3>3
  <2> QED
    BY <2>1, <2>2, <2>4
<1>12. TypeOK'
  <2>1. DataTypes /\ SocketTypes /\ PageTypes
    BY TypeParts DEF IInv
  <2>2. DataTypes'
    BY <1>1, <1>2, <2>1 DEF DataTypes, bounds
  <2>3. SocketTypes'
    BY <1>1, <2>1 DEF SocketTypes, sockets
  <2>4. view' \in [Tabs -> Seq(Entries)] /\ \A t \in Tabs : Len(view'[t]) <= 2
    BY <1>1, <1>5, <1>11
  <2>5. \A t \in Tabs : load[t] = "closed" => view'[t] = <<>>
    BY <1>5, <1>7, <1>9, <2>1 DEF PageTypes
  <2>6. told' \in [Tabs -> 0..rev]
    BY <1>1, <1>4, <1>10
  <2>7. astray' \subseteq Tabs
    BY <1>1, <2>1 DEF PageTypes, InNeedOf, Behind
  <2>8. PageTypes'
    BY <1>2, <2>1, <2>4, <2>5, <2>6, <2>7 DEF PageTypes
  <2> QED
    BY <2>2, <2>3, <2>8, TypeParts
<1>13. RowOK'
  BY <1>1, <1>2 DEF IInv, RowOK
<1>14. RelaysOK'
  BY <1>1, <1>2 DEF IInv, RelaysOK, NoticeOK
<1>15. RequestsOK'
  <2>1. ASSUME NEW r \in requests
        PROVE  RequestOK(r)'
    <3>1. RequestOK(r) /\ r \in Request /\ r.tab \in Tabs
      BY DEF IInv, RequestsOK, TypeOK, Request
    <3>2. Has(view[r.tab]) => Has(view'[r.tab]) \/ row = None
      BY <1>3, <1>5, <1>8, <1>9, <3>1 DEF NoticeOK
    <3>3. Marked(view[Author]) => Marked(view'[Author])
      BY <1>5, <1>8, <1>9, TimelineAssumption
    <3>4. told[r.tab] <= told'[r.tab]
      BY <1>5, <1>10, <3>1
    <3> QED
      BY <1>2, <1>12, <1>13, <3>1, <3>2, <3>3, <3>4, RequestStays DEF IInv
  <2> QED
    BY <1>1, <1>2, <2>1 DEF IInv, RequestsOK
<1>16. ASSUME NEW t \in Tabs, NEW k, NEW v, OnItsWay(t, k, v),
              ~(q.from # t /\ k = q.kind /\ v = q.rev)
       PROVE  OnItsWay(t, k, v)'
  <2>1. ASSUME NEW p \in relays, p.from # t, p.kind = k, p.rev = v
        PROVE  p \in relays'
    BY <1>1, <1>16, <2>1
  <2> QED
    BY <1>2, <1>16, <2>1 DEF OnItsWay
<1>17. ASSUME NEW t \in Tabs
       PROVE  ListOK(t)'
  <2>1. Marked(New(t)) <=> Marked(view[t])
    BY <1>8, <1>9
  <2>2. t \notin astray' \/ load[t] # "done" => Len(New(t)) <= 1
    <3>1. t \notin astray' => t \notin astray
      BY <1>1
    <3>2. t \notin astray' \/ load[t] # "done" => Len(view[t]) <= 1
      BY <1>5, <3>1 DEF ListOK
    <3>3. Len(view[t]) \in Nat /\ Len(New(t)) \in Nat
      BY <1>5, <1>11
    <3>4. New(t) = view[t] \/ Len(New(t)) <= Len(view[t]) \/ Len(New(t)) = 1
      BY <1>8, <1>9
    <3>5. t \notin astray' \/ load[t] # "done" => Len(New(t)) <= 1
      <4>1. Len(view[t]) <= 1 => Len(New(t)) <= 1
        BY <3>3, <3>4
      <4> QED
        BY <3>2, <4>1
    <3> QED
      BY <3>5
  <2>3. Has(New(t)) => Heard(t) # 0
    BY <1>4, <1>5, <1>8, <1>9, <1>10 DEF ListOK
  <2> QED
    BY <1>2, <1>5, <2>1, <2>2, <2>3 DEF ListOK
<1>18. ASSUME NEW t \in Tabs, t \notin astray'
       PROVE  Follows(t)'
  <2>1. /\ Follows(t) /\ ListOK(t) /\ t \notin astray
        /\ ~(Heeds(t, q) /\ told[t] > q.rev)
        /\ t \in InNeedOf(q) => t \in Receivers(q)
    BY <1>1, <1>18 DEF IInv
  <2>2. t \in InNeedOf(q) /\ ~(q.kind = "send" /\ Has(view[t])) => Heeds(t, q)
    BY <2>1 DEF Heeds
  <2>3. Len(view[t]) <= 1
    BY <2>1 DEF ListOK
  <2>4. Heeds(t, q) => Heard(t) = q.rev
    BY <1>4, <1>5, <1>10, <2>1
  <2>5. Late(t)' => Late(t) /\ (Heeds(t, q) => q.rev # rev)
    <3>1. Late(t) <=> /\ told[t] < rev
                      /\ load[t] = "done" \/ (load[t] = "read" /\ page[t].rev < rev)
      BY LateMeans DEF IInv
    <3>2. Late(t)' <=> /\ Heard(t) < rev
                       /\ load[t] = "done" \/ (load[t] = "read" /\ page[t].rev < rev)
      BY <1>2, <1>5, <1>12, LateMeans
    <3> QED
      BY <1>4, <1>5, <1>10, <2>4, <3>1, <3>2
  <2>6. ASSUME Late(t)'
        PROVE  News(t)'
    <3>1. PICK k \in Kinds : (k # "send" \/ rev = 1) /\ OnItsWay(t, k, rev)
      BY <2>1, <2>5, <2>6 DEF Follows, News
    <3>2. ~(q.from # t /\ k = q.kind /\ rev = q.rev)
      <4>1. SUFFICES ASSUME k = q.kind, rev = q.rev
                     PROVE  FALSE
        OBVIOUS
      <4>2. ~Heeds(t, q)
        BY <2>5, <2>6, <4>1
      <4>3. t \in InNeedOf(q)
        BY <2>5, <2>6, <4>1 DEF InNeedOf, Late
      <4>4. k = "send" /\ Has(view[t]) /\ rev = 1
        BY <2>2, <3>1, <4>1, <4>2, <4>3
      <4>5. told[t] >= rev
        BY <1>5, <2>1, <4>4 DEF ListOK
      <4>6. ~Late(t)
        BY <1>4, <1>5, <4>5, LateMeans DEF IInv
      <4> QED
        BY <2>5, <2>6, <4>6
    <3>3. PICK v : v = rev
      OBVIOUS
    <3>4. OnItsWay(t, k, v)'
      BY <1>16, <3>1, <3>2, <3>3
    <3>5. v = rev'
      BY <1>2, <3>3
    <3> QED
      BY <1>2, <3>1, <3>4, <3>5 DEF News
  <2>7. ASSUME Lacks(t)', row # None
        PROVE  Insertion(t)'
    <3>1. ~Has(New(t)) /\ q.kind # "delete"
      BY <1>3, <1>5, <2>7 DEF Lacks, NoticeOK
    <3>2. Lacks(t)
      BY <1>2, <1>8, <1>9, <2>7, <3>1 DEF Lacks
    <3>3. PICK v \in Revisions : OnItsWay(t, "send", v)
      BY <2>1, <2>7, <3>2 DEF Follows, Insertion
    <3>4. q.kind # "send"
      <4>1. SUFFICES ASSUME q.kind = "send"
                     PROVE  FALSE
        OBVIOUS
      <4>2. t \in InNeedOf(q)
        BY <3>2, <4>1 DEF InNeedOf, Lacks
      <4>3. Heeds(t, q)
        BY <2>2, <3>2, <4>2 DEF Lacks
      <4> QED
        BY <1>8, <3>1, <4>1, <4>3
    <3>5. OnItsWay(t, "send", v)'
      BY <1>16, <3>3, <3>4
    <3> QED
      BY <3>5 DEF Insertion
  <2>8. ASSUME Has(New(t)), Heard(t) = rev
        PROVE  /\ Editing(t)' \/ New(t) = <<row>>
               /\ \A r \in requests : r.kind = "edit" /\ r.at = "asked" /\ r.mounted /\ r.tab = t
                                      /\ r.rev = rev => r.prev = row
    <3>1. CASE ~Heeds(t, q)
      <4>1. New(t) = view[t] /\ Heard(t) = told[t]
        BY <1>9, <3>1
      <4>2. Editing(t) => Editing(t)'
        BY <1>2, <1>5, <4>1 DEF Editing
      <4> QED
        BY <2>1, <2>8, <4>1, <4>2 DEF Follows
    <3>2. CASE Heeds(t, q)
      <4>1. q.rev = rev /\ q.content = row /\ q.kind # "delete" /\ row # None
        BY <1>3, <1>8, <2>4, <2>8, <3>2, Apart
      <4>2. New(t) = <<row>>
        BY <1>8, <2>3, <2>8, <3>2, <4>1
      <4>3. ASSUME NEW r \in requests,
                   r.kind = "edit", r.at = "asked", r.mounted, r.tab = t, r.rev = rev
            PROVE  r.prev = row
        <5>1. r.rev <= told[t] /\ Has(view[t])
          BY <4>1, <4>3 DEF IInv, RequestsOK, RequestOK, AskedOK
        <5>2. told[t] = rev
          BY <1>4, <1>5, <4>3, <5>1
        <5> QED
          BY <2>1, <4>3, <5>1, <5>2 DEF Follows
      <4> QED
        BY <4>2, <4>3
    <3> QED
      BY <3>1, <3>2
  <2> QED
    BY <1>2, <1>5, <2>6, <2>7, <2>8 DEF Follows
<1>19. ASSUME NEW t \in Tabs
       PROVE  PageOK(t)'
  BY <1>2 DEF IInv, PageOK
<1> QED
  BY <1>12, <1>13, <1>14, <1>15, <1>17, <1>18, <1>19 DEF IInv

-----------------------------------------------------------------------------
(* The steps of the author, and of whoever deletes. *)

(* What a page has been told of is a revision. *)
LEMMA ToldRevision ==
  ASSUME TypeOK, NEW t \in Tabs
  PROVE  told[t] \in Revisions /\ told[t] \in Nat /\ told[t] <= rev /\ rev \in Nat
<1>1. told[t] \in 0..rev /\ rev \in Revisions
  BY DEF TypeOK
<1> QED
  BY <1>1, TimelineAssumption DEF Revisions

(* A deletion that is asked for changes nothing yet. *)
LEMMA DeleteKeeps ==
  ASSUME IInv, NEW t \in Tabs, Delete(t)
  PROVE  IInv'
<1>0. PICK n : n = [kind |-> "delete", tab |-> t, at |-> "asked", content |-> None,
                    prev |-> None, rev |-> told[t], mounted |-> TRUE]
  OBVIOUS
<1>1. /\ requests' = requests \cup {n}
      /\ UNCHANGED <<database, edits, buffered, relays, sockets, history, shows, bounds>>
      /\ load[t] # "closed" /\ Has(view[t])
  BY <1>0 DEF Delete, Offered
<1>2. /\ row' = row /\ rev' = rev /\ scheduled' = scheduled /\ edits' = edits
      /\ buffered' = buffered /\ relays' = relays /\ load' = load /\ page' = page
      /\ view' = view /\ told' = told /\ astray' = astray
  BY <1>1 DEF database, history, shows
<1>3. told[t] \in Revisions /\ told[t] \in Nat /\ told[t] <= rev /\ rev \in Nat
  BY ToldRevision DEF IInv
<1>4. rev # 0
  BY <1>1, <1>3 DEF IInv, ListOK
<1>5. /\ n \in Request /\ n.kind = "delete" /\ n.tab = t /\ n.at = "asked" /\ n.content = None
      /\ n.rev = told[t]
  BY <1>0, <1>3 DEF Request, Kinds
<1>6. TypeOK'
  <2>1. DataTypes /\ SocketTypes /\ PageTypes
    BY TypeParts DEF IInv
  <2>2. requests' \subseteq Request
    BY <1>1, <1>5, <2>1 DEF DataTypes
  <2>3. DataTypes'
    BY <1>1, <1>2, <2>1, <2>2 DEF DataTypes, bounds
  <2>4. SocketTypes'
    BY <1>1, <2>1 DEF SocketTypes, sockets
  <2>5. PageTypes'
    BY <1>2, <2>1 DEF PageTypes
  <2> QED
    BY <2>3, <2>4, <2>5, TypeParts
<1>7. RowOK'
  BY <1>1, <1>2, <1>4, <1>5 DEF IInv, RowOK
<1>8. RelaysOK'
  BY <1>2 DEF IInv, RelaysOK, NoticeOK
<1>9. RequestsOK'
  <2>1. ASSUME NEW r \in requests
        PROVE  RequestOK(r)'
    BY <1>2 DEF IInv, RequestsOK, RequestOK, AskedOK, NoticeOK
  <2>2. RequestOK(n)'
    BY <1>1, <1>2, <1>3, <1>4, <1>5 DEF RequestOK, AskedOK
  <2> QED
    BY <1>1, <1>2, <1>5, <2>1, <2>2 DEF IInv, RequestsOK
<1>10. ASSUME NEW u \in Tabs
       PROVE  PageOK(u)' /\ ListOK(u)' /\ (u \notin astray' => Follows(u)')
  <2>1. PageOK(u)'
    BY <1>2 DEF IInv, PageOK
  <2>2. ListOK(u)'
    BY <1>1, <1>2 DEF IInv, ListOK
  <2>3. ASSUME u \notin astray'
        PROVE  Follows(u)'
    <3>1. Follows(u) /\ rev \in Revisions
      BY <1>2, <2>3 DEF IInv, TypeOK
    <3>2. \A k \in Kinds : \A v \in Revisions : OnItsWay(u, k, v) => OnItsWay(u, k, v)'
      BY <1>1, <1>2 DEF OnItsWay
    <3>3. \A r : r.kind = "edit" /\ r.at = "asked" /\ r.mounted /\ r.tab = u =>
                   (r \in requests <=> r \in requests')
      BY <1>1, <1>5
    <3> QED
      BY <1>2, <3>1, <3>2, <3>3, FollowsStays
  <2> QED
    BY <2>1, <2>2, <2>3
<1> QED
  BY <1>6, <1>7, <1>8, <1>9, <1>10 DEF IInv

(* The author's message is shown as a placeholder. *)
LEMMA SendKeeps ==
  ASSUME IInv, Send
  PROVE  IInv'
<1>0. PICK n : n = [kind |-> "send", tab |-> Author, at |-> "asked", content |-> 0,
                    prev |-> None, rev |-> told[Author], mounted |-> TRUE]
  OBVIOUS
<1> DEFINE new == Append(view[Author], Pending)
<1>1. /\ requests' = {n} /\ requests = {} /\ rev = 0 /\ ~scheduled
      /\ view' = [view EXCEPT ![Author] = new]
      /\ UNCHANGED <<database, edits, buffered, relays, sockets, history, told, astray, bounds>>
      /\ load[Author] # "closed"
  BY <1>0 DEF Send
<1>2. /\ row' = row /\ rev' = rev /\ scheduled' = scheduled /\ edits' = edits
      /\ buffered' = buffered /\ relays' = relays /\ load' = load /\ page' = page
      /\ told' = told /\ astray' = astray
  BY <1>1 DEF database, history
<1>3. /\ Author \in Tabs /\ told[Author] \in Revisions /\ told[Author] \in Nat
      /\ told[Author] <= rev
  BY TimelineAssumption, ToldRevision DEF IInv
<1>4. /\ n \in Request /\ n.kind = "send" /\ n.tab = Author /\ n.at = "asked" /\ n.content = 0
      /\ n.rev = told[Author] /\ n.mounted
  BY <1>0, <1>3, Apart DEF Request, Kinds
<1>5. /\ view[Author] \in Seq(Entries) /\ view[Author] = <<>>
      /\ \A u \in Tabs : ~Has(view[u]) /\ ~Marked(view[u])
  <2>1. \A u \in Tabs : /\ view[u] \in Seq(Entries) /\ ~Marked(view[u])
                        /\ Has(view[u]) => told[u] # 0
    BY <1>1 DEF IInv, ListOK, TypeOK
  <2>2. \A u \in Tabs : told[u] = 0
    BY <1>1, ToldRevision DEF IInv
  <2> QED
    BY <1>3, <2>1, <2>2, Nothing
<1>6. new \in Seq(Entries) /\ Len(new) = 1 /\ ~Has(new) /\ Marked(new)
  <2>1. Len(view[Author]) = 0
    BY <1>5
  <2>2. /\ new \in Seq(Entries) /\ Len(new) = Len(view[Author]) + 1
        /\ Has(new) <=> Has(view[Author]) \/ Pending # Pending
        /\ Marked(new) <=> Marked(view[Author]) \/ Pending = Pending
    BY <1>5, Apart, AppendedKeeps
  <2> HIDE DEF new
  <2> QED
    BY <1>3, <1>5, <2>1, <2>2
<1> HIDE DEF new
<1>7. /\ view'[Author] = new
      /\ \A u \in Tabs : u # Author => view'[u] = view[u]
      /\ \A u \in Tabs : ~Has(view'[u])
  BY <1>1, <1>3, <1>5, <1>6 DEF IInv, TypeOK
<1>8. TypeOK'
  <2>1. DataTypes /\ SocketTypes /\ PageTypes
    BY TypeParts DEF IInv
  <2>2. requests' \subseteq Request
    BY <1>1, <1>4
  <2>3. DataTypes'
    BY <1>1, <1>2, <2>1, <2>2 DEF DataTypes, bounds
  <2>4. SocketTypes'
    BY <1>1, <2>1 DEF SocketTypes, sockets
  <2>5. view' \in [Tabs -> Seq(Entries)]
    BY <1>1, <1>6, <2>1 DEF PageTypes
  <2>6. \A u \in Tabs : Len(view'[u]) <= 2 /\ (load[u] = "closed" => view'[u] = <<>>)
    <3>1. Len(view'[Author]) = 1
      BY <1>6, <1>7
    <3>2. load[Author] # "closed"
      BY <1>1
    <3>3. \A u \in Tabs : u # Author =>
            Len(view'[u]) <= 2 /\ (load[u] = "closed" => view'[u] = <<>>)
      BY <1>7, <2>1 DEF PageTypes
    <3>4. Len(view'[Author]) <= 2
      BY <3>1
    <3> QED
      BY <3>2, <3>3, <3>4
  <2>7. PageTypes'
    BY <1>2, <2>1, <2>5, <2>6 DEF PageTypes
  <2> QED
    BY <2>3, <2>4, <2>7, TypeParts
<1>9. RowOK'
  BY <1>1, <1>2 DEF IInv, RowOK
<1>10. RelaysOK'
  BY <1>2 DEF IInv, RelaysOK, NoticeOK
<1>11. row = None /\ relays = {} /\ \A u \in Tabs : buffered[u] = {}
  BY <1>1 DEF IInv, RowOK
<1>12. RequestsOK'
  <2>1. RequestOK(n)'
    BY <1>1, <1>2, <1>3, <1>4, <1>6, <1>7 DEF RequestOK, AskedOK
  <2> QED
    BY <1>1, <1>2, <1>11, <2>1 DEF RequestsOK
<1>13. ASSUME NEW u \in Tabs
       PROVE  PageOK(u)' /\ ListOK(u)' /\ (u \notin astray' => Follows(u)')
  <2>1. PageOK(u)'
    BY <1>2 DEF IInv, PageOK
  <2>2. ListOK(u)'
    <3>1. u = Author => ListOK(u)'
      <4>1. \E r \in requests' : r.kind = "send" /\ r.mounted
        BY <1>1, <1>4
      <4>2. Len(view'[Author]) = 1 /\ ~Has(view'[Author])
        BY <1>3, <1>6, <1>7
      <4>3. Len(view'[Author]) <= 1
        BY <4>2
      <4> QED
        BY <4>1, <4>2, <4>3 DEF ListOK
    <3>2. u # Author => ListOK(u)'
      BY <1>2, <1>5, <1>7 DEF IInv, ListOK
    <3> QED
      BY <3>1, <3>2
  <2>3. Follows(u)'
    <3>1. ~Late(u)'
      BY <1>1, <1>2, <1>8, ToldRevision, LateMeans DEF IInv
    <3> QED
      BY <1>2, <1>7, <1>11, <3>1 DEF Follows
  <2> QED
    BY <2>1, <2>2, <2>3
<1> QED
  BY <1>8, <1>9, <1>10, <1>12, <1>13 DEF IInv

(* An edit is taken from the message as shown, which for a page that is up to date is
   the row; until it is answered the page shows the edit. *)
LEMMA EditKeeps ==
  ASSUME IInv, Edit
  PROVE  IInv'
<1>0. PICK n : n = [kind |-> "edit", tab |-> Author, at |-> "asked", content |-> edits',
                    prev |-> Shown(Author), rev |-> told[Author], mounted |-> TRUE]
  OBVIOUS
<1> DEFINE list == view[Author]
           new == Patched(view[Author], edits')
<1>1. /\ requests' = requests \cup {n} /\ edits' = edits + 1 /\ edits < MaxEdits
      /\ \A r \in requests : r.kind # "edit"
      /\ view' = [view EXCEPT ![Author] = new]
      /\ UNCHANGED <<database, buffered, relays, sockets, history, told, astray, bounds>>
      /\ load[Author] # "closed" /\ Has(list)
  BY <1>0 DEF Edit, Offered
<1>2. /\ row' = row /\ rev' = rev /\ scheduled' = scheduled
      /\ buffered' = buffered /\ relays' = relays /\ load' = load /\ page' = page
      /\ told' = told /\ astray' = astray
  BY <1>1 DEF database, history
<1>3. /\ Author \in Tabs /\ told[Author] \in Revisions /\ told[Author] \in Nat
      /\ told[Author] <= rev /\ rev \in Nat
  BY TimelineAssumption, ToldRevision DEF IInv
<1>4. edits \in Nat /\ edits' \in Contents
  BY <1>1, TimelineAssumption DEF IInv, TypeOK, Contents
<1>5. list \in Seq(Entries) /\ ListOK(Author) /\ rev # 0
  BY <1>1, <1>3 DEF IInv, TypeOK, ListOK
<1>6. Shown(Author) \in Contents
  <2>1. \E i \in DOMAIN list : list[i] # Pending
    BY <1>1 DEF Has
  <2>2. Shown(Author) # Pending /\ \E i \in DOMAIN list : Shown(Author) = list[i]
    BY <2>1 DEF Shown
  <2>3. \A i \in DOMAIN list : list[i] \in Entries
    BY <1>5
  <2> QED
    BY <2>2, <2>3 DEF Entries
<1>7. ASSUME NEW c \in Contents, list = <<c>>
      PROVE  Shown(Author) = c
  <2>1. DOMAIN list = {1} /\ list[1] = c /\ c # Pending
    BY <1>7, Apart
  <2> QED
    BY <2>1 DEF Shown
<1>8. /\ new \in Seq(Entries) /\ Len(new) = Len(list) /\ Has(new)
      /\ Marked(new) <=> Marked(list)
  BY <1>1, <1>4, <1>5, PatchedKeeps
<1>9. /\ n \in Request /\ n.kind = "edit" /\ n.tab = Author /\ n.at = "asked" /\ n.content = edits'
      /\ n.prev = Shown(Author) /\ n.rev = told[Author] /\ n.mounted
  BY <1>0, <1>3, <1>4, <1>6 DEF Request, Kinds
<1> HIDE DEF new
<1>10. /\ view'[Author] = new
       /\ \A u \in Tabs : u # Author => view'[u] = view[u]
  BY <1>1, <1>3 DEF IInv, TypeOK
<1>11. TypeOK'
  <2>1. DataTypes /\ SocketTypes /\ PageTypes
    BY TypeParts DEF IInv
  <2>2. requests' \subseteq Request
    BY <1>1, <1>9, <2>1 DEF DataTypes
  <2>3. DataTypes'
    BY <1>1, <1>2, <1>4, <2>1, <2>2 DEF DataTypes, bounds
  <2>4. SocketTypes'
    BY <1>1, <2>1 DEF SocketTypes, sockets
  <2>5. view' \in [Tabs -> Seq(Entries)]
    BY <1>1, <1>8, <2>1 DEF PageTypes
  <2>6. Len(view'[Author]) <= 2 /\ load[Author] # "closed"
    BY <1>1, <1>3, <1>8, <1>10, <2>1 DEF PageTypes
  <2>7. ASSUME NEW u \in Tabs
        PROVE  Len(view'[u]) <= 2 /\ (load[u] = "closed" => view'[u] = <<>>)
    BY <1>10, <2>1, <2>6 DEF PageTypes
  <2>8. PageTypes'
    BY <1>2, <2>1, <2>5, <2>7 DEF PageTypes
  <2> QED
    BY <2>3, <2>4, <2>8, TypeParts
<1>12. RowOK'
  <2>1. \A r \in requests' : r \in requests \/ r = n
    BY <1>1
  <2>2. RowOK /\ ~scheduled
    BY <1>5 DEF IInv, RowOK
  <2>3. rev <= edits + 1 => rev <= edits'
    BY <1>1, <1>3, <1>4
  <2>4. rev <= edits' => rev <= edits' + 1
    BY <1>1, <1>3, <1>4
  <2>5. rev <= edits + 2 => rev <= edits' + 2
    BY <1>1, <1>3, <1>4
  <2> QED
    BY <1>2, <1>5, <2>2, <2>3, <2>4, <2>5 DEF RowOK
<1>13. RelaysOK'
  BY <1>2 DEF IInv, RelaysOK, NoticeOK
<1>14. RequestsOK'
  <2>1. ASSUME NEW r \in requests
        PROVE  RequestOK(r)'
    <3>1. RequestOK(r) /\ r \in Request /\ r.tab \in Tabs
      BY DEF IInv, RequestsOK, TypeOK, Request
    <3>2. Has(view[r.tab]) => Has(view'[r.tab])
      BY <1>8, <1>10, <3>1
    <3>3. Marked(view[Author]) => Marked(view'[Author])
      BY <1>8, <1>10
    <3>4. told[r.tab] <= told'[r.tab]
      BY <1>2, <3>1, ToldRevision DEF IInv
    <3> QED
      BY <1>2, <1>11, <1>12, <3>1, <3>2, <3>3, <3>4, RequestStays DEF IInv
  <2>2. RequestOK(n)'
    <3>1. Has(view'[Author]) /\ told'[Author] = told[Author] /\ load'[Author] # "closed"
      BY <1>1, <1>2, <1>8, <1>10
    <3> QED
      BY <1>2, <1>3, <1>4, <1>5, <1>6, <1>9, <3>1 DEF RequestOK, AskedOK
  <2> QED
    BY <1>1, <1>2, <1>9, <2>1, <2>2 DEF IInv, RequestsOK
<1>15. ASSUME NEW u \in Tabs, NEW k, NEW v, OnItsWay(u, k, v)
       PROVE  OnItsWay(u, k, v)'
  BY <1>1, <1>2, <1>15 DEF OnItsWay
<1>16. ASSUME NEW u \in Tabs
       PROVE  PageOK(u)' /\ ListOK(u)' /\ (u \notin astray' => Follows(u)')
  <2>1. PageOK(u)'
    BY <1>2 DEF IInv, PageOK
  <2>2. ListOK(u)'
    <3>1. \A r \in requests : r \in requests'
      BY <1>1
    <3>2. ListOK(u)
      BY DEF IInv
    <3>3. u = Author => ListOK(u)'
      BY <1>1, <1>2, <1>8, <1>10, <3>1, <3>2 DEF ListOK
    <3>4. u # Author => ListOK(u)'
      BY <1>2, <1>10, <3>1, <3>2 DEF ListOK
    <3> QED
      BY <3>3, <3>4
  <2>3. ASSUME u \notin astray'
        PROVE  Follows(u)'
    <3>1. Follows(u) /\ rev \in Revisions
      BY <1>2, <2>3 DEF IInv, TypeOK
    <3>2. CASE u # Author
      <4>1. \A r : r.kind = "edit" /\ r.at = "asked" /\ r.mounted /\ r.tab = u =>
                     (r \in requests <=> r \in requests')
        BY <1>1, <1>9, <3>2
      <4> QED
        BY <1>2, <1>10, <1>15, <3>1, <3>2, <4>1, FollowsStays
    <3>3. CASE u = Author
      <4>1. (Late(u)' => Late(u)) /\ (Lacks(u)' => Lacks(u))
        BY <1>1, <1>2, <1>8, <1>10, <3>3 DEF Late, Behind, Lacks
      <4>2. (News(u) => News(u)') /\ (Insertion(u) => Insertion(u)')
        BY <1>2, <1>15 DEF News, Insertion
      <4>3. Editing(u)'
        BY <1>1, <1>2, <1>9, <3>3 DEF Editing
      <4>4. ASSUME told[u] = rev
            PROVE  Shown(Author) = row
        <5>1. ~Editing(u)
          BY <1>1 DEF Editing
        <5>2. list = <<row>> /\ list[1] = row /\ 1 \in DOMAIN list
          BY <1>1, <3>1, <3>3, <4>4, <5>1 DEF Follows
        <5>3. row \in Entries
          BY <1>5, <5>2
        <5>4. row \in Contents
          BY <5>3, Apart DEF IInv, TypeOK
        <5> QED
          BY <1>7, <5>2, <5>4
      <4>5. \A r \in requests' : r.kind = "edit" /\ told[u] = rev => r.prev = row
        BY <1>1, <1>9, <4>4
      <4> QED
        BY <1>2, <3>1, <4>1, <4>2, <4>3, <4>5 DEF Follows
    <3> QED
      BY <3>2, <3>3
  <2> QED
    BY <2>1, <2>2, <2>3
<1> QED
  BY <1>11, <1>12, <1>13, <1>14, <1>16 DEF IInv

-----------------------------------------------------------------------------
(* The steps that write the row. *)

(* A write makes every page late and no notice wrong: whatever is on its way is of an
   earlier revision, and none of it is a deletion. *)
LEMMA WriteKeeps ==
  ASSUME IInv, TypeOK', rev' = rev + 1, row # None \/ rev = 0,
         load' = load, page' = page, view' = view, told' = told, astray \subseteq astray'
  PROVE  /\ \A k, v : NoticeOK(k, v) => NoticeOK(k, v)'
         /\ \A k, v : NoticeOK(k, v) => v # rev'
         /\ \A t \in Tabs : PageOK(t)'
         /\ \A t \in Tabs : (Late(t) => News(t))' /\ (Lacks(t) /\ row # None => Insertion(t))'
                              => Follows(t)'
<1>1. rev \in Nat
  BY Typed DEF IInv
<1>2. ASSUME NEW k, NEW v, NoticeOK(k, v)
      PROVE  NoticeOK(k, v)' /\ v # rev'
  BY <1>1, <1>2 DEF NoticeOK
<1>3. ASSUME NEW t \in Tabs
      PROVE  PageOK(t)'
  <2>1. page[t] # None => page[t].rev \in Nat
    <3>1. page[t] # None => page[t] \in Page
      BY DEF IInv, TypeOK
    <3> QED
      BY <3>1, Apart DEF Page
  <2> QED
    BY <1>1, <2>1 DEF IInv, PageOK, RowOK
<1>4. ASSUME NEW t \in Tabs
      PROVE  told'[t] # rev'
  BY <1>1, ToldRevision DEF IInv
<1> QED
  BY <1>2, <1>3, <1>4 DEF Follows

(* A request that has written the row is the news for every page. *)
LEMMA WriteRowKeeps ==
  ASSUME IInv, NEW r \in requests, r.at # "done", r.kind = "send" \/ row # None, WriteRow(r)
  PROVE  IInv'
<1>0. PICK d : d = [r EXCEPT !.at = "done", !.rev = rev + 1]
  OBVIOUS
<1>1. /\ r.at # "done" /\ (r.kind = "send" \/ row # None)
      /\ row' = r.content /\ rev' = rev + 1
      /\ requests' = (requests \ {r}) \cup {d}
      /\ UNCHANGED <<scheduled, edits, buffered, relays, sockets, history, shows, bounds>>
  BY <1>0 DEF WriteRow, Moves
<1>2. /\ load' = load /\ page' = page /\ view' = view /\ told' = told /\ astray' = astray
      /\ scheduled' = scheduled /\ edits' = edits /\ buffered' = buffered /\ relays' = relays
  BY <1>1 DEF history, shows
<1>3. /\ rev \in Nat /\ edits \in Nat /\ edits <= MaxEdits /\ rev <= edits + 2 /\ MaxEdits \in Nat
      /\ row \in Contents \cup {None}
  BY Typed DEF IInv
<1>4. /\ r \in Request /\ RequestOK(r) /\ AskedOK(r)
      /\ r.kind \in Kinds
  BY <1>1 DEF IInv, TypeOK, RequestsOK, RequestOK, Request
<1>5. r.kind = "send" <=> rev = 0
  BY <1>4 DEF AskedOK
<1>6. ~scheduled
  BY DEF IInv, RowOK
<1>7. \A s \in requests \ {r} : s.kind = r.kind => s.kind = "delete"
  BY DEF IInv, RequestsOK
<1>8. \A s \in requests \ {r} : s.at # "done" => s.kind # "send" /\ rev # 0
  BY <1>5, <1>7 DEF IInv, RequestsOK, RequestOK, AskedOK
<1>9. r.kind = "edit" => rev <= edits
  <2>1. r.kind = "edit" => r.at = "asked"
    BY <1>1, <1>4 DEF Request, RequestOK
  <2> QED
    BY <1>1, <2>1 DEF IInv, RowOK
<1>10. rev + 1 <= edits + 2 /\ (row' # None => rev + 1 <= edits + 1)
  <2>1. CASE r.kind = "send"
    BY <1>3, <1>5, <2>1
  <2>2. CASE r.kind = "edit"
    BY <1>3, <1>9, <2>2
  <2>3. CASE r.kind = "delete"
    BY <1>1, <1>3, <1>4, <2>3 DEF IInv, RowOK, RequestOK
  <2> QED
    BY <1>4, <2>1, <2>2, <2>3 DEF Kinds
<1>11. rev + 1 \in Revisions
  BY <1>3, <1>10, RevisionStays
<1>12. r.content \in Contents \cup {None} /\ (r.content = None <=> r.kind = "delete")
  BY <1>4, Apart DEF RequestOK, Kinds
<1>13. /\ d \in Request /\ d.kind = r.kind /\ d.tab = r.tab /\ d.at = "done"
       /\ d.content = r.content /\ d.prev = r.prev /\ d.rev = rev' /\ d.mounted = r.mounted
  BY <1>0, <1>1, <1>4, <1>11 DEF Request
<1>14. TypeOK'
  <2>1. DataTypes /\ SocketTypes /\ PageTypes
    BY TypeParts DEF IInv
  <2>2. requests' \subseteq Request
    BY <1>1, <1>13, <2>1 DEF DataTypes
  <2>3. DataTypes'
    BY <1>1, <1>2, <1>11, <1>12, <2>1, <2>2 DEF DataTypes, bounds
  <2>4. SocketTypes'
    BY <1>1, <2>1 DEF SocketTypes, sockets
  <2>5. told \in [Tabs -> 0..(rev + 1)]
    BY <1>3, <2>1 DEF PageTypes
  <2>6. PageTypes'
    BY <1>1, <1>2, <2>1, <2>5 DEF PageTypes
  <2> QED
    BY <2>3, <2>4, <2>6, TypeParts
<1>15. row # None \/ rev = 0
  BY <1>1, <1>5
<1>16. RowOK'
  <2>1. rev' # 0 /\ (rev' = 1 => row' # None)
    BY <1>1, <1>3, <1>5, <1>12
  <2>2. ASSUME row' # None, NEW s \in requests', s.kind = "edit", s.at = "asked"
        PROVE  FALSE
    <3>1. s \in requests \ {r}
      BY <1>1, <1>13, <2>2
    <3>2. r.kind = "delete"
      BY <1>4, <1>5, <1>7, <1>8, <2>2, <3>1 DEF Kinds
    <3> QED
      BY <1>1, <1>12, <2>2, <3>2
  <2> QED
    BY <1>1, <1>2, <1>6, <1>10, <2>1, <2>2 DEF RowOK
<1>17. /\ \A k, v : NoticeOK(k, v) => NoticeOK(k, v)'
       /\ \A k, v : NoticeOK(k, v) => v # rev'
       /\ \A t \in Tabs : PageOK(t)'
       /\ \A t \in Tabs : (Late(t) => News(t))' /\ (Lacks(t) /\ row # None => Insertion(t))'
                            => Follows(t)'
  BY <1>1, <1>2, <1>14, <1>15, WriteKeeps
<1>18. RelaysOK'
  <2>1. ASSUME NEW q \in relays
        PROVE  /\ NoticeOK(q.kind, q.rev)' /\ q.rev # rev'
               /\ q.at = "read" /\ q.kind # "delete" => q.content \in Contents
    BY <1>17 DEF IInv, RelaysOK
  <2>2. \A t \in Tabs : \A e \in buffered[t] : NoticeOK(e.kind, e.rev)'
    BY <1>17 DEF IInv, RelaysOK
  <2> QED
    BY <1>2, <2>1, <2>2 DEF RelaysOK
<1>19. RequestsOK'
  <2>1. ASSUME NEW s \in requests \ {r}
        PROVE  RequestOK(s)'
    <3>1. RequestOK(s)
      BY DEF IInv, RequestsOK
    <3>2. s.at # "done" => AskedOK(s)'
      BY <1>1, <1>2, <1>3, <1>8, <1>15, <3>1 DEF RequestOK, AskedOK
    <3>3. s.at = "done" => NoticeOK(s.kind, s.rev)' /\ s.rev # rev'
      BY <1>17, <3>1 DEF RequestOK
    <3> QED
      BY <1>2, <3>1, <3>2, <3>3 DEF RequestOK
  <2>2. RequestOK(d)'
    <3>1. NoticeOK(d.kind, d.rev)'
      BY <1>1, <1>3, <1>12, <1>13 DEF NoticeOK
    <3>2. d.kind = "send" => d.rev = 1
      BY <1>1, <1>5, <1>13
    <3> QED
      BY <1>1, <1>2, <1>4, <1>13, <3>1, <3>2 DEF RequestOK
  <2>3. \A s \in requests' : s \in requests \ {r} \/ s = d
    BY <1>1
  <2>4. \A s, p \in requests' : s.kind = p.kind /\ s.kind # "delete" => s = p
    BY <1>7, <1>13, <2>3 DEF IInv, RequestsOK
  <2>5. \A s \in requests' : s.kind = "send" =>
          /\ \A q \in relays : q.kind # "send"
          /\ \A t \in Tabs : \A e \in buffered[t] : e.kind # "send"
    BY <1>13, <2>3 DEF IInv, RequestsOK
  <2> QED
    BY <1>2, <2>1, <2>2, <2>3, <2>4, <2>5 DEF RequestsOK
<1>20. ASSUME NEW t \in Tabs
       PROVE  ListOK(t)'
  <2>1. \A s \in requests : s.kind = "send" /\ s.mounted =>
                              \E p \in requests' : p.kind = "send" /\ p.mounted
    BY <1>1, <1>13
  <2>2. ListOK(t)
    BY DEF IInv
  <2> QED
    BY <1>2, <2>1, <2>2 DEF ListOK
<1>21. ASSUME NEW t \in Tabs
       PROVE  OnItsWay(t, d.kind, d.rev)'
  BY <1>1, <1>13 DEF OnItsWay
<1>22. ASSUME NEW t \in Tabs, NEW k, NEW v, OnItsWay(t, k, v)
       PROVE  OnItsWay(t, k, v)'
  <2>1. \A s \in requests : s.at = "done" => s \in requests'
    BY <1>1
  <2> QED
    BY <1>2, <1>22, <2>1 DEF OnItsWay
<1>23. ASSUME NEW t \in Tabs, t \notin astray'
       PROVE  Follows(t)'
  <2>1. News(t)'
    <3>1. d.kind # "send" \/ rev' = 1
      BY <1>1, <1>5, <1>13
    <3> QED
      BY <1>4, <1>13, <1>21, <3>1 DEF News
  <2>2. ASSUME Lacks(t)', row' # None
        PROVE  Insertion(t)'
    <3>1. CASE r.kind = "send"
      BY <1>1, <1>11, <1>13, <1>21, <3>1 DEF Insertion
    <3>2. CASE r.kind # "send"
      <4>1. Insertion(t)
        BY <1>1, <1>2, <1>23, <2>2, <3>2 DEF IInv, Follows, Lacks
      <4> QED
        BY <1>22, <4>1 DEF Insertion
    <3> QED
      BY <3>1, <3>2
  <2> QED
    BY <1>17, <2>1, <2>2
<1> QED
  BY <1>14, <1>16, <1>17, <1>18, <1>19, <1>20, <1>23 DEF IInv

(* A deletion that finds the row, or that finds it gone when it is to remove it, moves
   on: it changes nothing a page waits for. *)
LEMMA DeletionMoves ==
  ASSUME IInv, NEW r \in requests, NEW at \in {"found", "done"}, NEW v \in Revisions,
         r.kind = "delete", r.at # "done", Moves(r, at, v),
         at = "found" => v = r.rev,
         at = "done" => v = rev /\ row = None,
         UNCHANGED <<database, edits, buffered, relays, sockets, history, shows, bounds>>
  PROVE  IInv'
<1>0. PICK d : d = [r EXCEPT !.at = at, !.rev = v]
  OBVIOUS
<1>1. /\ requests' = (requests \ {r}) \cup {d}
      /\ row' = row /\ rev' = rev /\ scheduled' = scheduled /\ edits' = edits
      /\ buffered' = buffered /\ relays' = relays /\ load' = load /\ page' = page
      /\ view' = view /\ told' = told /\ astray' = astray
  BY <1>0 DEF Moves, database, history, shows
<1>2. r \in Request /\ RequestOK(r) /\ AskedOK(r)
  BY DEF IInv, TypeOK, RequestsOK, RequestOK
<1>3. /\ d \in Request /\ d.kind = "delete" /\ d.tab = r.tab /\ d.at = at
      /\ d.content = r.content /\ d.prev = r.prev /\ d.rev = v /\ d.mounted = r.mounted
  BY <1>0, <1>2 DEF Request
<1>4. rev \in Nat /\ rev # 0
  BY <1>2, Typed DEF IInv, AskedOK
<1>5. TypeOK'
  <2>1. DataTypes /\ SocketTypes /\ PageTypes
    BY TypeParts DEF IInv
  <2>2. DataTypes'
    BY <1>1, <1>3, <2>1 DEF DataTypes, bounds
  <2>3. SocketTypes'
    BY <1>1, <2>1 DEF SocketTypes, sockets
  <2>4. PageTypes'
    BY <1>1, <2>1 DEF PageTypes
  <2> QED
    BY <2>2, <2>3, <2>4, TypeParts
<1>6. RowOK'
  BY <1>1, <1>3, <1>4 DEF IInv, RowOK
<1>7. RelaysOK'
  BY <1>1 DEF IInv, RelaysOK, NoticeOK
<1>8. ASSUME NEW s \in requests
      PROVE  RequestOK(s)'
  BY <1>1 DEF IInv, RequestsOK, RequestOK, AskedOK, NoticeOK
<1>9. RequestOK(d)'
  <2>1. CASE at = "found"
    BY <1>1, <1>2, <1>3, <2>1 DEF RequestOK, AskedOK
  <2>2. CASE at = "done"
    BY <1>1, <1>2, <1>3, <1>4, <2>2 DEF RequestOK, NoticeOK
  <2> QED
    BY <2>1, <2>2
<1>10. \A s \in requests' : s = d \/ (s \in requests /\ s # r)
  BY <1>1
<1>11. RequestsOK'
  BY <1>1, <1>3, <1>8, <1>9, <1>10 DEF IInv, RequestsOK
<1>12. ASSUME NEW t \in Tabs
       PROVE  PageOK(t)' /\ ListOK(t)'
  <2>1. \A s \in requests : s.kind = "send" => s \in requests'
    BY <1>1
  <2> QED
    BY <1>1, <2>1 DEF IInv, PageOK, ListOK
<1>13. ASSUME NEW t \in Tabs, t \notin astray'
       PROVE  Follows(t)'
  <2>1. \A s \in requests : s.at = "done" => s \in requests'
    BY <1>1
  <2>2. \A k \in Kinds : \A n \in Revisions : OnItsWay(t, k, n) => OnItsWay(t, k, n)'
    BY <1>1, <2>1 DEF OnItsWay
  <2>3. \A s : s.kind = "edit" /\ s.at = "asked" /\ s.mounted /\ s.tab = t =>
                 (s \in requests <=> s \in requests')
    BY <1>1, <1>3
  <2>4. rev \in Revisions
    BY DEF IInv, TypeOK
  <2> QED
    BY <1>1, <1>13, <2>2, <2>3, <2>4, FollowsStays DEF IInv
<1> QED
  BY <1>5, <1>6, <1>7, <1>11, <1>12, <1>13 DEF IInv

(* What a route does with the row keeps the invariant. *)
LEMMA ProceedKeeps ==
  ASSUME IInv, NEW r \in requests, Proceed(r)
  PROVE  IInv'
<1>1. r \in Request /\ RequestOK(r) /\ rev \in Revisions
  BY DEF IInv, TypeOK, RequestsOK
<1>2. CASE Find(r)
  BY <1>1, <1>2, DeletionMoves DEF Find, Request
<1>3. CASE InsertRow(r)
  BY <1>3, WriteRowKeeps DEF InsertRow
<1>4. CASE UpdateRow(r)
  BY <1>4, WriteRowKeeps DEF UpdateRow
<1>5. CASE DeleteRow(r)
  <2>1. r.kind = "delete" /\ r.at # "done"
    BY <1>1, <1>5 DEF DeleteRow, RequestOK
  <2>2. CASE row # None /\ WriteRow(r)
    BY <2>1, <2>2, WriteRowKeeps
  <2>3. CASE /\ row = None
             /\ Moves(r, "done", rev)
             /\ UNCHANGED <<database, edits, buffered, relays, sockets, history, shows, bounds>>
    BY <1>1, <2>1, <2>3, DeletionMoves
  <2> QED
    BY <1>5, <2>2, <2>3 DEF DeleteRow
<1> QED
  BY <1>2, <1>3, <1>4, <1>5 DEF Proceed

(* A scheduled message is written before anything else can be on its way. *)
LEMMA DeliverScheduledKeeps ==
  ASSUME IInv, NEW announced \in BOOLEAN, DeliverScheduled(announced)
  PROVE  IInv'
<1>1. /\ scheduled /\ scheduled' = FALSE /\ row' = 0 /\ rev' = rev + 1
      /\ UNCHANGED <<edits, requests, buffered, sockets, history, view, told, bounds>>
  BY DEF DeliverScheduled
<1>2. /\ load' = load /\ page' = page /\ view' = view /\ told' = told
      /\ edits' = edits /\ requests' = requests /\ buffered' = buffered
  BY <1>1 DEF history
<1>3. /\ rev = 0 /\ rev' = 1 /\ requests = {} /\ relays = {} /\ row = None
      /\ \A t \in Tabs : buffered[t] = {}
  BY <1>1 DEF IInv, RowOK
<1>4. edits \in Nat /\ 1 \in Revisions /\ 0 \in Contents
  BY Apart, TimelineAssumption, Typed DEF IInv, Revisions
<1>5. PICK q : q = [kind |-> "send", from |-> None, at |-> "read", content |-> 0, rev |-> 1]
  OBVIOUS
<1>6. /\ q \in Relay /\ q.kind = "send" /\ q.from = None /\ q.at = "read" /\ q.content = 0 /\ q.rev = 1
  BY <1>4, <1>5 DEF Relay, Kinds
<1>7. IF announced THEN relays' = {q} /\ astray' = astray
                   ELSE relays' = {} /\ astray' = astray \cup Behind(1)
  BY <1>3, <1>5 DEF DeliverScheduled
<1>8. TypeOK'
  <2>1. DataTypes /\ SocketTypes /\ PageTypes
    BY TypeParts DEF IInv
  <2>2. relays' \subseteq Relay
    BY <1>6, <1>7
  <2>3. DataTypes'
    BY <1>1, <1>2, <1>3, <1>4, <2>1, <2>2 DEF DataTypes, bounds
  <2>4. SocketTypes'
    BY <1>1, <2>1 DEF SocketTypes, sockets
  <2>5. told \in [Tabs -> 0..1] /\ astray' \subseteq Tabs
    BY <1>3, <1>7, <2>1 DEF PageTypes, Behind
  <2>6. PageTypes'
    BY <1>2, <1>3, <2>1, <2>5 DEF PageTypes
  <2> QED
    BY <2>3, <2>4, <2>6, TypeParts
<1>9. RowOK'
  BY <1>1, <1>2, <1>3, <1>4, Apart DEF RowOK
<1>10. \A p \in relays' : p = q
  BY <1>7
<1>11. RelaysOK'
  BY <1>1, <1>2, <1>3, <1>4, <1>6, <1>10, Apart DEF RelaysOK, NoticeOK
<1>12. RequestsOK'
  BY <1>2, <1>3 DEF RequestsOK
<1>13. /\ \A t \in Tabs : PageOK(t)'
       /\ \A t \in Tabs : (Late(t) => News(t))' /\ (Lacks(t) /\ row # None => Insertion(t))'
                            => Follows(t)'
  BY <1>1, <1>2, <1>3, <1>7, <1>8, WriteKeeps
<1>14. ASSUME NEW t \in Tabs
       PROVE  ListOK(t)'
  BY <1>2, <1>7 DEF IInv, ListOK
<1>15. ASSUME NEW t \in Tabs, t \notin astray'
       PROVE  Follows(t)'
  <2>1. CASE announced
    <3>1. q \in relays' /\ q.from # t
      BY <1>6, <1>7, <2>1, TimelineAssumption
    <3>2. OnItsWay(t, "send", 1)'
      BY <1>6, <3>1 DEF OnItsWay
    <3>3. News(t)'
      BY <1>3, <3>2 DEF News, Kinds
    <3>4. Insertion(t)'
      BY <1>4, <3>2 DEF Insertion
    <3> QED
      BY <1>13, <3>3, <3>4
  <2>2. CASE ~announced
    <3>1. t \notin Behind(1)
      BY <1>7, <1>15, <2>2
    <3>2. told[t] = 0 /\ (load[t] = "read" => page[t].rev = 0)
      <4>1. load[t] = "read" => page[t] \in Page /\ page[t].rev <= 0
        BY <1>3 DEF IInv, PageOK, TypeOK
      <4>2. load[t] = "read" => page[t].rev \in Nat
        BY <4>1, Apart DEF Page
      <4> QED
        BY <1>3, <4>1, <4>2, ToldRevision DEF IInv
    <3>3. load[t] # "done" /\ load[t] # "read"
      BY <3>1, <3>2 DEF Behind, Larger
    <3> QED
      BY <1>2, <1>13, <3>3 DEF Late, Behind, Lacks
  <2> QED
    BY <2>1, <2>2
<1> QED
  BY <1>8, <1>9, <1>11, <1>12, <1>13, <1>14, <1>15 DEF IInv

(* When the message expires, every page that has loaded it goes astray. *)
LEMMA ExpireKeeps ==
  ASSUME IInv, Expire
  PROVE  IInv'
<1>1. /\ row # None /\ row' = None /\ rev' = rev + 1
      /\ astray' = astray \cup Behind(rev + 1)
      /\ faults' = faults + 1 /\ faults < MaxFaults /\ opens' = opens
      /\ UNCHANGED <<scheduled, edits, requests, buffered, relays, sockets, history, view, told>>
  BY DEF Expire, Fault
<1>2. /\ load' = load /\ page' = page /\ view' = view /\ told' = told /\ relays' = relays
      /\ edits' = edits /\ requests' = requests /\ buffered' = buffered /\ scheduled' = scheduled
  BY <1>1 DEF history
<1>3. /\ rev \in Nat /\ edits \in Nat /\ edits <= MaxEdits /\ MaxEdits \in Nat
      /\ rev # 0 /\ rev <= edits + 1 /\ ~scheduled
  BY <1>1, Typed DEF IInv, RowOK
<1>4. rev + 1 <= edits + 2 /\ rev + 1 # 0 /\ rev + 1 # 1
  BY <1>3
<1>5. rev + 1 \in Revisions
  BY <1>3, <1>4, RevisionStays
<1>6. TypeOK'
  <2>1. DataTypes /\ SocketTypes /\ PageTypes
    BY TypeParts DEF IInv
  <2>2. DataTypes'
    BY <1>1, <1>2, <1>5, <2>1, TimelineAssumption DEF DataTypes
  <2>3. SocketTypes'
    BY <1>1, <2>1 DEF SocketTypes, sockets
  <2>4. told \in [Tabs -> 0..(rev + 1)] /\ astray' \subseteq Tabs
    BY <1>1, <1>3, <2>1 DEF PageTypes, Behind
  <2>5. PageTypes'
    BY <1>1, <1>2, <2>1, <2>4 DEF PageTypes
  <2> QED
    BY <2>2, <2>3, <2>5, TypeParts
<1>7. RowOK'
  BY <1>1, <1>2, <1>3, <1>4 DEF RowOK
<1>8. /\ \A k, v : NoticeOK(k, v) => NoticeOK(k, v)'
      /\ \A k, v : NoticeOK(k, v) => v # rev'
      /\ \A t \in Tabs : PageOK(t)'
      /\ \A t \in Tabs : (Late(t) => News(t))' /\ (Lacks(t) /\ row # None => Insertion(t))'
                           => Follows(t)'
  BY <1>1, <1>2, <1>6, WriteKeeps
<1>9. RelaysOK'
  <2>1. ASSUME NEW q \in relays
        PROVE  /\ NoticeOK(q.kind, q.rev)' /\ q.rev # rev'
               /\ q.at = "read" /\ q.kind # "delete" => q.content \in Contents
    BY <1>8 DEF IInv, RelaysOK
  <2>2. \A t \in Tabs : \A e \in buffered[t] : NoticeOK(e.kind, e.rev)'
    BY <1>8 DEF IInv, RelaysOK
  <2> QED
    BY <1>2, <2>1, <2>2 DEF RelaysOK
<1>10. RequestsOK'
  <2>1. ASSUME NEW s \in requests
        PROVE  RequestOK(s)'
    <3>1. RequestOK(s)
      BY DEF IInv, RequestsOK
    <3>2. s.at # "done" => AskedOK(s)'
      BY <1>1, <1>2, <1>3, <1>4, <3>1 DEF RequestOK, AskedOK
    <3>3. s.at = "done" => NoticeOK(s.kind, s.rev)' /\ s.rev # rev'
      BY <1>8, <3>1 DEF RequestOK
    <3> QED
      BY <1>2, <3>1, <3>2, <3>3 DEF RequestOK
  <2> QED
    BY <1>2, <2>1 DEF IInv, RequestsOK
<1>11. ASSUME NEW t \in Tabs
       PROVE  ListOK(t)'
  BY <1>1, <1>2 DEF IInv, ListOK
<1>12. ASSUME NEW t \in Tabs, t \notin astray'
       PROVE  Follows(t)'
  <2>1. t \notin Behind(rev + 1)
    BY <1>1, <1>12
  <2>2. ~Late(t)'
    BY <1>1, <1>2, <2>1 DEF Late, Behind
  <2> QED
    BY <1>1, <1>8, <2>2
<1> QED
  BY <1>6, <1>7, <1>8, <1>9, <1>10, <1>11, <1>12 DEF IInv

-----------------------------------------------------------------------------
(* The ways a request ends. *)

(* What a page's list is after it took something back. *)
LEMMA AfterRefusalKeeps ==
  ASSUME NEW list \in Seq(Entries), NEW r, r.kind \in Kinds,
         r.kind = "edit" => r.prev \in Contents
  PROVE  /\ AfterRefusal(list, r) \in Seq(Entries)
         /\ Len(AfterRefusal(list, r)) <= Len(list)
         /\ Has(AfterRefusal(list, r)) <=> Has(list)
         /\ Marked(AfterRefusal(list, r)) <=> Marked(list) /\ r.kind # "send"
         /\ r.kind = "delete" => AfterRefusal(list, r) = list
         /\ r.kind = "edit" /\ Has(list) /\ Len(list) <= 1 => AfterRefusal(list, r) = <<r.prev>>
<1> DEFINE new == AfterRefusal(list, r)
<1>0. Len(list) \in Nat
  OBVIOUS
<1>1. CASE r.kind = "send"
  <2>1. new = WithoutPending(list)
    BY <1>1 DEF AfterRefusal
  <2> HIDE DEF new
  <2>2. /\ new \in Seq(Entries) /\ Len(new) <= Len(list)
        /\ Has(new) <=> Has(list)
        /\ ~Marked(new)
    BY <2>1, WithoutPendingKeeps
  <2> QED
    BY <1>1, <2>2 DEF new
<1>2. CASE r.kind = "edit"
  <2>1. new = Patched(list, r.prev)
    BY <1>2 DEF AfterRefusal
  <2> HIDE DEF new
  <2>2. /\ new \in Seq(Entries) /\ Len(new) = Len(list)
        /\ Has(new) <=> Has(list)
        /\ Marked(new) <=> Marked(list)
        /\ Has(list) /\ Len(list) <= 1 => new = <<r.prev>>
    BY <1>2, <2>1, PatchedKeeps
  <2> QED
    BY <1>0, <1>2, <2>2 DEF new
<1>3. CASE r.kind = "delete"
  <2>1. new = list
    BY <1>3 DEF AfterRefusal
  <2> HIDE DEF new
  <2> QED
    BY <1>0, <1>3, <2>1 DEF new
<1> QED
  BY <1>1, <1>2, <1>3 DEF Kinds

(* A request that ends without success, if the pages that are then wrong, or will not
   be told, are put among those astray. *)
LEMMA RevertedKeeps ==
  ASSUME IInv, NEW r \in requests, Reverted(r), UNCHANGED database,
         faults' \in 0..MaxFaults, opens' = opens,
         astray \subseteq astray', astray' \subseteq Tabs,
         r.mounted /\ r.kind = "edit" /\ (r.at = "done" \/ told[r.tab] # r.rev) => r.tab \in astray',
         r.at = "done" => InNeedOf(r) \subseteq astray'
  PROVE  IInv'
<1> DEFINE t == r.tab
           new == AfterRefusal(view[r.tab], r)
<1>1. /\ requests' = requests \ {r}
      /\ view' = IF r.mounted THEN [view EXCEPT ![t] = new] ELSE view
      /\ UNCHANGED <<edits, buffered, relays, sockets, history, told>>
  BY DEF Reverted
<1>2. /\ row' = row /\ rev' = rev /\ scheduled' = scheduled /\ edits' = edits
      /\ buffered' = buffered /\ relays' = relays /\ load' = load /\ page' = page
      /\ told' = told
  BY <1>1 DEF database, history
<1>3. /\ r \in Request /\ RequestOK(r) /\ r.kind \in Kinds /\ t \in Tabs
      /\ r.at \in {"asked", "found", "done"} /\ (r.kind = "edit" => r.at # "found")
  BY DEF IInv, RequestsOK, RequestOK, TypeOK, Request
<1>4. \A s \in requests \ {r} : s.kind = r.kind => s.kind = "delete"
  BY DEF IInv, RequestsOK
<1>5. ASSUME NEW u \in Tabs
      PROVE  view[u] \in Seq(Entries) /\ Len(view[u]) \in Nat /\ Len(view[u]) <= 2 /\ ListOK(u)
  BY Typed DEF IInv, TypeOK
<1>6. /\ new \in Seq(Entries)
      /\ Len(new) <= Len(view[t])
      /\ Has(new) <=> Has(view[t])
      /\ Marked(new) <=> Marked(view[t]) /\ r.kind # "send"
      /\ r.kind = "delete" => new = view[t]
      /\ r.kind = "edit" /\ Has(view[t]) /\ Len(view[t]) <= 1 => new = <<r.prev>>
  BY <1>3, <1>5, AfterRefusalKeeps DEF RequestOK
<1>7. Len(new) \in Nat
  BY <1>6
<1> HIDE DEF new
<1>8. ASSUME NEW u \in Tabs
      PROVE  \/ u = t /\ r.mounted /\ view'[u] = new
             \/ ~(u = t /\ r.mounted) /\ view'[u] = view[u]
  BY <1>1, <1>3 DEF IInv, TypeOK
<1> HIDE DEF t
<1>9. ASSUME NEW u \in Tabs
      PROVE  /\ Len(view'[u]) <= Len(view[u])
             /\ Has(view'[u]) <=> Has(view[u])
             /\ Marked(view'[u]) => Marked(view[u])
             /\ r.kind # "send" => (Marked(view[u]) => Marked(view'[u]))
  BY <1>5, <1>6, <1>8
<1>10. TypeOK'
  <2>1. DataTypes /\ SocketTypes /\ PageTypes
    BY TypeParts DEF IInv
  <2>2. DataTypes'
    BY <1>1, <1>2, <2>1 DEF DataTypes
  <2>3. SocketTypes'
    BY <1>1, <2>1 DEF SocketTypes, sockets
  <2>4. view' \in [Tabs -> Seq(Entries)]
    BY <1>1, <1>3, <1>6, <2>1 DEF PageTypes
  <2>5. ASSUME NEW u \in Tabs
        PROVE  Len(view'[u]) <= 2 /\ (load[u] = "closed" => view'[u] = <<>>)
    <3>1. Len(view'[u]) \in Nat
      BY <2>4
    <3>2. Len(view'[u]) <= 2
      BY <1>5, <1>9, <3>1
    <3>3. load[u] = "closed" => view'[u] = view[u]
      BY <1>3, <1>8 DEF RequestOK, t
    <3> QED
      BY <2>1, <3>2, <3>3 DEF PageTypes
  <2>6. PageTypes'
    BY <1>2, <2>1, <2>4, <2>5 DEF PageTypes
  <2> QED
    BY <2>2, <2>3, <2>6, TypeParts
<1>11. RowOK'
  BY <1>1, <1>2 DEF IInv, RowOK
<1>12. RelaysOK'
  BY <1>2 DEF IInv, RelaysOK, NoticeOK
<1>13. RequestsOK'
  <2>1. ASSUME NEW s \in requests \ {r}
        PROVE  RequestOK(s)'
    <3>1. RequestOK(s) /\ s \in Request /\ s.tab \in Tabs
      BY DEF IInv, RequestsOK, TypeOK, Request
    <3>2. Has(view[s.tab]) => Has(view'[s.tab])
      BY <1>9, <3>1
    <3>3. s.kind = "send" => (Marked(view[Author]) => Marked(view'[Author]))
      BY <1>4, <1>9, TimelineAssumption
    <3>4. told[s.tab] <= told'[s.tab]
      BY <1>2, <3>1, ToldRevision DEF IInv
    <3> QED
      BY <1>2, <1>10, <1>11, <3>1, <3>2, <3>3, <3>4, RequestStays DEF IInv
  <2> QED
    BY <1>1, <1>2, <2>1 DEF IInv, RequestsOK
<1>14. ASSUME NEW u \in Tabs
       PROVE  PageOK(u)'
  BY <1>2 DEF IInv, PageOK
<1>15. ASSUME NEW u \in Tabs
       PROVE  ListOK(u)'
  <2>1. ASSUME Marked(view'[u])
        PROVE  u = Author /\ \E s \in requests' : s.kind = "send" /\ s.mounted
    <3>1. PICK s \in requests : u = Author /\ s.kind = "send" /\ s.mounted
      BY <1>5, <1>9, <2>1 DEF ListOK
    <3>2. s.tab = Author
      BY <3>1 DEF IInv, RequestsOK, RequestOK
    <3>3. s # r
      BY <1>6, <1>8, <2>1, <3>1, <3>2 DEF t
    <3> QED
      BY <1>1, <3>1, <3>3
  <2>2. Len(view'[u]) \in Nat
    BY <1>5, <1>7, <1>8
  <2>3. u \notin astray' \/ load[u] # "done" => Len(view'[u]) <= 1
    <3>1. u \notin astray' \/ load[u] # "done" => Len(view[u]) <= 1
      BY <1>5 DEF ListOK
    <3>2. Len(view[u]) <= 1 => Len(view'[u]) <= 1
      BY <1>5, <1>9, <2>2
    <3> QED
      BY <3>1, <3>2
  <2> QED
    BY <1>2, <1>5, <1>9, <2>1, <2>3 DEF ListOK
<1>16. ASSUME NEW u \in Tabs, u \notin astray'
       PROVE  Follows(u)'
  <2>1. /\ Follows(u) /\ ListOK(u)
        /\ r.at = "done" => u \notin InNeedOf(r)
    BY <1>5, <1>16 DEF IInv
  <2>2. /\ Late(u)' <=> Late(u)
        /\ Lacks(u)' <=> Lacks(u)
    BY <1>2, <1>9 DEF Late, Behind, Lacks
  <2>3. /\ r.at = "done" /\ Late(u) => r.rev # rev
        /\ r.at = "done" /\ Lacks(u) => r.kind # "send"
    BY <2>1 DEF InNeedOf, Late, Lacks
  <2>4. ASSUME NEW k, NEW v, OnItsWay(u, k, v), ~(r.at = "done" /\ k = r.kind /\ v = r.rev)
        PROVE  OnItsWay(u, k, v)'
    <3>1. \A s \in requests : s.at = "done" /\ s.kind = k /\ s.rev = v => s \in requests'
      BY <1>1, <2>4
    <3> QED
      BY <1>2, <2>4, <3>1 DEF OnItsWay
  <2>5. Late(u) /\ News(u) => News(u)'
    <3>1. PICK v : v = rev
      OBVIOUS
    <3>2. Late(u) /\ News(u) => \E k \in Kinds : (k # "send" \/ rev = 1) /\ OnItsWay(u, k, v)'
      BY <2>3, <2>4, <3>1 DEF News
    <3>3. v = rev'
      BY <1>2, <3>1
    <3> QED
      BY <1>2, <3>2, <3>3 DEF News
  <2>6. Lacks(u) /\ Insertion(u) => Insertion(u)'
    BY <2>3, <2>4 DEF Insertion
  <2>7. ASSUME Has(view'[u]), told[u] = rev
        PROVE  /\ Editing(u)' \/ view'[u] = <<row>>
               /\ \A s \in requests' : s.kind = "edit" /\ s.at = "asked" /\ s.mounted /\ s.tab = u
                                       /\ s.rev = rev => s.prev = row
    <3>1. Has(view[u])
      BY <1>9, <2>7
    <3>2. /\ Editing(u) \/ view[u] = <<row>>
          /\ \A s \in requests : s.kind = "edit" /\ s.at = "asked" /\ s.mounted /\ s.tab = u
                                 /\ s.rev = rev => s.prev = row
      BY <2>1, <2>7, <3>1 DEF Follows
    <3>3. CASE ~(u = t /\ r.mounted) \/ r.kind = "delete"
      <4>1. view'[u] = view[u]
        BY <1>6, <1>8, <3>3
      <4>2. Editing(u) => Editing(u)'
        <5>1. \A s \in requests : s.kind = "edit" /\ s.mounted /\ s.tab = u => s \in requests'
          BY <1>1, <3>3 DEF t
        <5> QED
          BY <1>2, <5>1 DEF Editing
      <4> QED
        BY <1>1, <3>2, <4>1, <4>2
    <3>4. CASE u = t /\ r.mounted /\ r.kind = "edit"
      <4>1. r.at = "asked" /\ r.rev = rev
        BY <1>3, <1>16, <2>7, <3>4 DEF t
      <4>2. r.prev = row
        BY <3>2, <3>4, <4>1 DEF t
      <4>3. view'[u] = <<row>>
        BY <1>6, <1>8, <1>16, <2>1, <3>1, <3>4, <4>2 DEF ListOK
      <4> QED
        BY <1>1, <3>2, <4>3
    <3>5. CASE u = t /\ r.mounted /\ r.kind = "send"
      <4>1. Marked(view[u])
        BY <1>3, <3>5 DEF RequestOK, t
      <4>2. Len(view[u]) <= 1
        BY <1>16, <2>1 DEF ListOK
      <4>3. ~Has(view[u])
        BY <1>5, <4>1, <4>2, Short
      <4> QED
        BY <3>1, <4>3
    <3> QED
      BY <1>3, <3>3, <3>4, <3>5 DEF Kinds
  <2> QED
    BY <1>2, <2>1, <2>2, <2>5, <2>6, <2>7 DEF Follows
<1> QED
  BY <1>10, <1>11, <1>12, <1>13, <1>14, <1>15, <1>16 DEF IInv

(* A refused request is taken back; an edit that takes back more puts its page astray. *)
LEMMA RefuseKeeps ==
  ASSUME IInv, NEW r \in requests, Refuse(r)
  PROVE  IInv'
<1>1. /\ r.at # "done" /\ Reverted(r) /\ UNCHANGED database /\ opens' = opens
      /\ faults' = faults \/ (faults < MaxFaults /\ faults' = faults + 1)
      /\ astray' = astray \cup (IF RevertsTooMuch(r) THEN {r.tab} ELSE {})
  BY DEF Refuse, Fault, bounds
<1>2. r.tab \in Tabs /\ astray \subseteq Tabs /\ faults \in 0..MaxFaults
  BY DEF IInv, TypeOK, Request
<1>3. faults' \in 0..MaxFaults
  BY <1>1, <1>2, TimelineAssumption
<1>4. r.mounted /\ r.kind = "edit" /\ (r.at = "done" \/ told[r.tab] # r.rev) => r.tab \in astray'
  BY <1>1 DEF RevertsTooMuch
<1>5. astray \subseteq astray' /\ astray' \subseteq Tabs
  BY <1>1, <1>2
<1> QED
  BY <1>1, <1>3, <1>4, <1>5, RevertedKeeps

(* If the answer is lost, so is the news. *)
LEMMA AnswerLostKeeps ==
  ASSUME IInv, NEW r \in requests, AnswerLost(r)
  PROVE  IInv'
<1>1. /\ r.at = "done" /\ Reverted(r) /\ UNCHANGED database /\ opens' = opens
      /\ faults < MaxFaults /\ faults' = faults + 1
      /\ astray' = astray \cup InNeedOf(r)
                          \cup (IF r.mounted /\ r.kind = "edit" THEN {r.tab} ELSE {})
  BY DEF AnswerLost, Fault
<1>2. r.tab \in Tabs /\ astray \subseteq Tabs /\ faults \in 0..MaxFaults
  BY DEF IInv, TypeOK, Request
<1>3. faults' \in 0..MaxFaults
  BY <1>1, <1>2, TimelineAssumption
<1>4. InNeedOf(r) \subseteq Tabs
  BY DEF InNeedOf, Behind
<1>5. astray \subseteq astray' /\ astray' \subseteq Tabs /\ InNeedOf(r) \subseteq astray'
  BY <1>1, <1>2, <1>4
<1>6. r.mounted /\ r.kind = "edit" => r.tab \in astray'
  BY <1>1
<1> QED
  BY <1>1, <1>3, <1>5, <1>6, RevertedKeeps

(* What a page's list is after its request was answered. *)
LEMMA AfterAnswerKeeps ==
  ASSUME NEW list \in Seq(Entries), NEW r, r.kind \in Kinds,
         r.kind # "delete" => r.content \in Contents,
         r.kind = "send" => Marked(list)
  PROVE  /\ AfterAnswer(list, r) \in Seq(Entries)
         /\ Len(AfterAnswer(list, r)) <= Len(list)
         /\ Has(list) /\ r.kind # "delete" => Has(AfterAnswer(list, r))
         /\ Has(AfterAnswer(list, r)) => r.kind # "delete"
         /\ r.kind = "send" => Has(AfterAnswer(list, r))
         /\ Marked(AfterAnswer(list, r)) <=> Marked(list) /\ r.kind # "send"
         /\ Has(AfterAnswer(list, r)) /\ Len(list) <= 1 => AfterAnswer(list, r) = <<r.content>>
<1> DEFINE new == AfterAnswer(list, r)
<1>0. Len(list) \in Nat
  OBVIOUS
<1>1. CASE r.kind = "send"
  <2>1. new = Replaced(list, r.content)
    BY <1>1 DEF AfterAnswer
  <2> HIDE DEF new
  <2>2. /\ new \in Seq(Entries) /\ Len(new) = Len(list)
        /\ Has(new) /\ ~Marked(new)
        /\ Len(list) <= 1 => new = <<r.content>>
    BY <1>1, <2>1, ReplacedKeeps
  <2> QED
    BY <1>0, <1>1, <2>2 DEF new
<1>2. CASE r.kind = "edit"
  <2>1. new = Patched(list, r.content)
    BY <1>2 DEF AfterAnswer
  <2> HIDE DEF new
  <2>2. /\ new \in Seq(Entries) /\ Len(new) = Len(list)
        /\ Has(new) <=> Has(list)
        /\ Marked(new) <=> Marked(list)
        /\ Has(list) /\ Len(list) <= 1 => new = <<r.content>>
    BY <1>2, <2>1, PatchedKeeps
  <2> QED
    BY <1>0, <1>2, <2>2 DEF new
<1>3. CASE r.kind = "delete"
  <2>1. new = Without(list)
    BY <1>3 DEF AfterAnswer
  <2> HIDE DEF new
  <2>2. /\ new \in Seq(Entries) /\ Len(new) <= Len(list) /\ ~Has(new)
        /\ Marked(new) <=> Marked(list)
    BY <2>1, WithoutKeeps
  <2> QED
    BY <1>3, <2>2 DEF new
<1> QED
  BY <1>1, <1>2, <1>3 DEF Kinds

(* An answered request is on its way to the other pages, and what its page then shows
   is as new as the answer. *)
LEMMA AnswerKeeps ==
  ASSUME IInv, NEW r \in requests, Answer(r)
  PROVE  IInv'
<1> DEFINE t == r.tab
           new == AfterAnswer(view[r.tab], r)
           heard == Larger(told[r.tab], r.rev)
<1>0. PICK q : q = [kind |-> r.kind, from |-> r.tab, at |-> "asked", content |-> None, rev |-> r.rev]
  OBVIOUS
<1>1. /\ r.at = "done" /\ requests' = requests \ {r}
      /\ IF r.mounted THEN /\ view' = [view EXCEPT ![t] = new]
                           /\ told' = [told EXCEPT ![t] = heard]
                      ELSE view' = view /\ told' = told
      /\ astray' = astray \cup (IF AnswersAstray(r) THEN {t} ELSE {})
      /\ UNCHANGED <<database, edits, sockets, history, bounds>>
  BY DEF Answer
<1>2. IF t \in up THEN relays' = relays \cup {q} /\ buffered' = buffered
                  ELSE /\ relays' = relays
                       /\ buffered' = [buffered EXCEPT ![t] = @ \cup {[kind |-> r.kind, rev |-> r.rev]}]
  BY <1>0 DEF Answer
<1>3. /\ row' = row /\ rev' = rev /\ scheduled' = scheduled /\ edits' = edits
      /\ load' = load /\ page' = page
  BY <1>1 DEF database, history
<1>4. /\ r \in Request /\ RequestOK(r) /\ r.kind \in Kinds /\ t \in Tabs /\ r.rev \in Revisions
      /\ NoticeOK(r.kind, r.rev)
      /\ r.rev = rev => row = r.content
      /\ r.kind # "delete" => r.content \in Contents
  BY <1>1, Apart DEF IInv, RequestsOK, TypeOK, Request, RequestOK, Kinds
<1>5. rev \in Nat /\ r.rev \in 1..rev /\ r.rev \in Nat /\ rev # 0
  BY <1>4, Typed DEF IInv, NoticeOK
<1>6. \A s \in requests \ {r} : s.kind = r.kind => s.kind = "delete"
  BY DEF IInv, RequestsOK
<1>7. ASSUME NEW u \in Tabs
      PROVE  /\ view[u] \in Seq(Entries) /\ Len(view[u]) \in Nat /\ Len(view[u]) <= 2 /\ ListOK(u)
             /\ told[u] \in Nat /\ told[u] <= rev
  BY Typed DEF IInv, TypeOK
<1>8. r.mounted =>
        /\ new \in Seq(Entries)
        /\ Len(new) <= Len(view[t])
        /\ Has(view[t]) /\ r.kind # "delete" => Has(new)
        /\ Has(new) => r.kind # "delete"
        /\ r.kind = "send" => Has(new)
        /\ Marked(new) <=> Marked(view[t]) /\ r.kind # "send"
        /\ Has(new) /\ Len(view[t]) <= 1 => new = <<r.content>>
  <2>1. r.mounted /\ r.kind = "send" => Marked(view[t])
    BY <1>4 DEF RequestOK
  <2> QED
    BY <1>4, <1>7, <2>1, AfterAnswerKeeps
<1>9. r.mounted => Len(new) \in Nat
  BY <1>8
<1>10. heard \in Nat /\ told[t] <= heard /\ heard <= rev /\ r.rev <= heard
       /\ (told[t] <= r.rev => heard = r.rev)
  BY <1>4, <1>5, <1>7 DEF Larger
<1>11. /\ q \in Relay /\ q.kind = r.kind /\ q.from = t /\ q.at = "asked" /\ q.rev = r.rev
  BY <1>0, <1>4 DEF Relay
<1> HIDE DEF new, heard
<1>12. ASSUME NEW u \in Tabs
       PROVE  \/ u = t /\ r.mounted /\ view'[u] = new /\ told'[u] = heard
              \/ ~(u = t /\ r.mounted) /\ view'[u] = view[u] /\ told'[u] = told[u]
  BY <1>1, <1>4 DEF IInv, TypeOK
<1>13. ASSUME NEW u \in Tabs
       PROVE  buffered'[u] = buffered[u] \/ (u = t /\ t \notin up /\
                 buffered'[u] = buffered[u] \cup {[kind |-> r.kind, rev |-> r.rev]})
  BY <1>2, <1>4 DEF IInv, TypeOK
<1>14. AnswersAstray(r) <=> IF r.mounted THEN told[t] > r.rev ELSE t \in InNeedOf(r)
  BY DEF AnswersAstray
<1> HIDE DEF t
<1>15. ASSUME NEW u \in Tabs
       PROVE  /\ Len(view'[u]) <= Len(view[u])
              /\ Has(view[u]) => Has(view'[u]) \/ row = None
              /\ Marked(view'[u]) => Marked(view[u])
              /\ r.kind # "send" => (Marked(view[u]) => Marked(view'[u]))
              /\ told[u] <= told'[u] /\ told'[u] <= rev /\ told'[u] \in Nat
  BY <1>4, <1>7, <1>8, <1>10, <1>12 DEF NoticeOK
<1>16. TypeOK'
  <2>1. DataTypes /\ SocketTypes /\ PageTypes
    BY TypeParts DEF IInv
  <2>2. relays' \subseteq Relay
    BY <1>2, <1>11, <2>1 DEF DataTypes
  <2>3. DataTypes'
    BY <1>1, <1>3, <2>1, <2>2 DEF DataTypes, bounds
  <2>4. [kind |-> r.kind, rev |-> r.rev] \in [kind: Kinds, rev: Revisions]
    BY <1>4
  <2>5. buffered' \in [Tabs -> SUBSET [kind: Kinds, rev: Revisions]]
    BY <1>2, <2>1, <2>4 DEF SocketTypes
  <2>6. \A u \in up : buffered'[u] = {}
    BY <1>13, <2>1 DEF SocketTypes
  <2>7. SocketTypes'
    BY <1>1, <2>1, <2>5, <2>6 DEF SocketTypes, sockets
  <2>8. view' \in [Tabs -> Seq(Entries)]
    BY <1>1, <1>4, <1>8, <2>1 DEF PageTypes
  <2>9. told' \in [Tabs -> 0..rev]
    <3>1. heard \in 0..rev /\ told \in [Tabs -> 0..rev]
      BY <1>5, <1>10, <2>1 DEF PageTypes
    <3> QED
      BY <1>1, <3>1
  <2>10. ASSUME NEW u \in Tabs
         PROVE  Len(view'[u]) <= 2 /\ (load[u] = "closed" => view'[u] = <<>>)
    <3>1. Len(view'[u]) \in Nat
      BY <2>8
    <3>2. Len(view'[u]) <= 2
      BY <1>7, <1>15, <3>1
    <3>3. load[u] = "closed" => view'[u] = view[u]
      BY <1>4, <1>12 DEF RequestOK, t
    <3> QED
      BY <2>1, <3>2, <3>3 DEF PageTypes
  <2>11. astray' \subseteq Tabs
    BY <1>1, <1>4, <2>1 DEF PageTypes
  <2>12. PageTypes'
    BY <1>3, <2>1, <2>8, <2>9, <2>10, <2>11 DEF PageTypes
  <2> QED
    BY <2>3, <2>7, <2>12, TypeParts
<1>17. RowOK'
  BY <1>1, <1>3, <1>5 DEF IInv, RowOK
<1>18. \A p \in relays' : p \in relays \/ p = q
  BY <1>2
<1>19. ASSUME NEW u \in Tabs, NEW e \in buffered'[u]
       PROVE  e \in buffered[u] \/ (e.kind = r.kind /\ e.rev = r.rev)
  BY <1>13
<1>20. RelaysOK'
  <2>1. ASSUME NEW p \in relays'
        PROVE  /\ NoticeOK(p.kind, p.rev)
               /\ p.at = "read" => /\ p.rev = rev => p.content = row
                                   /\ p.kind # "delete" => p.content \in Contents
    BY <1>4, <1>11, <1>18 DEF IInv, RelaysOK
  <2>2. ASSUME NEW u \in Tabs, NEW e \in buffered'[u]
        PROVE  NoticeOK(e.kind, e.rev)
    BY <1>4, <1>19 DEF IInv, RelaysOK
  <2> QED
    BY <1>3, <2>1, <2>2 DEF RelaysOK, NoticeOK
<1>21. RequestsOK'
  <2>1. ASSUME NEW s \in requests \ {r}
        PROVE  RequestOK(s)'
    <3>1. RequestOK(s) /\ s \in Request /\ s.tab \in Tabs
      BY DEF IInv, RequestsOK, TypeOK, Request
    <3>2. Has(view[s.tab]) => Has(view'[s.tab]) \/ row = None
      BY <1>15, <3>1
    <3>3. s.kind = "send" => (Marked(view[Author]) => Marked(view'[Author]))
      BY <1>6, <1>15, TimelineAssumption
    <3>4. told[s.tab] <= told'[s.tab]
      BY <1>15, <3>1
    <3> QED
      BY <1>3, <1>16, <1>17, <3>1, <3>2, <3>3, <3>4, RequestStays DEF IInv
  <2>2. ASSUME NEW s \in requests \ {r}, s.kind = "send"
        PROVE  /\ \A p \in relays' : p.kind # "send"
               /\ \A u \in Tabs : \A e \in buffered'[u] : e.kind # "send"
    <3>1. r.kind # "send"
      BY <1>6, <2>2
    <3>2. /\ \A p \in relays : p.kind # "send"
          /\ \A u \in Tabs : \A e \in buffered[u] : e.kind # "send"
      BY <2>2 DEF IInv, RequestsOK
    <3> QED
      BY <1>11, <1>18, <1>19, <3>1, <3>2
  <2> QED
    BY <1>1, <2>1, <2>2 DEF IInv, RequestsOK
<1>22. ASSUME NEW u \in Tabs
       PROVE  PageOK(u)'
  BY <1>3 DEF IInv, PageOK
<1>23. ASSUME NEW u \in Tabs
       PROVE  ListOK(u)'
  <2>1. ASSUME Marked(view'[u])
        PROVE  u = Author /\ \E s \in requests' : s.kind = "send" /\ s.mounted
    <3>1. PICK s \in requests : u = Author /\ s.kind = "send" /\ s.mounted
      BY <1>7, <1>15, <2>1 DEF ListOK
    <3>2. s.tab = Author
      BY <3>1 DEF IInv, RequestsOK, RequestOK
    <3>3. s # r
      BY <1>8, <1>12, <2>1, <3>1, <3>2 DEF t
    <3> QED
      BY <1>1, <3>1, <3>3
  <2>2. Len(view'[u]) \in Nat
    BY <1>7, <1>9, <1>12
  <2>3. u \notin astray' \/ load[u] # "done" => Len(view'[u]) <= 1
    <3>1. u \notin astray' => u \notin astray
      BY <1>1
    <3>2. u \notin astray' \/ load[u] # "done" => Len(view[u]) <= 1
      BY <1>7, <3>1 DEF ListOK
    <3>3. Len(view[u]) <= 1 => Len(view'[u]) <= 1
      BY <1>7, <1>15, <2>2
    <3> QED
      BY <3>2, <3>3
  <2>4. Has(view'[u]) => told'[u] # 0
    BY <1>5, <1>7, <1>10, <1>12 DEF ListOK
  <2> QED
    BY <1>3, <2>1, <2>3, <2>4 DEF ListOK
<1>24. ASSUME NEW u \in Tabs, NEW k, NEW v, OnItsWay(u, k, v),
              u # t \/ ~(k = r.kind /\ v = r.rev)
       PROVE  OnItsWay(u, k, v)'
  <2>1. ASSUME k = r.kind, v = r.rev, u # t
        PROVE  OnItsWay(u, k, v)'
    <3>1. CASE t \in up
      <4>1. q \in relays' /\ q.from # u /\ q.kind = k /\ q.rev = v
        BY <1>2, <1>11, <2>1, <3>1
      <4> QED
        BY <4>1 DEF OnItsWay
    <3>2. CASE t \notin up
      <4>1. [kind |-> k, rev |-> v] \in buffered'[t] /\ t \in Tabs \ {u}
        BY <1>2, <1>4, <2>1, <3>2 DEF IInv, TypeOK
      <4> QED
        BY <4>1 DEF OnItsWay
    <3> QED
      BY <3>1, <3>2
  <2>2. ASSUME ~(k = r.kind /\ v = r.rev)
        PROVE  OnItsWay(u, k, v)'
    <3>1. \A s \in requests : s.kind = k /\ s.rev = v => s \in requests'
      BY <1>1, <2>2
    <3>2. \A w \in Tabs : buffered[w] \subseteq buffered'[w]
      BY <1>13
    <3>3. relays \subseteq relays'
      BY <1>2
    <3> QED
      BY <1>24, <3>1, <3>2, <3>3 DEF OnItsWay
  <2> QED
    BY <1>24, <2>1, <2>2
<1>25. \A s : s.kind = "edit" /\ s.at = "asked" => (s \in requests <=> s \in requests')
  BY <1>1
<1>26. ASSUME NEW u \in Tabs, u \notin astray'
       PROVE  Follows(u)'
  <2>1. Follows(u) /\ ListOK(u) /\ rev \in Revisions
    BY <1>1, <1>26 DEF IInv, TypeOK
  <2>2. CASE u # t
    <3>1. view'[u] = view[u] /\ told'[u] = told[u]
      BY <1>12, <2>2
    <3> QED
      BY <1>3, <1>24, <1>25, <2>1, <2>2, <3>1, FollowsStays
  <2>3. CASE u = t /\ ~r.mounted
    <3>1. view'[u] = view[u] /\ told'[u] = told[u]
      BY <1>12, <2>3
    <3>2. u \notin InNeedOf(r)
      BY <1>1, <1>14, <1>26, <2>3
    <3>3. (Late(u) => r.rev # rev) /\ (Lacks(u) => r.kind # "send")
      BY <3>2 DEF InNeedOf, Late, Lacks
    <3>4. Late(u) /\ News(u) => News(u)'
      <4>1. PICK v : v = rev
        OBVIOUS
      <4>2. Late(u) /\ News(u) => \E k \in Kinds : (k # "send" \/ rev = 1) /\ OnItsWay(u, k, v)'
        BY <1>24, <3>3, <4>1 DEF News
      <4>3. v = rev'
        BY <1>3, <4>1
      <4> QED
        BY <1>3, <4>2, <4>3 DEF News
    <3>5. Lacks(u) /\ Insertion(u) => Insertion(u)'
      BY <1>24, <3>3 DEF Insertion
    <3> QED
      BY <1>3, <1>25, <2>1, <3>1, <3>4, <3>5, NewsStay
  <2>4. CASE u = t /\ r.mounted
    <3>1. view'[u] = new /\ told'[u] = heard /\ heard = r.rev /\ told[u] <= r.rev
      BY <1>1, <1>5, <1>7, <1>10, <1>12, <1>14, <1>26, <2>4
    <3>2. Len(view[u]) <= 1
      BY <1>1, <1>26, <2>1 DEF ListOK
    <3>3. Late(u)' => Late(u) /\ r.rev # rev
      <4>1. Late(u) <=> /\ told[u] < rev
                        /\ load[u] = "done" \/ (load[u] = "read" /\ page[u].rev < rev)
        BY LateMeans DEF IInv
      <4>2. Late(u)' <=> /\ r.rev < rev
                         /\ load[u] = "done" \/ (load[u] = "read" /\ page[u].rev < rev)
        BY <1>3, <1>16, <3>1, LateMeans
      <4> QED
        BY <1>5, <1>7, <3>1, <4>1, <4>2
    <3>4. ASSUME Late(u)'
          PROVE  News(u)'
      <4>1. PICK k \in Kinds : (k # "send" \/ rev = 1) /\ OnItsWay(u, k, rev)
        BY <2>1, <3>3, <3>4 DEF Follows, News
      <4>2. PICK v : v = rev
        OBVIOUS
      <4>3. OnItsWay(u, k, v)'
        BY <1>24, <3>3, <3>4, <4>1, <4>2
      <4>4. v = rev'
        BY <1>3, <4>2
      <4> QED
        BY <1>3, <4>1, <4>3, <4>4 DEF News
    <3>5. ASSUME Lacks(u)', row # None
          PROVE  Insertion(u)'
      <4>1. ~Has(new) /\ r.kind # "delete"
        BY <1>4, <3>1, <3>5 DEF Lacks, NoticeOK
      <4>2. ~Has(view[u]) /\ r.kind # "send"
        BY <1>8, <2>4, <4>1
      <4>3. Lacks(u)
        BY <1>3, <3>5, <4>2 DEF Lacks
      <4>4. PICK v \in Revisions : OnItsWay(u, "send", v)
        BY <2>1, <3>5, <4>3 DEF Follows, Insertion
      <4>5. OnItsWay(u, "send", v)'
        BY <1>24, <4>2, <4>4
      <4> QED
        BY <4>5 DEF Insertion
    <3>6. ASSUME Has(new), heard = rev
          PROVE  /\ new = <<row>>
                 /\ \A s \in requests' : s.kind = "edit" /\ s.at = "asked" /\ s.mounted /\ s.tab = u
                                         /\ s.rev = rev => s.prev = row
      <4>1. r.rev = rev /\ r.content = row /\ r.kind # "delete" /\ row # None
        BY <1>4, <1>8, <2>4, <3>1, <3>6, Apart
      <4>2. new = <<row>>
        BY <1>8, <2>4, <3>2, <3>6, <4>1
      <4>3. ASSUME NEW s \in requests,
                   s.kind = "edit", s.at = "asked", s.mounted, s.tab = u, s.rev = rev
            PROVE  s.prev = row
        <5>1. s.rev <= told[u] /\ Has(view[u])
          BY <4>1, <4>3 DEF IInv, RequestsOK, RequestOK, AskedOK
        <5>2. told[u] = rev
          BY <1>5, <1>7, <4>3, <5>1
        <5> QED
          BY <2>1, <4>3, <5>1, <5>2 DEF Follows
      <4> QED
        BY <1>1, <4>2, <4>3
    <3> QED
      BY <1>3, <3>1, <3>4, <3>5, <3>6 DEF Follows
  <2> QED
    BY <2>2, <2>3, <2>4
<1> QED
  BY <1>16, <1>17, <1>20, <1>21, <1>22, <1>23, <1>26 DEF IInv

-----------------------------------------------------------------------------
(* The invariant holds at first ... *)
LEMMA InitHolds ==
  Init => IInv
<1> SUFFICES ASSUME Init
             PROVE  IInv
  OBVIOUS
<1>1. <<>> \in Seq(Entries) /\ ~Has(<<>>) /\ ~Marked(<<>>) /\ Len(<<>>) = 0
  BY DEF Has, Marked, ToSet
<1>2. 0 \in Contents /\ 0 \in Revisions
  BY Apart, TimelineAssumption DEF Revisions
<1>3. \A t \in Tabs : view[t] = <<>> /\ load[t] = "closed" /\ page[t] = None /\ told[t] = 0
  BY DEF Init
<1>4. TypeOK
  <2>1. DataTypes
    BY <1>2, TimelineAssumption DEF Init, DataTypes
  <2>2. SocketTypes
    BY DEF Init, SocketTypes
  <2>3. PageTypes
    BY <1>1, <1>3 DEF Init, PageTypes
  <2> QED
    BY <2>1, <2>2, <2>3, TypeParts
<1>5. RowOK /\ RequestsOK /\ RelaysOK
  BY <1>2, Apart DEF Init, RowOK, RequestsOK, RelaysOK
<1>6. \A t \in Tabs : PageOK(t) /\ ListOK(t) /\ Follows(t)
  BY <1>1, <1>3 DEF PageOK, ListOK, Follows, Late, Behind, Lacks
<1> QED
  BY <1>4, <1>5, <1>6 DEF IInv

(* ... and every step keeps it. *)
LEMMA StepKeeps ==
  IInv /\ [Next]_vars => IInv'
<1> SUFFICES ASSUME IInv, [Next]_vars
             PROVE  IInv'
  OBVIOUS
<1>1. CASE UNCHANGED vars
  <2>1. /\ row' = row /\ rev' = rev /\ scheduled' = scheduled /\ edits' = edits
        /\ requests' = requests /\ relays' = relays /\ buffered' = buffered
        /\ up' = up /\ room' = room /\ joining' = joining
        /\ load' = load /\ page' = page /\ view' = view /\ told' = told /\ astray' = astray
        /\ faults' = faults /\ opens' = opens
    BY <1>1 DEF vars, database, sockets, history, shows, bounds
  <2>2. TypeOK'
    BY <2>1 DEF IInv, TypeOK
  <2>3. UNCHANGED <<database, edits, requests, history, view, told>>
    BY <2>1 DEF database, history
  <2>4. RelaysOK' /\ astray \subseteq astray'
    BY <2>1 DEF IInv, RelaysOK, NoticeOK
  <2>5. rev = 0 => relays' = {} /\ \A t \in Tabs : buffered'[t] = {}
    BY <2>1 DEF IInv, RowOK
  <2>6. \A t \in Tabs : (News(t) => News(t)') /\ (Insertion(t) => Insertion(t)')
    BY <2>1 DEF News, Insertion, OnItsWay
  <2> QED
    BY <2>1, <2>2, <2>3, <2>4, <2>5, <2>6, WireKeeps
<1>2. CASE Send \/ Edit \/ \E t \in Tabs : Delete(t)
  BY <1>2, SendKeeps, EditKeeps, DeleteKeeps
<1>3. CASE \E r \in requests : Proceed(r) \/ Refuse(r) \/ AnswerLost(r) \/ Answer(r)
  BY <1>3, ProceedKeeps, RefuseKeeps, AnswerLostKeeps, AnswerKeeps
<1>4. CASE \E q \in relays : RelayRead(q) \/ RelaySend(q) \/ RelayDropped(q)
  BY <1>4, RelayReadKeeps, RelaySendKeeps, RelayDroppedKeeps
<1>5. CASE Expire \/ \E announced \in BOOLEAN : DeliverScheduled(announced)
  BY <1>5, ExpireKeeps, DeliverScheduledKeeps
<1>6. CASE \E t \in Tabs : Open(t) \/ Close(t) \/ PageRead(t) \/ PageFails(t) \/ PageArrives(t) \/ Retry(t)
  BY <1>6, OpenKeeps, CloseKeeps, PageReadKeeps, PageFailsKeeps, PageArrivesKeeps, RetryKeeps
<1>7. CASE \E t \in Tabs : JoinDone(t) \/ Disconnect(t) \/ Reconnect(t)
  BY <1>7, JoinDoneKeeps, DisconnectKeeps, ReconnectKeeps
<1> QED
  BY <1>1, <1>2, <1>3, <1>4, <1>5, <1>6, <1>7 DEF Next

(* The inductive invariant holds in every reachable state. *)
LEMMA Inductive ==
  Spec => []IInv
BY InitHolds, StepKeeps, PTL DEF Spec

-----------------------------------------------------------------------------
(* The pages, requests, notices and revisions are what their types say: a list never
   shows more than the message and its placeholder, a revision stays within the writes
   that the author's edits leave, and no page is told of one before it is written. *)
THEOREM TimelineTypeCorrect ==
  Spec => []TypeOK
<1>1. IInv => TypeOK
  BY DEF IInv
<1> QED
  BY <1>1, Inductive, PTL

(* With nothing on its way a page that is behind, or lacks the message, would wait for
   ever: so it is neither, and then it shows the row. *)
LEMMA NothingToWaitFor ==
  IInv => ViewFollowsChannel
<1> SUFFICES ASSUME IInv, NEW t \in Tabs \ astray, load[t] = "done", ~InFlight
             PROVE  view[t] = Actual
  BY DEF ViewFollowsChannel
<1>1. requests = {} /\ relays = {} /\ \A u \in Tabs : buffered[u] = {}
  BY DEF InFlight
<1>2. \A k, v : ~OnItsWay(t, k, v)
  BY <1>1 DEF OnItsWay
<1>3. ~News(t) /\ ~Insertion(t)
  BY <1>2 DEF News, Insertion
<1>4. Follows(t) /\ ListOK(t) /\ view[t] \in Seq(Entries)
  BY DEF IInv, TypeOK
<1>5. Len(view[t]) <= 1 /\ ~Marked(view[t])
  BY <1>1, <1>4 DEF ListOK
<1>6. CASE Has(view[t])
  <2>1. told[t] = rev
    <3>1. ~Late(t)
      BY <1>3, <1>4 DEF Follows
    <3> QED
      BY <3>1, LateMeans, ToldRevision DEF IInv
  <2>2. view[t] = <<row>>
    BY <1>1, <1>4, <1>6, <2>1 DEF Follows, Editing
  <2>3. row # None
    <3>1. view[t][1] \in Contents
      BY <1>4, <1>5, <1>6, Short
    <3>2. view[t][1] = row
      BY <2>2
    <3> QED
      BY <3>1, <3>2, Apart
  <2> QED
    BY <2>2, <2>3 DEF Actual
<1>7. CASE ~Has(view[t])
  <2>1. view[t] = <<>>
    BY <1>4, <1>5, <1>7, Nothing
  <2>2. row = None
    BY <1>3, <1>4, <1>7 DEF Follows, Lacks
  <2> QED
    BY <2>1, <2>2 DEF Actual
<1> QED
  BY <1>6, <1>7

(* When no request, emit or handler is on its way, a page that has loaded the channel
   and is not among those astray shows the message once, with its last content, or not
   at all if it is gone: the optimistic list, the notices and the page of history, in
   whatever order they came, add up to what the database says. *)
THEOREM ViewsAgreeWithRow ==
  Spec => []ViewFollowsChannel
BY Inductive, NothingToWaitFor, PTL
=============================================================================
