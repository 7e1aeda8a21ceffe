------------------------ MODULE BillingWebhooksProofs ------------------------
(***************************************************************************)
(* Theorems about BillingWebhooks, for every set of events and workers and *)
(* any number of mishaps: the invariants of the claims and of the record,  *)
(* and that every step of the webhook is a step of BillingLedger or none.  *)
(***************************************************************************)
EXTENDS BillingWebhooks, TLAPS

USE WebhookAssumption

(* What is known of a request from where it stands. *)
Underway ==
  \A w \in Workers :
    /\ pc[w] = "retrieve" => event[w] \in Invoices
    /\ pc[w] = "apply" => state[w] \in Events
    /\ pc[w] = "apply" /\ event[w] \notin Invoices => state[w] = event[w]
    /\ pc[w] = "apply" /\ event[w] \in Invoices => state[w] \in emitted \ Invoices

TypeInv == TypeOK /\ Underway

(* Stripe emits in the order of time, and its subscription is the latest state. *)
Emission ==
  /\ \A e \in emitted, f \in Events \ emitted : Created[e] <= Created[f]
  /\ subscription # None => subscription \in emitted \ Invoices
  /\ \A e \in emitted : subscription # None
  /\ \A f \in emitted \ Invoices : Created[f] <= Created[subscription]

(* Effects come before the row, the row before the answer. *)
Effects ==
  /\ handled \subseteq emitted
  /\ acknowledged \subseteq handled
  /\ DoneWasHandled
  /\ \A w \in Workers : pc[w] \in {"complete", "answer"} => event[w] \in handled

(* A request that is not overrun works on its event alone, and the row stays. *)
Claims ==
  /\ \A w \in asRead : row[event[w]] = Abandoned
  /\ \A w \in Workers : Engaged(w) =>
       w \in overrun \/ row[event[w]] \in {Processing, Abandoned}
  /\ \A v, w \in Workers : v # w /\ Engaged(v) /\ Engaged(w) /\ event[v] = event[w]
       => {v, w} \subseteq overrun

(* s is as new as every state of an earlier second than e. *)
AsNewAs(s, e) == \A f \in Events \ Invoices : Created[f] < Created[e] => Created[f] <= Created[s]

Newest ==
  /\ handled # {} => billing # None
  /\ \A e \in handled : Created[e] <= billing.at
  /\ billing # None =>
       \A f \in Events \ Invoices : Created[f] < billing.at => Created[f] <= Created[billing.state]
  /\ billing # None => \/ Created[billing.state] >= billing.at
                       \/ \E i \in handled \cap Invoices : Created[i] = billing.at
  /\ \A w \in Workers : pc[w] = "apply" => AsNewAs(state[w], event[w])

WebhookInv == TypeInv /\ Emission /\ Effects /\ Claims /\ Newest

-----------------------------------------------------------------------------
(* The rows of an event that is claimed, abandoned or done are different. *)
LEMMA RowsDiffer ==
  /\ Processing # Done /\ Abandoned # Done /\ Processing # Abandoned
  /\ None \notin {Processing, Abandoned, Done}
<1>1. {Processing, Abandoned, Done} \subseteq [done: BOOLEAN, stale: BOOLEAN]
  BY DEF Processing, Abandoned, Done
<1>2. Processing.done # Done.done /\ Abandoned.done # Done.done /\ Processing.stale # Abandoned.stale
  BY DEF Processing, Abandoned, Done
<1> QED BY <1>1, <1>2

(* The inductive invariant holds at first. *)
LEMMA InitInv == Init => WebhookInv
BY RowsDiffer DEF Init, WebhookInv, TypeInv, TypeOK, Underway, Emission, Effects, DoneWasHandled, Claims,
   Engaged, Busy, Newest, Steps

(* Every step keeps the types and what a request under way has at hand. *)
LEMMA TypeStep ==
    ASSUME TypeInv, Emission, Effects, [Next]_vars
    PROVE  TypeInv'
<1>1. CASE UNCHANGED vars
  BY <1>1 DEF vars, stripe, request, TypeInv, TypeOK, Underway, Emission, Steps, Processing, Abandoned, Done
<1>2. ASSUME NEW e \in Events, Emit(e)
     PROVE  TypeInv'
  BY <1>2 DEF Emit, stripe, request, TypeInv, TypeOK, Underway, Emission, Steps, Processing, Abandoned, Done
<1>3. ASSUME NEW e \in Events, NEW w \in Workers, Receive(w, e)
     PROVE  TypeInv'
  <2>1. e \in emitted /\ w \notin asRead
    BY <1>3 DEF Receive, TypeInv, TypeOK, Effects
  <2>2. Underway'
    BY <1>3 DEF Receive, stripe, TypeInv, TypeOK, Underway
  <2>3. TypeOK'
    BY <1>3, <2>1 DEF Receive, stripe, TypeInv, TypeOK, Steps
  <2> QED BY <2>2, <2>3 DEF TypeInv
<1>4. ASSUME NEW e \in Events, ClaimAges(e)
     PROVE  TypeInv'
  BY <1>4 DEF ClaimAges, stripe, request, TypeInv, TypeOK, Underway, Emission, Steps, Processing, Abandoned, Done
<1>5. ASSUME NEW w \in Workers, Create(w)
     PROVE  TypeInv'
  BY <1>5 DEF Create, WriteRow, StartHandling, Goto, stripe, TypeInv, TypeOK, Underway, Emission, Steps, Processing, Abandoned, Done
<1>6. ASSUME NEW w \in Workers, Read(w)
     PROVE  TypeInv'
  BY <1>6 DEF Read, Verdict, Goto, Finish, stripe, TypeInv, TypeOK, Underway, Emission, Steps, Processing, Abandoned, Done
<1>7. ASSUME NEW w \in Workers, TakeOver(w)
     PROVE  TypeInv'
  <2>1. CASE StillAsRead(w)
    <3>1. overrun' \subseteq {v \in Workers : pc'[v] # "idle"}
      BY <1>7, <2>1 DEF TakeOver, StartHandling, Alongside, Engaged, Busy, TypeInv, TypeOK
    <3> QED
      BY <1>7, <2>1, <3>1 DEF TakeOver, StillAsRead, WriteRow, StartHandling, stripe,
         TypeInv, TypeOK, Underway, Emission, Steps, Processing, Abandoned, Done
  <2>2. CASE ~StillAsRead(w)
    BY <1>7, <2>2 DEF TakeOver, StillAsRead, Finish, stripe,
       TypeInv, TypeOK, Underway, Emission, Steps, Processing, Abandoned, Done
  <2> QED BY <2>1, <2>2
<1>8. ASSUME NEW w \in Workers, Retrieve(w)
     PROVE  TypeInv'
  BY <1>8 DEF Retrieve, stripe, TypeInv, TypeOK, Underway, Emission, Steps, Processing, Abandoned, Done
<1>9. ASSUME NEW w \in Workers, Apply(w)
     PROVE  TypeInv'
  BY <1>9 DEF Apply, Supersedes, Goto, stripe, TypeInv, TypeOK, Underway, Emission, Steps, Processing, Abandoned, Done
<1>10. ASSUME NEW w \in Workers, Complete(w)
     PROVE  TypeInv'
  BY <1>10 DEF Complete, WriteRow, Goto, Finish, stripe, TypeInv, TypeOK, Underway, Emission, Steps, Processing, Abandoned, Done
<1>11. ASSUME NEW w \in Workers, Answer(w)
     PROVE  TypeInv'
  BY <1>11 DEF Answer, Finish, stripe, TypeInv, TypeOK, Underway, Emission, Steps, Processing, Abandoned, Done
<1>12. ASSUME NEW w \in Workers, Release(w)
     PROVE  TypeInv'
  BY <1>12 DEF Release, WriteRow, Finish, stripe, TypeInv, TypeOK, Underway, Emission, Steps, Processing, Abandoned, Done
<1>13. ASSUME NEW w \in Workers, HandlerFails(w)
     PROVE  TypeInv'
  BY <1>13 DEF HandlerFails, GoesWrong, Goto, stripe, TypeInv, TypeOK, Underway, Emission, Steps, Processing, Abandoned, Done
<1>14. ASSUME NEW w \in Workers, LastCallFails(w)
     PROVE  TypeInv'
  BY <1>14 DEF LastCallFails, GoesWrong, Finish, stripe, TypeInv, TypeOK, Underway, Emission, Steps, Processing, Abandoned, Done
<1>15. ASSUME NEW w \in Workers, Crash(w)
     PROVE  TypeInv'
  BY <1>15 DEF Crash, GoesWrong, Finish, stripe, TypeInv, TypeOK, Underway, Emission, Steps, Processing, Abandoned, Done
<1> QED BY <1>1, <1>2, <1>3, <1>4, <1>5, <1>6, <1>7, <1>8, <1>9, <1>10, <1>11, <1>12, <1>13, <1>14, <1>15 DEF Next, WorkerStep, Mishap

(* Every step keeps Stripe's order of emission. *)
LEMMA EmissionStep ==
    ASSUME TypeInv, Emission, [Next]_vars
    PROVE  Emission'
<1>1. CASE UNCHANGED vars
  BY <1>1 DEF vars, stripe, request, TypeInv, TypeOK, Emission, request
<1>2. ASSUME NEW e \in Events, Emit(e)
     PROVE  Emission'
  BY <1>2 DEF Emit, stripe, request, TypeInv, TypeOK, Emission, request
<1>3. ASSUME NEW e \in Events, NEW w \in Workers, Receive(w, e)
     PROVE  Emission'
  BY <1>3 DEF Receive, stripe, TypeInv, TypeOK, Emission, request
<1>4. ASSUME NEW e \in Events, ClaimAges(e)
     PROVE  Emission'
  BY <1>4 DEF ClaimAges, stripe, request, TypeInv, TypeOK, Emission, request
<1>5. ASSUME NEW w \in Workers, Create(w)
     PROVE  Emission'
  BY <1>5 DEF Create, WriteRow, StartHandling, Goto, stripe, TypeInv, TypeOK, Emission, request
<1>6. ASSUME NEW w \in Workers, Read(w)
     PROVE  Emission'
  BY <1>6 DEF Read, Verdict, Goto, Finish, stripe, TypeInv, TypeOK, Emission, request
<1>7. ASSUME NEW w \in Workers, TakeOver(w)
     PROVE  Emission'
  BY <1>7 DEF TakeOver, StillAsRead, WriteRow, StartHandling, Finish, stripe, TypeInv, TypeOK, Emission, request
<1>8. ASSUME NEW w \in Workers, Retrieve(w)
     PROVE  Emission'
  BY <1>8 DEF Retrieve, stripe, TypeInv, TypeOK, Emission, request
<1>9. ASSUME NEW w \in Workers, Apply(w)
     PROVE  Emission'
  BY <1>9 DEF Apply, Supersedes, Goto, stripe, TypeInv, TypeOK, Emission, request
<1>10. ASSUME NEW w \in Workers, Complete(w)
     PROVE  Emission'
  BY <1>10 DEF Complete, WriteRow, Goto, Finish, stripe, TypeInv, TypeOK, Emission, request
<1>11. ASSUME NEW w \in Workers, Answer(w)
     PROVE  Emission'
  BY <1>11 DEF Answer, Finish, stripe, TypeInv, TypeOK, Emission, request
<1>12. ASSUME NEW w \in Workers, Release(w)
     PROVE  Emission'
  BY <1>12 DEF Release, WriteRow, Finish, stripe, TypeInv, TypeOK, Emission, request
<1>13. ASSUME NEW w \in Workers, HandlerFails(w)
     PROVE  Emission'
  BY <1>13 DEF HandlerFails, GoesWrong, Goto, stripe, TypeInv, TypeOK, Emission, request
<1>14. ASSUME NEW w \in Workers, LastCallFails(w)
     PROVE  Emission'
  BY <1>14 DEF LastCallFails, GoesWrong, Finish, stripe, TypeInv, TypeOK, Emission, request
<1>15. ASSUME NEW w \in Workers, Crash(w)
     PROVE  Emission'
  BY <1>15 DEF Crash, GoesWrong, Finish, stripe, TypeInv, TypeOK, Emission, request
<1> QED BY <1>1, <1>2, <1>3, <1>4, <1>5, <1>6, <1>7, <1>8, <1>9, <1>10, <1>11, <1>12, <1>13, <1>14, <1>15 DEF Next, WorkerStep, Mishap

(* Every step keeps effects before the row that says done, and that before the answer. *)
LEMMA EffectsStep ==
    ASSUME TypeInv, Effects, [Next]_vars
    PROVE  Effects'
<1>1. CASE UNCHANGED vars
  BY <1>1 DEF vars, stripe, request, TypeInv, TypeOK, Effects, DoneWasHandled, request, Processing, Abandoned, Done
<1>2. ASSUME NEW e \in Events, Emit(e)
     PROVE  Effects'
  BY <1>2 DEF Emit, stripe, request, TypeInv, TypeOK, Effects, DoneWasHandled, request, Processing, Abandoned, Done
<1>3. ASSUME NEW e \in Events, NEW w \in Workers, Receive(w, e)
     PROVE  Effects'
  BY <1>3 DEF Receive, stripe, TypeInv, TypeOK, Effects, DoneWasHandled, request, Processing, Abandoned, Done
<1>4. ASSUME NEW e \in Events, ClaimAges(e)
     PROVE  Effects'
  BY <1>4 DEF ClaimAges, stripe, request, TypeInv, TypeOK, Effects, DoneWasHandled, request, Processing, Abandoned, Done
<1>5. ASSUME NEW w \in Workers, Create(w)
     PROVE  Effects'
  BY <1>5 DEF Create, WriteRow, StartHandling, Goto, stripe, TypeInv, TypeOK, Effects, DoneWasHandled, request, Processing, Abandoned, Done
<1>6. ASSUME NEW w \in Workers, Read(w)
     PROVE  Effects'
  BY <1>6 DEF Read, Verdict, Goto, Finish, stripe, TypeInv, TypeOK, Effects, DoneWasHandled, request, Processing, Abandoned, Done
<1>7. ASSUME NEW w \in Workers, TakeOver(w)
     PROVE  Effects'
  BY <1>7 DEF TakeOver, StillAsRead, WriteRow, StartHandling, Finish, stripe, TypeInv, TypeOK, Effects, DoneWasHandled, request, Processing, Abandoned, Done
<1>8. ASSUME NEW w \in Workers, Retrieve(w)
     PROVE  Effects'
  BY <1>8 DEF Retrieve, stripe, TypeInv, TypeOK, Effects, DoneWasHandled, request, Processing, Abandoned, Done
<1>9. ASSUME NEW w \in Workers, Apply(w)
     PROVE  Effects'
  BY <1>9 DEF Apply, Supersedes, Goto, stripe, TypeInv, TypeOK, Effects, DoneWasHandled, request, Processing, Abandoned, Done
<1>10. ASSUME NEW w \in Workers, Complete(w)
     PROVE  Effects'
  BY <1>10 DEF Complete, WriteRow, Goto, Finish, stripe, TypeInv, TypeOK, Effects, DoneWasHandled, request, Processing, Abandoned, Done
<1>11. ASSUME NEW w \in Workers, Answer(w)
     PROVE  Effects'
  BY <1>11 DEF Answer, Finish, stripe, TypeInv, TypeOK, Effects, DoneWasHandled, request, Processing, Abandoned, Done
<1>12. ASSUME NEW w \in Workers, Release(w)
     PROVE  Effects'
  BY <1>12, RowsDiffer DEF Release, WriteRow, Finish, stripe, TypeInv, TypeOK, Effects, DoneWasHandled
<1>13. ASSUME NEW w \in Workers, HandlerFails(w)
     PROVE  Effects'
  BY <1>13 DEF HandlerFails, GoesWrong, Goto, stripe, TypeInv, TypeOK, Effects, DoneWasHandled, request, Processing, Abandoned, Done
<1>14. ASSUME NEW w \in Workers, LastCallFails(w)
     PROVE  Effects'
  BY <1>14 DEF LastCallFails, GoesWrong, Finish, stripe, TypeInv, TypeOK, Effects, DoneWasHandled, request, Processing, Abandoned, Done
<1>15. ASSUME NEW w \in Workers, Crash(w)
     PROVE  Effects'
  BY <1>15 DEF Crash, GoesWrong, Finish, stripe, TypeInv, TypeOK, Effects, DoneWasHandled, request, Processing, Abandoned, Done
<1> QED BY <1>1, <1>2, <1>3, <1>4, <1>5, <1>6, <1>7, <1>8, <1>9, <1>10, <1>11, <1>12, <1>13, <1>14, <1>15 DEF Next, WorkerStep, Mishap

(* Every step keeps what a worker knows of the row it claimed. *)
LEMMA ClaimsStep ==
    ASSUME TypeInv, Claims, [Next]_vars
    PROVE  Claims'
<1>1. CASE UNCHANGED vars
  BY <1>1 DEF vars, stripe, request, TypeInv, TypeOK, Claims, Engaged, Busy, request
<1>2. ASSUME NEW e \in Events, Emit(e)
     PROVE  Claims'
  BY <1>2 DEF Emit, stripe, request, TypeInv, TypeOK, Claims, Engaged, Busy, request
<1>3. ASSUME NEW e \in Events, NEW w \in Workers, Receive(w, e)
     PROVE  Claims'
  BY <1>3 DEF Receive, stripe, TypeInv, TypeOK, Claims, Engaged, Busy, request
<1>4. ASSUME NEW e \in Events, ClaimAges(e)
     PROVE  Claims'
  BY <1>4 DEF ClaimAges, stripe, request, TypeInv, TypeOK, Claims, Engaged, Busy, request
<1>5. ASSUME NEW w \in Workers, Create(w)
     PROVE  Claims'
  <2>1. CASE row[event[w]] = None
    <3> DEFINE e == event[w]
    <3>1. /\ row' = [row EXCEPT ![e] = Processing] /\ row[e] = None
          /\ event' = event /\ asRead' = {v \in asRead : event[v] # e}
          /\ ~Engaged(w) /\ Engaged(w)' /\ e \in Events
          /\ \A v \in Workers : v # w => pc'[v] = pc[v]
      BY <1>5, <2>1 DEF Create, WriteRow, StartHandling, TypeInv, TypeOK, Engaged, Busy
    <3>2. overrun' = IF Alongside(w) \cap overrun = {} THEN overrun ELSE overrun \cup {w}
      BY <1>5, <2>1 DEF Create
    <3>3. \A v \in Workers : v # w => (Engaged(v)' <=> Engaged(v))
      BY <3>1 DEF Engaged, Busy
    <3>4. \A v \in Alongside(w) : v \in overrun
      BY <3>1, RowsDiffer DEF Alongside, Claims
    <3>5. \A v \in asRead' : row'[event'[v]] = Abandoned
      BY <3>1 DEF Claims, TypeInv, TypeOK
    <3>6. \A v \in Workers : Engaged(v)' =>
             v \in overrun' \/ row'[event'[v]] \in {Processing, Abandoned}
      BY <3>1, <3>2, <3>3, <2>1 DEF Claims, TypeInv, TypeOK
    <3>7. \A v \in Workers : v # w /\ Engaged(v)' /\ event'[v] = event'[w]
             => {v, w} \subseteq overrun'
      BY <3>1, <3>2, <3>3, <3>4 DEF Alongside
    <3>8. \A u, v \in Workers : u # w /\ v # w /\ u # v /\ Engaged(u)' /\ Engaged(v)' /\ event'[u] = event'[v]
             => {u, v} \subseteq overrun'
      BY <3>1, <3>2, <3>3 DEF Claims
    <3> QED
      BY <3>5, <3>6, <3>7, <3>8 DEF Claims, Engaged, Busy
  <2>2. CASE row[event[w]] # None
    BY <1>5, <2>2 DEF Create, Goto, TypeInv, TypeOK, Claims, Engaged, Busy
  <2> QED BY <2>1, <2>2
<1>6. ASSUME NEW w \in Workers, Read(w)
     PROVE  Claims'
  <2>1. /\ w \notin asRead
        /\ \/ asRead' = asRead
           \/ asRead' = asRead \cup {w} /\ event' = event /\ row[event[w]] = Abandoned
    <3>1. w \notin asRead
      BY <1>6 DEF Read, TypeInv, TypeOK
    <3>2. row[event[w]] \in {None, Processing, Abandoned, Done}
      BY <1>6 DEF Read, TypeInv, TypeOK
    <3>3. Verdict(row[event[w]]) = "takeover" => row[event[w]] = Abandoned
      <4>1. Done.done /\ ~Processing.done /\ ~Processing.stale
        BY DEF Processing, Done
      <4> QED BY <3>2, <4>1 DEF Verdict
    <3> QED BY <1>6, <3>1, <3>3 DEF Read, Goto
  <2>2. row' = row /\ overrun \subseteq overrun' \cup {w} /\ event' \in [Workers -> Events \cup {None}]
    BY <1>6 DEF Read, Goto, Finish, TypeInv, TypeOK
  <2>3. \A v \in Workers : v # w => pc'[v] = pc[v] /\ event'[v] = event[v]
    BY <1>6 DEF Read, Goto, Finish, TypeInv, TypeOK
  <2>4. ~Engaged(w)'
    BY <1>6 DEF Read, Goto, Finish, TypeInv, TypeOK, Engaged, Busy
  <2>5. \A v \in asRead' : row'[event'[v]] = Abandoned
    BY <2>1, <2>2, <2>3 DEF Claims, TypeInv, TypeOK
  <2> QED BY <2>2, <2>3, <2>4, <2>5 DEF Claims, Engaged, Busy
<1>7. ASSUME NEW w \in Workers, TakeOver(w)
     PROVE  Claims'
  <2>1. CASE StillAsRead(w)
    <3> DEFINE e == event[w]
    <3>1. /\ row' = [row EXCEPT ![e] = Processing] /\ row[e] = Abandoned
          /\ event' = event /\ asRead' = {v \in asRead : event[v] # e}
          /\ ~Engaged(w) /\ Engaged(w)' /\ e \in Events
          /\ \A v \in Workers : v # w => pc'[v] = pc[v]
      BY <1>7, <2>1 DEF TakeOver, StillAsRead, WriteRow, StartHandling, TypeInv, TypeOK, Engaged, Busy, Claims
    <3>2. overrun' = IF Alongside(w) # {} THEN overrun \cup Alongside(w) \cup {w} ELSE overrun
      BY <1>7, <2>1, <3>1 DEF TakeOver
    <3>3. \A v \in Workers : v # w => (Engaged(v)' <=> Engaged(v))
      BY <3>1 DEF Engaged, Busy
    <3>4. \A v \in asRead' : row'[event'[v]] = Abandoned
      BY <3>1 DEF Claims, TypeInv, TypeOK
    <3>5. \A v \in Workers : Engaged(v)' =>
             v \in overrun' \/ row'[event'[v]] \in {Processing, Abandoned}
      BY <3>1, <3>2, <3>3 DEF Claims, TypeInv, TypeOK
    <3>6. \A v \in Workers : v # w /\ Engaged(v)' /\ event'[v] = event'[w]
             => {v, w} \subseteq overrun'
      BY <3>1, <3>2, <3>3 DEF Alongside
    <3>7. \A u, v \in Workers : u # w /\ v # w /\ u # v /\ Engaged(u)' /\ Engaged(v)' /\ event'[u] = event'[v]
             => {u, v} \subseteq overrun'
      BY <3>1, <3>2, <3>3 DEF Claims
    <3> QED
      BY <3>4, <3>5, <3>6, <3>7 DEF Claims, Engaged, Busy
  <2>2. CASE ~StillAsRead(w)
    BY <1>7, <2>2 DEF TakeOver, StillAsRead, Finish, TypeInv, TypeOK, Claims, Engaged, Busy
  <2> QED BY <2>1, <2>2
<1>8. ASSUME NEW w \in Workers, Retrieve(w)
     PROVE  Claims'
  BY <1>8 DEF Retrieve, stripe, TypeInv, TypeOK, Claims, Engaged, Busy, request
<1>9. ASSUME NEW w \in Workers, Apply(w)
     PROVE  Claims'
  BY <1>9 DEF Apply, Supersedes, Goto, stripe, TypeInv, TypeOK, Claims, Engaged, Busy, request
<1>10. ASSUME NEW w \in Workers, Complete(w)
     PROVE  Claims'
  BY <1>10 DEF Complete, WriteRow, Goto, Finish, stripe, TypeInv, TypeOK, Claims, Engaged, Busy, request
<1>11. ASSUME NEW w \in Workers, Answer(w)
     PROVE  Claims'
  BY <1>11 DEF Answer, Finish, stripe, TypeInv, TypeOK, Claims, Engaged, Busy, request
<1>12. ASSUME NEW w \in Workers, Release(w)
     PROVE  Claims'
  BY <1>12 DEF Release, WriteRow, Finish, stripe, TypeInv, TypeOK, Claims, Engaged, Busy, request
<1>13. ASSUME NEW w \in Workers, HandlerFails(w)
     PROVE  Claims'
  BY <1>13 DEF HandlerFails, GoesWrong, Goto, stripe, TypeInv, TypeOK, Claims, Engaged, Busy, request
<1>14. ASSUME NEW w \in Workers, LastCallFails(w)
     PROVE  Claims'
  BY <1>14 DEF LastCallFails, GoesWrong, Finish, stripe, TypeInv, TypeOK, Claims, Engaged, Busy, request
<1>15. ASSUME NEW w \in Workers, Crash(w)
     PROVE  Claims'
  BY <1>15 DEF Crash, GoesWrong, Finish, stripe, TypeInv, TypeOK, Claims, Engaged, Busy, request
<1> QED BY <1>1, <1>2, <1>3, <1>4, <1>5, <1>6, <1>7, <1>8, <1>9, <1>10, <1>11, <1>12, <1>13, <1>14, <1>15 DEF Next, WorkerStep, Mishap

(* Every step keeps the newest state recorded, and about to be. *)
LEMMA NewestStep ==
    ASSUME WebhookInv, [Next]_vars
    PROVE  Newest'
<1>1. CASE UNCHANGED vars
  BY <1>1 DEF vars, stripe, request, WebhookInv, TypeInv, TypeOK, Underway, Emission, Effects, Newest, AsNewAs, request
<1>2. ASSUME NEW e \in Events, Emit(e)
     PROVE  Newest'
  BY <1>2 DEF Emit, stripe, request, WebhookInv, TypeInv, TypeOK, Underway, Emission, Effects, Newest, AsNewAs, request
<1>3. ASSUME NEW e \in Events, NEW w \in Workers, Receive(w, e)
     PROVE  Newest'
  BY <1>3 DEF Receive, stripe, WebhookInv, TypeInv, TypeOK, Underway, Emission, Effects, Newest, AsNewAs, request
<1>4. ASSUME NEW e \in Events, ClaimAges(e)
     PROVE  Newest'
  BY <1>4 DEF ClaimAges, stripe, request, WebhookInv, TypeInv, TypeOK, Underway, Emission, Effects, Newest, AsNewAs, request
<1>5. ASSUME NEW w \in Workers, Create(w)
     PROVE  Newest'
  BY <1>5 DEF Create, WriteRow, StartHandling, Goto, stripe, WebhookInv, TypeInv, TypeOK, Underway, Emission, Effects, Newest, AsNewAs, request
<1>6. ASSUME NEW w \in Workers, Read(w)
     PROVE  Newest'
  BY <1>6 DEF Read, Verdict, Goto, Finish, stripe, WebhookInv, TypeInv, TypeOK, Underway, Emission, Effects, Newest, AsNewAs, request
<1>7. ASSUME NEW w \in Workers, TakeOver(w)
     PROVE  Newest'
  BY <1>7 DEF TakeOver, StillAsRead, WriteRow, StartHandling, Finish, stripe, WebhookInv, TypeInv, TypeOK, Underway, Emission, Effects, Newest, AsNewAs, request
<1>8. ASSUME NEW w \in Workers, Retrieve(w)
     PROVE  Newest'
  BY <1>8 DEF Retrieve, stripe, WebhookInv, TypeInv, TypeOK, Underway, Emission, Effects, Newest, AsNewAs, request
<1>9. ASSUME NEW w \in Workers, Apply(w)
     PROVE  Newest'
  BY <1>9 DEF Apply, Supersedes, Goto, stripe, WebhookInv, TypeInv, TypeOK, Underway, Emission, Effects, Newest, AsNewAs, request
<1>10. ASSUME NEW w \in Workers, Complete(w)
     PROVE  Newest'
  BY <1>10 DEF Complete, WriteRow, Goto, Finish, stripe, WebhookInv, TypeInv, TypeOK, Underway, Emission, Effects, Newest, AsNewAs, request
<1>11. ASSUME NEW w \in Workers, Answer(w)
     PROVE  Newest'
  BY <1>11 DEF Answer, Finish, stripe, WebhookInv, TypeInv, TypeOK, Underway, Emission, Effects, Newest, AsNewAs, request
<1>12. ASSUME NEW w \in Workers, Release(w)
     PROVE  Newest'
  BY <1>12 DEF Release, WriteRow, Finish, stripe, WebhookInv, TypeInv, TypeOK, Underway, Emission, Effects, Newest, AsNewAs, request
<1>13. ASSUME NEW w \in Workers, HandlerFails(w)
     PROVE  Newest'
  BY <1>13 DEF HandlerFails, GoesWrong, Goto, stripe, WebhookInv, TypeInv, TypeOK, Underway, Emission, Effects, Newest, AsNewAs, request
<1>14. ASSUME NEW w \in Workers, LastCallFails(w)
     PROVE  Newest'
  BY <1>14 DEF LastCallFails, GoesWrong, Finish, stripe, WebhookInv, TypeInv, TypeOK, Underway, Emission, Effects, Newest, AsNewAs, request
<1>15. ASSUME NEW w \in Workers, Crash(w)
     PROVE  Newest'
  BY <1>15 DEF Crash, GoesWrong, Finish, stripe, WebhookInv, TypeInv, TypeOK, Underway, Emission, Effects, Newest, AsNewAs, request
<1> QED BY <1>1, <1>2, <1>3, <1>4, <1>5, <1>6, <1>7, <1>8, <1>9, <1>10, <1>11, <1>12, <1>13, <1>14, <1>15 DEF Next, WorkerStep, Mishap
(* The inductive invariant holds in every reachable state. *)
LEMMA WebhookInvariant == Spec => []WebhookInv
<1>1. ASSUME WebhookInv, [Next]_vars
      PROVE  WebhookInv'
  BY <1>1, TypeStep, EmissionStep, EffectsStep, ClaimsStep, NewestStep DEF WebhookInv
<1> QED BY InitInv, <1>1, PTL DEF Spec, SafeSpec

-----------------------------------------------------------------------------
(* Every reachable state of the webhook is well formed. *)
THEOREM TypeCorrect == Spec => []TypeOK
<1>1. WebhookInv => TypeOK
  BY DEF WebhookInv, TypeInv
<1> QED BY WebhookInvariant, <1>1, PTL

(* The row of an event says "done" only after the event had its effect, so that no
   duplicate is waved through without one. *)
THEOREM DoneIsHandled == Spec => []DoneWasHandled
<1>1. WebhookInv => DoneWasHandled
  BY DEF WebhookInv, Effects
<1> QED BY WebhookInvariant, <1>1, PTL

(* Of any number of concurrent deliveries of an event, one works on it, until a claim
   is taken over from a worker that is still alive. *)
THEOREM Exclusive == Spec => []ExclusiveUnlessOverrun
<1>1. WebhookInv => ExclusiveUnlessOverrun
  BY DEF WebhookInv, Claims, Engaged, ExclusiveUnlessOverrun
<1> QED BY WebhookInvariant, <1>1, PTL

(* The billing record bears the time of the newest event handled, and a state at least
   as new as every subscription event handled, those of an earlier second always,
   those of the same second unless an invoice of that second was handled. *)
THEOREM NewestWins == Spec => []NewestHandledWins
<1>1. WebhookInv => NewestHandledWins
  BY DEF WebhookInv, TypeInv, TypeOK, Effects, Newest, NewestHandledWins
<1> QED BY WebhookInvariant, <1>1, PTL

(* The table forgets that an event is done only by the release of a worker at work on
   it alongside another, since a claim was taken over from one of them. *)
THEOREM DoneIsRemembered == Spec => DoneForgottenOnlyAfterOverrun
<1>1. ASSUME WebhookInv, [Next]_vars, NEW e \in Events, row[e] = Done, row'[e] # Done
      PROVE  \E w \in overrun : event[w] = e /\ pc[w] = "release"
  <2> USE <1>1, RowsDiffer DEF WebhookInv, TypeInv, TypeOK, Claims
  <2>1. CASE UNCHANGED vars
    BY <2>1 DEF vars
  <2>2. ASSUME NEW w \in Workers, Release(w)
        PROVE  \E v \in overrun : event[v] = e /\ pc[v] = "release"
    BY <2>2 DEF Release, WriteRow, Engaged
  <2>3. ASSUME NEW w \in Workers, Create(w) \/ TakeOver(w) \/ Complete(w)
        PROVE  FALSE
    BY <2>3 DEF Create, TakeOver, StillAsRead, Complete, WriteRow, Engaged, Busy
  <2>4. ASSUME NEW w \in Workers, Read(w) \/ Retrieve(w) \/ Apply(w) \/ Answer(w) \/ Mishap(w)
        PROVE  FALSE
    BY <2>4 DEF Read, Retrieve, Apply, Answer, Mishap, HandlerFails, LastCallFails, Crash
  <2>5. ASSUME NEW f \in Events, Emit(f) \/ ClaimAges(f) \/ \E w \in Workers : Receive(w, f)
        PROVE  FALSE
    BY <2>5 DEF Emit, ClaimAges, Receive
  <2> QED BY <2>1, <2>2, <2>3, <2>4, <2>5 DEF Next, WorkerStep
<1>2. WebhookInv /\ [Next]_vars
        => [\A e \in Events : row[e] = Done /\ row'[e] # Done
              => \E w \in overrun : event[w] = e /\ pc[w] = "release"]_vars
  BY <1>1
<1>3. Spec => [][Next]_vars
  BY PTL DEF Spec, SafeSpec
<1> QED BY WebhookInvariant, <1>2, <1>3, PTL DEF DoneForgottenOnlyAfterOverrun

-----------------------------------------------------------------------------
(* What the worker writes when it applies an event is what the ledger allows. *)
LEMMA ApplyRecords ==
    ASSUME WebhookInv, NEW w \in Workers, Apply(w)
    PROVE  /\ event[w] \in emitted
           /\ \E s \in Ledger!StatesShown(event[w]) : Ledger!Record(event[w], s)
<1> DEFINE e == event[w]
<1>1. e \in emitted /\ pc[w] = "apply"
  BY DEF Apply, WebhookInv, TypeInv, TypeOK
<1>2. state[w] \in Ledger!StatesShown(e)
  BY <1>1 DEF WebhookInv, TypeInv, Underway, Ledger!StatesShown
<1>3. Ledger!Record(e, state[w])
  BY DEF Apply, Supersedes, Ledger!Record
<1> QED BY <1>1, <1>2, <1>3

(* A step of the webhook is a step of the ledger, or changes nothing in it. *)
LEMMA LedgerStep ==
    ASSUME WebhookInv, [Next]_vars
    PROVE  [Ledger!Next]_(Ledger!ledger)
<1> DEFINE Same == UNCHANGED Ledger!ledger
<1>1. CASE UNCHANGED vars
  BY <1>1 DEF vars, stripe, Ledger!ledger
<1>2. ASSUME NEW e \in Events, Emit(e)
      PROVE  Ledger!Emit(e)
  BY <1>2 DEF Emit, Ledger!Emit
<1>3. ASSUME NEW w \in Workers, Apply(w)
      PROVE  Ledger!Handle(event[w]) \/ Ledger!HandleAgain(event[w])
  <2>1. CASE event[w] \in handled
    BY <1>3, <2>1, ApplyRecords DEF Apply, stripe, Ledger!HandleAgain
  <2>2. CASE event[w] \notin handled
    BY <1>3, <2>2, ApplyRecords DEF Apply, stripe, Ledger!Handle
  <2> QED BY <2>1, <2>2
<1>4. ASSUME NEW w \in Workers, Answer(w)
      PROVE  Ledger!Acknowledge(event[w]) \/ Same
  BY <1>4 DEF Answer, stripe, WebhookInv, Effects, Ledger!Acknowledge, Ledger!ledger
<1>5. ASSUME NEW w \in Workers, Create(w) \/ Read(w) \/ Retrieve(w) \/ Complete(w) \/ Release(w) \/ Mishap(w)
      PROVE  Same
  BY <1>5 DEF Create, Read, Retrieve, Complete, Release, Mishap, HandlerFails, LastCallFails, Crash,
     stripe, Ledger!ledger
<1>6. ASSUME NEW w \in Workers, TakeOver(w)
      PROVE  Same
  BY <1>6 DEF TakeOver, stripe, Ledger!ledger
<1>7. ASSUME NEW e \in Events, ClaimAges(e) \/ \E w \in Workers : Receive(w, e)
      PROVE  Same
  BY <1>7 DEF ClaimAges, Receive, stripe, Ledger!ledger
<1>8. \A w \in Workers : pc[w] # "idle" => event[w] \in Events
  BY DEF WebhookInv, TypeInv, TypeOK
<1>9. \A w \in Workers : Apply(w) \/ Answer(w) => event[w] \in Events
  BY <1>8 DEF Apply, Answer
<1> QED BY <1>1, <1>2, <1>3, <1>4, <1>5, <1>6, <1>7, <1>9 DEF Next, WorkerStep, Ledger!Next

(* The webhook implements the ledger, as far as safety goes: a 200 is given only for an
   event that has had its effect, and the record changes only as the ledger allows. *)
THEOREM ImplementsLedgerSafely == Spec => Ledger!SafeSpec
<1>1. Init => Ledger!Init
  BY DEF Init, Ledger!Init
<1>2. Spec => Init /\ [][Next]_vars
  BY PTL DEF Spec, SafeSpec
<1> QED BY <1>1, <1>2, WebhookInvariant, LedgerStep, PTL DEF Ledger!SafeSpec
=============================================================================
