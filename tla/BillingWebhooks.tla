--------------------------- MODULE BillingWebhooks ---------------------------
(***************************************************************************)
(* Campfire's billing webhook: app/api/billing/webhook/route.ts, the claim *)
(* of an event in lib/webhook-idempotency.ts, and what lib/stripe.ts does  *)
(* with it.  Stripe delivers an event again until it is answered with 200, *)
(* several deliveries may be worked on at once, in one process or several, *)
(* and a worker may crash between any two of its database steps, or be     *)
(* slower than the five minutes after which its claim counts as abandoned. *)
(*                                                                         *)
(* Each database call and each call of Stripe's API is one step.           *)
(***************************************************************************)
EXTENDS Integers

CONSTANTS
  Events, Invoices, Created, None,     \* as in BillingLedger
  Repeated,       \* events that Stripe may deliver again after a 200 (a bound)
  Workers,        \* requests that may be worked on at once (a bound)
  MaxMishaps      \* crashes of a worker, errors of the database or of Stripe's API (a bound)

ASSUME WebhookAssumption ==
  /\ Invoices \subseteq Events
  /\ Created \in [Events -> Nat]
  /\ None \notin Events \cup [at: Nat, state: Events] \cup [done: BOOLEAN, stale: BOOLEAN]
  /\ Repeated \subseteq Events
  /\ MaxMishaps \in Nat

VARIABLES
  emitted, subscription,   \* at Stripe, as in BillingLedger
  acknowledged,            \* events answered with 200
  billing,                 \* the user's row: billingEventAt and the state it came with
  row,                     \* the webhookEvent table
  pc,                      \* where the request of a worker stands
  event,                   \* the event it is about
  state,                   \* the subscription state it is to record
  asRead,                  \* workers about to take over a claim that is still as they read it
  handled,                 \* history: events whose update of billing was committed
  overrun,                 \* history: requests that share their event with another, its
                           \* claim having been taken over from one not finished with it
  mishaps                  \* how many have happened

stripe == <<emitted, subscription>>
request == <<pc, event, state, overrun>>
vars == <<stripe, acknowledged, billing, row, request, asRead, handled, mishaps>>

Processing == [done |-> FALSE, stale |-> FALSE]
Abandoned == [done |-> FALSE, stale |-> TRUE]
Done == [done |-> TRUE, stale |-> FALSE]

Steps == {"idle", "create", "read", "takeover", "retrieve", "apply", "complete", "release", "answer"}

TypeOK ==
  /\ emitted \subseteq Events
  /\ subscription \in Events \cup {None}
  /\ acknowledged \subseteq Events
  /\ billing \in [at: Nat, state: Events] \cup {None}
  /\ row \in [Events -> {None, Processing, Abandoned, Done}]
  /\ pc \in [Workers -> Steps]
  /\ event \in [Workers -> Events \cup {None}]
  /\ \A w \in Workers : pc[w] # "idle" => event[w] \in emitted
  /\ state \in [Workers -> Events \cup {None}]
  /\ asRead \subseteq {w \in Workers : pc[w] = "takeover"}
  /\ handled \subseteq Events
  /\ overrun \subseteq {w \in Workers : pc[w] # "idle"}
  /\ mishaps \in 0..MaxMishaps

Init ==
  /\ emitted = {}
  /\ subscription = None
  /\ acknowledged = {}
  /\ billing = None
  /\ row = [e \in Events |-> None]
  /\ pc = [w \in Workers |-> "idle"]
  /\ event = [w \in Workers |-> None]
  /\ state = [w \in Workers |-> None]
  /\ asRead = {}
  /\ handled = {}
  /\ overrun = {}
  /\ mishaps = 0

(* At work on the billing record, between the claim and its completion. *)
Busy(w) == pc[w] \in {"retrieve", "apply", "complete"}
(* ... or about to release the claim. *)
Engaged(w) == Busy(w) \/ pc[w] = "release"
Alongside(w) == {v \in Workers \ {w} : Engaged(v) /\ event[v] = event[w]}
Goto(w, step) == pc' = [pc EXCEPT ![w] = step] /\ UNCHANGED <<event, state, overrun>>
Finish(w) == /\ pc' = [pc EXCEPT ![w] = "idle"]
             /\ event' = [event EXCEPT ![w] = None]
             /\ state' = [state EXCEPT ![w] = None]
             /\ overrun' = overrun \ {w}

StartUnretrieved(w) ==  \* mutant
  /\ pc' = [pc EXCEPT ![w] = "apply"]
  /\ state' = [state EXCEPT ![w] = IF event[w] \in Invoices THEN None ELSE event[w]]
  /\ UNCHANGED event

(* handleWebhookEvent: an invoice first asks Stripe for the subscription. *)
StartHandling(w) ==
  /\ pc' = [pc EXCEPT ![w] = IF event[w] \in Invoices THEN "retrieve" ELSE "apply"]
  /\ state' = [state EXCEPT ![w] = IF event[w] \in Invoices THEN None ELSE event[w]]
  /\ UNCHANGED event

(* Write the row of e: whoever has read it before and compares will notice. *)
WriteRow(e, r) ==
  /\ row' = [row EXCEPT ![e] = r]
  /\ asRead' = {w \in asRead : event[w] # e}

-----------------------------------------------------------------------------
(* Stripe *)

Emit(e) ==
  /\ e \notin emitted
  /\ \A f \in Events \ emitted : Created[e] <= Created[f]
  /\ e \in Invoices => subscription # None
  /\ emitted' = emitted \cup {e}
  /\ subscription' = IF e \in Invoices THEN subscription ELSE e
  /\ UNCHANGED <<acknowledged, billing, row, request, asRead, handled, mishaps>>

(* A delivery, first or repeated; a repetition may follow the 200 as well. *)
Receive(w, e) ==
  /\ e \in emitted \ acknowledged \/ e \in Repeated \cap acknowledged
  /\ pc[w] = "idle"
  /\ pc' = [pc EXCEPT ![w] = "create"]
  /\ event' = [event EXCEPT ![w] = e]
  /\ UNCHANGED <<stripe, acknowledged, billing, row, state, overrun, asRead, handled, mishaps>>

-----------------------------------------------------------------------------
(* claimEvent *)

Create(w) ==
  /\ pc[w] = "create"
  /\ LET e == event[w]
     IN IF row[e] = None
        THEN /\ WriteRow(e, Processing)
             /\ StartHandling(w)
             /\ overrun' = IF Alongside(w) \cap overrun = {} THEN overrun ELSE overrun \cup {w}
        ELSE Goto(w, "read") /\ UNCHANGED <<row, asRead>>
  /\ UNCHANGED <<stripe, acknowledged, billing, handled, mishaps>>

StaleIsDuplicate(r) ==  \* mutant
  IF r = None THEN "in-flight" ELSE IF r.done \/ r.stale THEN "duplicate" ELSE "in-flight"

(* What the claim that was found comes to: duplicate, in-flight or a takeover. *)
Verdict(r) == IF r = None THEN "in-flight"
              ELSE IF r.done THEN "duplicate"
              ELSE IF r.stale THEN "takeover" ELSE "in-flight"

Read(w) ==
  /\ pc[w] = "read"
  /\ LET verdict == Verdict(row[event[w]])
     IN \/ verdict = "duplicate" /\ Goto(w, "answer") /\ UNCHANGED asRead
        \/ verdict = "in-flight" /\ Finish(w) /\ UNCHANGED asRead
        \/ verdict = "takeover" /\ Goto(w, "takeover") /\ asRead' = asRead \cup {w}
  /\ UNCHANGED <<stripe, acknowledged, billing, row, handled, mishaps>>

StillUnfinished(w) == row[event[w]] \in {Processing, Abandoned}  \* mutant

(* The compare-and-set on the row read before. *)
StillAsRead(w) == w \in asRead

TakeOver(w) ==
  /\ pc[w] = "takeover"
  /\ LET e == event[w]
     IN IF StillAsRead(w)
        THEN /\ WriteRow(e, Processing)
             /\ StartHandling(w)
             /\ overrun' = IF row[e] = Abandoned /\ Alongside(w) # {}
                           THEN overrun \cup Alongside(w) \cup {w} ELSE overrun
        ELSE /\ Finish(w)
             /\ UNCHANGED <<row, asRead>>
  /\ UNCHANGED <<stripe, acknowledged, billing, handled, mishaps>>

(* STALE_CLAIM_MS pass since the row was written. *)
ClaimAges(e) ==
  /\ row[e] = Processing
  /\ row' = [row EXCEPT ![e] = Abandoned]
  /\ UNCHANGED <<stripe, acknowledged, billing, request, asRead, handled, mishaps>>

-----------------------------------------------------------------------------
(* handleWebhookEvent, completeEvent, releaseEvent *)

Retrieve(w) ==
  /\ pc[w] = "retrieve"
  /\ pc' = [pc EXCEPT ![w] = "apply"]
  /\ state' = [state EXCEPT ![w] = subscription]
  /\ UNCHANGED <<stripe, acknowledged, billing, row, event, overrun, asRead, handled, mishaps>>

AlwaysSupersedes(e) == TRUE  \* mutant

(* The condition of the update on billingEventAt. *)
Supersedes(e) == billing = None \/ billing.at <= Created[e]

Apply(w) ==
  /\ pc[w] = "apply"
  /\ LET e == event[w]
     IN /\ billing' = IF Supersedes(e) THEN [at |-> Created[e], state |-> state[w]] ELSE billing
        /\ handled' = handled \cup {e}
  /\ Goto(w, "complete")
  /\ UNCHANGED <<stripe, acknowledged, row, asRead, mishaps>>

(* The update fails if the row is gone, and the request with it. *)
Complete(w) ==
  /\ pc[w] = "complete"
  /\ IF row[event[w]] = None
     THEN Finish(w) /\ UNCHANGED <<row, asRead>>
     ELSE WriteRow(event[w], Done) /\ Goto(w, "answer")
  /\ UNCHANGED <<stripe, acknowledged, billing, handled, mishaps>>

AnswerAndRelease(w) ==  \* mutant
  /\ pc[w] = "answer"
  /\ acknowledged' = acknowledged \cup {event[w]}
  /\ WriteRow(event[w], None)
  /\ Finish(w)
  /\ UNCHANGED <<stripe, billing, handled, mishaps>>

Answer(w) ==
  /\ pc[w] = "answer"
  /\ acknowledged' = acknowledged \cup {event[w]}
  /\ Finish(w)
  /\ UNCHANGED <<stripe, billing, row, asRead, handled, mishaps>>

GoesWrong == mishaps < MaxMishaps /\ mishaps' = mishaps + 1

FailureSwallowed(w) ==  \* mutant
  /\ GoesWrong
  /\ pc[w] \in {"retrieve", "apply"}
  /\ Goto(w, "complete")
  /\ UNCHANGED <<stripe, acknowledged, billing, row, asRead, handled>>

(* Stripe's API or the database refuses while the event is handled. *)
HandlerFails(w) ==
  /\ GoesWrong
  /\ pc[w] \in {"retrieve", "apply"}
  /\ Goto(w, "release")
  /\ UNCHANGED <<stripe, acknowledged, billing, row, asRead, handled>>

(* The row is deleted, whosever claim and whatever its status. *)
Release(w) ==
  /\ pc[w] = "release"
  /\ WriteRow(event[w], None)
  /\ Finish(w)
  /\ UNCHANGED <<stripe, acknowledged, billing, handled, mishaps>>

(* The database refuses the completion, or the release (which is ignored): the
   request fails and the row stays. *)
LastCallFails(w) ==
  /\ GoesWrong
  /\ pc[w] \in {"complete", "release"}
  /\ Finish(w)
  /\ UNCHANGED <<stripe, acknowledged, billing, row, asRead, handled>>

(* The process of the worker dies, the database refuses a step of the claim, or the
   answer is lost. *)
Crash(w) ==
  /\ GoesWrong
  /\ pc[w] # "idle"
  /\ Finish(w)
  /\ asRead' = asRead \ {w}
  /\ UNCHANGED <<stripe, acknowledged, billing, row, handled>>

-----------------------------------------------------------------------------
WorkerStep(w) ==
  \/ Create(w)
  \/ Read(w)
  \/ TakeOver(w)
  \/ Retrieve(w)
  \/ Apply(w)
  \/ Complete(w)
  \/ Answer(w)
  \/ Release(w)

Mishap(w) == HandlerFails(w) \/ LastCallFails(w) \/ Crash(w)

Next ==
  \/ \E e \in Events : Emit(e)
  \/ \E e \in Events, w \in Workers : Receive(w, e)
  \/ \E e \in Events : ClaimAges(e)
  \/ \E w \in Workers : WorkerStep(w)
  \/ \E w \in Workers : Mishap(w)

(* A worker that does not crash takes its next step, five minutes pass, and Stripe
   repeats a delivery until one is taken. *)
Fairness ==
  /\ \A w \in Workers : WF_vars(WorkerStep(w))
  /\ \A e \in Events : WF_vars(ClaimAges(e))
  /\ \A e \in Events : SF_vars(e \notin acknowledged /\ \E w \in Workers : Receive(w, e))

SafeSpec == Init /\ [][Next]_vars
Spec == SafeSpec /\ Fairness

-----------------------------------------------------------------------------
Ledger == INSTANCE BillingLedger WITH
            emitted <- emitted, subscription <- subscription, billing <- billing,
            handled <- handled, acknowledged <- acknowledged

(* The webhook implements the ledger: a 200 is given only for an event whose
   effect was committed, the record never goes back to an older second, and every
   event is acknowledged in the end, through claims that are abandoned, taken over,
   released under another worker's feet, and answers that are lost. *)
ImplementsLedger == Ledger!Spec

(* An event recorded as done had its effect: the answer "duplicate" loses nothing. *)
DoneWasHandled == \A e \in Events : row[e] = Done => e \in handled

(* Two requests work on the same event only while they are overrun: a claim was taken
   over from a worker not finished with it, and it or the taker is still at work.
   Neither a crash, a failure nor a race of two takeovers for the same abandoned claim
   is enough, nor an overrun whose workers are gone. *)
ExclusiveUnlessOverrun ==
  \A v, w \in Workers : v # w /\ Busy(v) /\ Busy(w) /\ event[v] = event[w]
                        => {v, w} \subseteq overrun

(* That an event is done is forgotten only when an overrun worker fails and releases
   the event: one whose claim was taken over while it was at work, the one that took
   it over (the slow one may have completed the event meanwhile), or one that claimed
   the event anew while such a worker was still at it. *)
DoneForgottenOnlyAfterOverrun ==
  [][\A e \in Events : row[e] = Done /\ row'[e] # Done
       => \E w \in overrun : event[w] = e /\ pc[w] = "release"]_vars

(* The record bears the time of the newest event handled, and its state is never older
   than that of a subscription event handled, of an earlier second or, unless an
   invoice of that very second was handled too, of the same.  That invoice may put
   back a state it read just before the change. *)
NewestHandledWins ==
  LET invoiced == \E i \in handled \cap Invoices : Created[i] = billing.at
  IN /\ handled # {} => billing # None
     /\ \A e \in handled : Created[e] <= billing.at
     /\ \A e \in handled \ Invoices : Created[e] < billing.at \/ ~invoiced
          => Created[e] <= Created[billing.state]
=============================================================================
