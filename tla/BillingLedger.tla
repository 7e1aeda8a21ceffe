---------------------------- MODULE BillingLedger ----------------------------
(***************************************************************************)
(* What Campfire's billing webhook promises, without saying how: every     *)
(* event Stripe emits has its effect on the user's billing record at least *)
(* once before Stripe hears that it was received, is eventually heard of,  *)
(* and the record carries the newest event handled so far, to the second,  *)
(* however late, reordered or repeated the deliveries are.  BillingWebhooks*)
(* implements it.                                                          *)
(***************************************************************************)
EXTENDS Integers

CONSTANTS
  Events,
  Invoices,     \* the invoice.* events; the others carry a state of the subscription
  Created,      \* the second an event was created in
  None

VARIABLES
  emitted,        \* the events Stripe has emitted
  subscription,   \* the subscription at Stripe: the event that carries its state
  billing,        \* the user's record: whose time it bears and which state it shows
  handled,        \* events that had their effect
  acknowledged    \* events Stripe knows to be received

ledger == <<emitted, subscription, billing, handled, acknowledged>>

TypeOK ==
  /\ emitted \subseteq Events
  /\ subscription \in Events \cup {None}
  /\ billing \in [at: Nat, state: Events] \cup {None}
  /\ handled \subseteq Events
  /\ acknowledged \subseteq Events

Init ==
  /\ emitted = {}
  /\ subscription = None
  /\ billing = None
  /\ handled = {}
  /\ acknowledged = {}

(* Stripe emits events in the order of their times; invoices belong to a
   subscription. *)
Emit(e) ==
  /\ e \notin emitted
  /\ \A f \in Events \ emitted : Created[e] <= Created[f]
  /\ e \in Invoices => subscription # None
  /\ emitted' = emitted \cup {e}
  /\ subscription' = IF e \in Invoices THEN subscription ELSE e
  /\ UNCHANGED <<billing, handled, acknowledged>>

(* The states e may show: its own, or for an invoice any the subscription has
   had since. *)
StatesShown(e) == IF e \in Invoices THEN emitted \ Invoices ELSE {e}

(* An event as new as the record's, to the second, replaces it. *)
Record(e, s) ==
  billing' = IF billing = None \/ billing.at <= Created[e]
             THEN [at |-> Created[e], state |-> s] ELSE billing

Handle(e) ==
  /\ e \in emitted \ handled
  /\ \E s \in StatesShown(e) : Record(e, s)
  /\ handled' = handled \cup {e}
  /\ UNCHANGED <<emitted, subscription, acknowledged>>

HandleAgain(e) ==
  /\ e \in handled
  /\ \E s \in StatesShown(e) : Record(e, s)
  /\ UNCHANGED <<emitted, subscription, handled, acknowledged>>

Acknowledge(e) ==
  /\ e \in handled \ acknowledged
  /\ acknowledged' = acknowledged \cup {e}
  /\ UNCHANGED <<emitted, subscription, billing, handled>>

Next == \E e \in Events : Emit(e) \/ Handle(e) \/ HandleAgain(e) \/ Acknowledge(e)

Fairness == \A e \in Events : WF_ledger(Handle(e)) /\ WF_ledger(Acknowledge(e))

SafeSpec == Init /\ [][Next]_ledger
Spec == SafeSpec /\ Fairness
=============================================================================
