-------------------------- MODULE MCBillingWebhooks --------------------------
(***************************************************************************)
(* An instance of BillingWebhooks for TLC: a subscription is created and,  *)
(* later, changed, and an invoice falls into the second of the change.     *)
(***************************************************************************)
EXTENDS BillingWebhooks

CONSTANTS created, invoice, updated, w1, w2

MCEvents == {created, invoice, updated}
MCInvoices == {invoice}
MCCreated == [e \in MCEvents |-> IF e = created THEN 1 ELSE 2]
MCRepeated == {created}
MCWorkers == {w1, w2}
=============================================================================
