SPECIFICATION Spec
CONSTANTS
  created = created
  invoice = invoice
  updated = updated
  w1 = w1
  w2 = w2
  None = None
  Events <- MCEvents
  Invoices <- MCInvoices
  Created <- MCCreated
  Repeated <- MCRepeated
  Workers <- MCWorkers
  MaxMishaps = 1
INVARIANT TypeOK
INVARIANT DoneWasHandled
INVARIANT ExclusiveUnlessOverrun
INVARIANT NewestHandledWins
PROPERTY DoneForgottenOnlyAfterOverrun
PROPERTY ImplementsLedger
