CONSTANTS
  r1 = r1  r2 = r2  r3 = r3  d1 = d1  d2 = d2  demo = demo  plaid = plaid
  Requests = {r1, r2}
  Deliveries = {d1}
  Conns = {demo}
  ConnOf <- AllToDemo
  ProviderAccounts = {x}
  DemoAccount = x
  Plaid <- NoPlaid
  MaxLedger = 1
  NoLink = NoLink
SPECIFICATION FairSpec
INVARIANTS CountsMatch BalanceBacked CascadeComplete
PROPERTIES ImplementsView EverySessionEnds
