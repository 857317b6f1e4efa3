CONSTANTS
  r1 = r1  r2 = r2  r3 = r3  d1 = d1  d2 = d2  demo = demo  plaid = plaid
  Requests = {r1, r2, r3}
  Deliveries = {}
  Conns = {plaid}
  ConnOf <- AllToPlaid
  ProviderAccounts = {x, y}
  DemoAccount = x
  Plaid <- OnlyPlaid
  MaxLedger = 0
  NoLink = NoLink
SPECIFICATION Spec
SYMMETRY Sessions
INVARIANTS TypeOK OneLinkPerConnection NoDuplicateAccounts Structure ViewConsistent
PROPERTIES ParkedUntilRelink
