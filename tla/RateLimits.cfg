SPECIFICATION Spec
CONSTANTS
  Addresses = {a1, a2}
  Tokens = {k1, k2}
  Burst = 2
  TokenBurst = 2
  GlobalBurst = 3
  StaleAfter = 3
PROPERTIES ConnectionsAreMetered RequestsAreMetered
