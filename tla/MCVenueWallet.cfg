\* One venue, created with any of the described bodies.
SPECIFICATION Spec
CONSTANTS
  Venues = {v1}
  Nothing = Nothing
  Initials = {0, 7}
  Spots <- MCSpots
  Futures <- MCFutures
  Evolved <- MCEvolved
INVARIANTS TypeOK EnvironmentsApart FreshWalletAddsUp BalancesNest
