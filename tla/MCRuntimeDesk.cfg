\* Two clients, up to three runtimes.
SPECIFICATION Spec
CONSTANTS
  Clients = {c1, c2}
  Names <- MCNames
  Queries <- MCQueries
  Limits <- MCLimits
  OwnRoles <- MCOwnRoles
  MaxRuntimes = 3
SYMMETRY Symmetry
INVARIANTS TypeOK WalksAreInOrder TotalsCountTheOffered AnswersFitTheName ProvisionedOnce
