SPECIFICATION FairSpec
CONSTANTS
  Homes = {n1}
  Observers = {m1}
  Layouts <- Plans
  Budgets <- Allowed
INVARIANTS OncePerLife
PROPERTIES RoutesSettle 
