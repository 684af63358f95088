\* Routing tables of at most two routes over 9-bit addresses.
CONSTANTS
  HiBits = 1
  MaxRoutes = 2
  NoRoute = 0
  RouteSet <- MCRouteSet
SPECIFICATION Spec
\* The tables never change: every state is final.
CHECK_DEADLOCK FALSE
INVARIANT KernelIsLpm
