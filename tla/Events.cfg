SPECIFICATION EventsSpec
CONSTANTS
  approved = approved
  completed = completed
  BusEvents = {approved, completed}
  RoutingKey <- MCRoutingKey
  Queues <- MCQueues
  Binding <- MCBinding
  RetryLimit = 1
  Identified = {approved}
  Readers = {r1}
  MaxFaults = 2
  Announced = {approved, completed}
INVARIANTS EventsCounted CopiesBounded
PROPERTIES EventsArrive DashboardCatchesUp
CHECK_DEADLOCK FALSE
