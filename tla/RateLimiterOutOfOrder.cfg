SPECIFICATION Spec
CONSTANTS
  c1 = c1
  c2 = c2
  Clients = {c1, c2}
  Capacity = 10
  Rate = 3
  Cost = 5
  TicksPerSecond = 1
  Slack = 3
  MaxDelay = 2
  Outages = FALSE
  FailOpen = TRUE
  MaxClock = 13
  None = None
INVARIANTS
  SustainedRate
SYMMETRY ClientSymmetry
