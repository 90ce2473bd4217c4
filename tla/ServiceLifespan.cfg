SPECIFICATION FairSpec
CONSTANTS
  Unset = Unset
  Blank = Blank
  Invalid = Invalid
  None = None
  Absent = Absent
  NamedVectors = NamedVectors
  p1 = p1
  p2 = p2
  Names <- MCNames
  Process = {p1, p2}
  Deployments <- MCDeployments
  InitialStores <- MCStores
  MaxInFlight = 1
  MaxFaults = 1
INVARIANTS
  ServingIsCompatible
  ServiceUsesItsOwnSettings
  ServiceUsesOpenClients
  NothingLeaks
PROPERTIES
  StartUpAndShutdownEnd
  RaceHasAWinner
