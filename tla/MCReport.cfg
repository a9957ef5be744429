SPECIFICATION FairSpec
CONSTANTS
  Runs = {r1, r2}
  Clients = {c1}
  a1 = a1
  a2 = a2
  public = public
  Addresses <- TwoAddresses
  Refused = {public}
  NoAddress = NoAddress
  Nobody = Nobody
INVARIANTS ReportTypeOK ReportIntact LeftoversExplained
PROPERTIES ImplementsRegister RunsEnd SignalStops
