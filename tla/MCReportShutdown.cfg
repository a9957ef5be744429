SPECIFICATION Spec
CONSTANTS
  Runs = {r1}
  Clients = {c1}
  a1 = a1
  a2 = a2
  public = public
  Addresses <- TwoAddresses
  Refused = {public}
  NoAddress = NoAddress
  Nobody = Nobody
PROPERTIES GracefulShutdown
