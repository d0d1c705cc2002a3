SPECIFICATION FairSpec
CONSTANTS
  Procs = {p1, p2}
  Seeds = {s1, s2}
  None = None
  Torn = Torn
  MaxReveal = 2
INVARIANTS
  TypeOK
  OneSeed
  ReadyIsComplete
  AddressesOnce
PROPERTIES
  InitSucceeds
